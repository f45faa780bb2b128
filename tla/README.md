# TLA+ verification of mliport

mliport runs machine-learned interatomic potentials (UMA, MACE, DPA, GRACE) as
a VASP-like program: single points, relaxations, molecular dynamics, nudged
elastic band (NEB) calculations, batches, a background job queue, the analysis
of trajectories, and a scientific validation campaign over all of it.  This
directory models the parts of it whose correctness depends on the order of
steps: processes sharing files, crashes, retries, threads, user interfaces that
remember, caches that may be stale, and rules that decide what may be claimed.

Paths below are relative to `mliport/mliport/` unless they start with `docs/`,
`tests/` or `validation/`.

## 1. The system

| Component | State it keeps | Operations | Hard behaviour |
|---|---|---|---|
| Job records (`jobs.py`) | one `job.json` per job: status, pid and start tick, claim token, claiming process, leased GPU, revision | enqueue, submit, claim_job, mark_running, update_status, reset_to_pending, recover_stale_claims, pause, resume, kill, delete, clean | every write is a compare-and-swap under one state lock, but readers are not locked and act later |
| Scheduler (`queue.py`, `queue_daemon.py`) | local slot count and pending list | run_once (recover, reap, count, scan, claim, spawn, promote), pause, resume | killed and restarted between any two steps; another process launches jobs beside it |
| Scheduler control (`queue.py`, `queue_daemon.py`, `cli.py`, jobs screen) | the lock file, its text, the PID file | start with its hand-over of the lock, foreground scheduler, stop, status | several commands at once, a start that fails half way, kills |
| Job worker (`job_worker.py`) | its claim token, the child it waits for | ten-second handshake, start of the calculation, publication of its exit code | outlives its scheduler; loses or keeps its claim while it waits |
| Worker identity (`jobs.py`, `queue.py`) | process number and start tick in a record | identity check before a signal or a failure, reaping of children | the kernel uses numbers again |
| Task files (`queue.py`) | none; a file becomes jobs | parse, check, freeze paths, build commands, enqueue | the worker runs later, elsewhere, without the file |
| Calculation of one structure (`engine.py`, `runners/base.py`, `cli.py`) | the run directory, the event queue | run, run_async, cancellation, signals, watchdog | files written in place; two signals, an exception and a reader that leaves race |
| Outcomes (`run_status.py`) | none | classify, exit codes, job statuses | three interfaces must agree |
| Batch (`runners/batch.py`) | a directory per structure, a summary | run the structures one after another | failure of one of several, names that collide |
| MD (`runners/md.py`, `runners/md_output.py`) | trajectory, CSV, OUTCAR, XDATCAR, manifest; a bounded queue to a writer thread | judge the settings and the structure, pre-relax, draw or keep velocities, run, submit a frame, close, abort | policies that interact; backpressure, a writer that fails, Ctrl-C inside a handler |
| NEB run (`neb/workflow.py`, `runners/neb.py`) | one run directory: lock, context, artifacts, results, checkpoints | new run, resume, endpoint relaxation, stages, failure record, publication | a dozen files replaced one by one; killed between any two, and resumed from what is there |
| NEB checkpoint store (`neb/io.py`) | `step_NNNNNN` directories, the `latest` link | write, load, resolve | power loss before a synchronisation, several processes |
| GRACE neighbour cache (`calculators/grace_calc.py`) | reference positions, an extended neighbour list | calculate, reset | reuse is sound only within half the skin |
| Devices (`devices.py`, `job_worker.py`, `cli.py`, the wrappers in `calculators/`) | CUDA_VISIBLE_DEVICES, the lease, the device of a process | resolve a device, lease and isolate, restart isolated, load, verify what the framework used | one number means different GPUs to different readers, and others after one failed |
| Doctor (`doctor.py`) | the findings so far | survey, runtime probe, CUDA verdict, model probe | a verdict about an environment that the calculation will not have |
| Configuration (`config/`) | none | merge of settings, aliases, profiles, INCAR, command line | precedence and conflicts of layers |
| Terminal interface (`tui/`) | one dictionary that outlives every screen; a timer | fill and save forms, queue a job, follow it | stale values, a record that others change |
| Analysis store (`analysis/runner.py`) | attempts, pointer, documents, index | look up, compute, publish, fail | concurrent publication, death between two files |
| Trajectories (`analysis/`) | the view of a trajectory | load, slice, unwrap, remove drift, displacements | convention, interval and rows come from different files |
| Validation campaign (`validation/science/`) | one file per computation, trajectories of earlier processes, three documents | orchestrate tiers, run workflows, judge, load evidence, claim, report | runs found on disk, documents rendered while suites still write |

How they interact: a scheduler and its workers share nothing but the job
directory and signals; a worker runs `mliport <calculation>` as a child and
turns its exit code into a status (`run_status.py`); that child is the engine,
which builds a calculator and a runner.  A NEB resume that the queue starts
reads the checkpoints of an earlier job.  The terminal interface and the
command line are front ends of the same job manager and engine; what a form or
a task file loses on the way to a command line is lost for good.  Analyses and
the validation suites read what runs have left on disk.

The behaviours that a test hardly reaches are listed with their lines under
`hazards` in `PROJECT.json`.

## 2. The modules

| Module | What it is |
|---|---|
| `JobRecords` | the persisted record and the compare-and-swap operations on it, pure operators |
| `JobQueue` | the queue: records, schedulers, submitting processes, workers, calculations, user commands |
| `LeasedQueue` | what the queue promises, without processes, tokens or records; `JobQueue` implements it |
| `JobQueueInvariant`, `JobQueueProofs` | the inductive invariant of `JobQueue`; what each step does to it, and the theorems |
| `WorkerIdentity` | process numbers that are used again |
| `SchedulerControl`, `SchedulerControlProofs` | start, stop and status of a scheduler, and the proof that there is one at most |
| `TaskFile` | `queue submit`: from a file of tasks to the commands of the jobs |
| `CalculationRun` | one single point or optimisation, its signals, watchdog and reader |
| `RunStatus` | outcomes, exit codes and job statuses, pure operators |
| `BatchRun` | a batch of structures |
| `MDSetup` | from a request for MD to its first step |
| `MDOutput`, `MDOutputProofs` | an MD run and its writer thread, and the proofs of its safety |
| `NebRun` | one NEB run directory and the attempts made in it |
| `CheckpointStore` | the system calls of the checkpoint store, with concurrent writers, kills and power losses |
| `DurableLatest` | what the store promises of its latest link; `CheckpointStore` implements it |
| `NeighborCache` | the neighbour list cache on a periodic line |
| `DeviceIdentity` | from the device that is asked for to the one a result names |
| `Doctor` | an examination of the environment, over the same GPUs and lists |
| `ConfigLayers` | the layers of the configuration up to what the engine is given |
| `ConfigForm`, `RunScreen` | the configuration screens and the run screen of the terminal interface |
| `AnalysisStore` | the results of analyses on disk, several processes |
| `TrajectoryData` | a trajectory from its writing to the displacements of an analysis |
| `SuiteVerdicts`, `ScienceSuites` | what each validation workflow concludes; the orchestrator, the tier scripts and what outlives them |
| `Evidence` | evidence records, claims, and the documents rendered from them |
| `StoreProofs` | proofs about `CheckpointStore`, `NebRun`, `AnalysisStore` and `TrajectoryData`: what processes share through files |
| `RunProofs` | proofs about `CalculationRun`, `RunScreen`, `BatchRun`, `ConfigForm` and `NeighborCache`: a calculation and the screens around it |
| `DeclaredProofs` | proofs about `Evidence`, `TaskFile`, `ConfigLayers`, `MDSetup` and `ScienceSuites`: what is declared is what happens |
| `IdentityProofs` | proofs about `WorkerIdentity`, `DeviceIdentity` and `Doctor`: nothing is mistaken for another |
| `MCJobQueue`, `MCSuites`, `MCThreads`, `MCParts` | instances for TLC; `MCSuites` also names the calculators of the campaign |
| `PartsProofs` | proofs about `MCParts`: each part behaves there as it does alone, and keeps its types (`RunProofs` says the same of `MCThreads`) |

### JobRecords and JobQueue

An operation under the state lock is one action, because the lock serialises
it; what a process reads without the lock is a separate action that leaves its
result in a local variable: `cand` (the pending list of `run_once`), `active`
(the slot count, taken in two passes), `kills` (workers a `kill_job` caller has
decided to signal after it released the lock), `target` (the job a submitting
process has enqueued).  `pc` says where a dispatcher is; a dispatcher is a
scheduler or a process that calls `submit`.  `work[c]` is the worker process
and the calculation of claim `c`: a claim token is a uuid4, and a claim spawns
at most one worker, so the token, the worker's pid and its start tick are the
same number.  That a pid may be used again by a stranger is `WorkerIdentity`.

The actions follow `run_once`: `Recover`, `ReapChild`/`ReapGone`,
`CountRunning`, `CountClaimed`, `Scan`, `Claim`/`Reject`/`PassOver`,
`Spawn`/`SpawnFails`, `Mark`/`MarkFails`, `GiveUp`, `Wake`.  A worker does
`HandshakeOk` or `HandshakeTimeout`, `CalcStarts`, `CalcExits`, `Publish`, and
may die at any point.  A timeout is nondeterministic: the model lets a handshake
time out, and a claim grow stale, as early as the code's guards allow.

### WorkerIdentity

`process[n]` is what runs under number `n`: nothing, a live process or a zombie,
its start tick, and whose worker it is.  `Fork` gives a free number and a new
tick to a worker, or to a stranger.  A record keeps number and tick;
`PidMatches` compares both with what runs under the number now.  Between a
check and the act that follows it (a promotion, a failure, a signal) there is a
gap, `gaps`; the model assumes that the kernel does not hand out the number
within a gap, because it goes through all the other numbers first.

### SchedulerControl

One action per step of the three commands, because nothing but the advisory
lock serialises them: take the lock, spawn, truncate and write its text, publish
the PID file, close the descriptor.  The lock belongs to an open description
that a daemon inherits, so `lockHolders` is a set; an explicit unlock by any of
them frees it.  `Terminate` and `DiesOfTerm` are what SIGTERM does to a daemon
before and after it has installed its handlers.

### CalculationRun, RunStatus, RunScreen

`CalculationRun` follows `engine.run` and `BaseRunner.execute`: load, compute,
write each file in place, append the timing.  Beside it go the
signals (the first asks, the second interrupts, a watchdog ends the process)
and the task that reads `run_async`.  Each file is absent, partial or
whole; which ones there are depends on the run (`recorded`: an optimiser whose
first evaluation raised has recorded no step, and then OSZICAR is not written).
How an outcome becomes an exit code is `RunStatus`.  `RunScreen` follows
one job by a timer, over the projection of the queue to one job.

### BatchRun

Each structure is read, computed, written, stamped and entered in the summary, and
may fail at each step but the stamp: `append_timing_to_outputs` opens its
`mliport_results.json` again and rewrites it in place (`OpenStamp`, `CloseStamp`),
and when that breaks off, `execute` logs a warning and the structure still counts
as a success (`StampFails`).  A directory therefore says of its files and of its
results what has become of them, `retiming` being the state that such a rewrite
leaves.

### NebRun

A band is abstracted to its `gain`, the number of optimizer steps its interior
images contain, which is what a restart may lose.  `Preflight` (the test for an
empty directory) and `Enter` (the lock) are two actions because the engine
makes them one after the other.  Every file has its own variable and every
replacement its own action, in the order of `_run_neb_workflow_locked`.
`Raise` is an exception or a Ctrl-C at any step; whether it is recorded depends
on whether the code has a `try` around that step (`Guarded`).  `Crash` is a
SIGKILL or the SIGTERM of `kill_job`, for which `mliport neb` installs no
handler.

### CheckpointStore

One action per system call that matters: number, band file, metadata, rename,
fsync, link, fsync.  Each file and directory entry is synchronised or not; a
`PowerLoss` keeps everything that is synchronised and any subset of the rest.
A checkpoint directory that survives by name but whose parts were not all
synchronised is no longer whole.  `Announce` is the durable replacement of
`artifacts.json` in the parent directory.

### MDSetup and MDOutput

`MDSetup` has one action per stage of `MDRunner.run` before the loop:
`ConstructMD` (the settings), `JudgeRun` (the structure, its constraints and
momenta), `LoadModel`, `PreRelax`, `InitializeVelocities`, `FirstEvaluation`,
`BuildDynamics`.  Momenta are small integers along two axes; what matters is
who has moved the atoms last, what holds them, and which momenta are theirs.

`MDOutput` has two threads: the MD thread (`MDStep`) and the writer
(`WriterStep`), with the bounded queue between them.  A frame is the number of
its MD step.  The MD thread's `pc` follows the step observer (`observe`,
`compute`, `submit`, `put`, `advance`), the except clauses (`handler`), the
finally block (`backstop`), and `close` in its own steps (`seal`, `putSentinel`,
`join`), because the writer runs between them.  `Upset` is a Ctrl-C, which may
arrive anywhere, or a message that raises, which can happen only where the code
sends one; what it leads to depends on the `try` around the place.  The writer
may fail at every write and at closing.

### NeighborCache

Lengths are integers on a periodic line; a pair is two atoms and the vector
between them.  Between two evaluations the caller may do anything to the
structure: move, wrap, replace, add or remove atoms, change the cell, make it
non-periodic.  `PairsAreFresh` compares what the model is given with a search at
the exact cutoff.

### DeviceIdentity and Doctor

The GPUs of a machine are one set in two orders, that of `nvidia-smi` and that
of the CUDA runtime, and a visibility list is read by each in its own way:
`Resolved` is the resolver of `devices.py`, `CudaSees` the runtime.  `shell` is
the environment and the device of the process that will compute: that of a user
or of the scheduler (`AskForDevice`), of a worker confined to its lease
(`IsolateWorker`), of a command line that started itself again
(`RestartIsolated`).  `PlacesOf` is where each framework puts its model, and
`ConfirmDevice` what is read back before results are written; whether
`nvidia-smi` answers and whether the tensors tell is open each time.  `LoseGpu`
may come between any two steps.  `Doctor` runs its four stages over the same
machine and lists; a finding is its severity and what it rests on, so that the
verdict can be compared with the stages that gave it.

### ConfigLayers, ConfigForm, TaskFile

The three ways in which a user's wish becomes what the engine is given.
`ConfigLayers` merges up to three declarations in any places and asks of each
whether it takes effect.  `Sources` is the merge of the layers and `Provenance` the
source that is recorded in the end: for an engine without inference modes the
resolver rewrites that of `inference_mode` to the built-in defaults.  `ConfigForm` keeps the one dictionary of the terminal
interface, the fields of a screen with what the user has edited, and the stages
in which Run saves them; each stage can be refused.  `TaskFile` has one
representative of each kind of option and the three states of a path.

### AnalysisStore and TrajectoryData

`AnalysisStore` has one action per file that a process reads or replaces.
`TrajectoryData` lets a run save frames and end, or be killed, while someone
loads its trajectory (each file of a run that has not completed may lack any number
of last frames), slices it, declares what the files do not say, and asks
for displacements with a drift correction, a lag grid and components.

### ScienceSuites, SuiteVerdicts, Evidence

`SuiteVerdicts` has one operator for each workflow of the tier scripts: from
computations that are good, loose or bad to the records it writes; each record
also keeps what it rests on, with which its status is compared.  `ScienceSuites`
is one call of the orchestrator: a process per tier, a list of workflows, the
memory of that process, and what later processes find on disk: trajectories, in
directories that name the engine, the temperature and the tag, and the forces of
phonons, in a cache that names the engine and the profile and may hold any part of
a set (`Cached`, `Grown`).  A calculator is an engine, a profile and a precision,
and a record keeps both whose it says it is (`by`) and who computed it (`of`).
`Evidence` lets suites write, replace and quarantine records while a report is
loaded, classified and rendered into three documents.

## 3. What is checked

Five runs pass; seven show a disagreement of the code with its documents
(section 4).

| Run | Question | Bounds |
|---|---|---|
| `JobQueue_lease` | leases, ownership, at-most-once, the refinement of `LeasedQueue`, and that every job settles, with a scheduler killed and replaced | 2 jobs on 1 GPU, 3 schedulers, 2 slots, 3 claims, 1 death, 1 command |
| `JobQueue_slots` | the concurrency limit over a restart, and how many launches slip through a pause | 3 CPU jobs, 1 slot, 2 schedulers, 3 claims, 1 death, 1 command |
| `JobQueue_submit` | reports are true and final beside a submitting process and a broken record | 2 jobs on one GPU, 2 exits, 3 claims, 1 death, 1 command |
| `Threads` | what goes on around a calculation: threads, signals, batches, caches, screens and the commands of the scheduler, with fairness where somebody waits | see below |
| `Parts` | the parts that run on their own and promise nothing about time | see below |

`Threads` and `Parts` put modules side by side that share no state; each
behaviour exercises one, chosen in the initial state.  `Threads`:

| Part | Properties | Bounds |
|---|---|---|
| `MDOutput` | `NothingDropped`, `CompletedIsComplete`, `ManifestCountsFrames`, `ThreadsEnd` | 4 steps, a frame every 2, a queue of 1, 2 upsets |
| `CalculationRun` | `ExitTellsTheTruth`, `RunsEnd` | 2 optimizer steps, 1 mishap, 2 signals |
| `RunScreen` | `LastWordIsTrue`, `ScreenSettles` | 3 screens opened |
| `BatchRun` | `SummaryIsTrue` | 3 files, two with one stem, 2 troubles |
| `ConfigForm` | `CommandIsTheForm` | 2 screens, 3 edits |
| `NeighborCache` | `PairsAreFresh` | 2 atoms of two species, cells of 4 and 5, skin 2 (`NeighborBound`) |
| `SchedulerControl` | `SingleScheduler`, `FailedStartIsGone`, `AnswersAreAlive`, `StopStops`: never two schedulers, none after a failed start, a status that is true, a stop that stops | 4 processes, 1 exception or kill |

`Parts`, with the bounds named in `MCParts` (`NeighborBound` is in `MCThreads`):

| Part | Property | Bounds |
|---|---|---|
| `NebRun` | `NoFalseSuccess`, `ProgressIsKept` (with `OptimisedBandKept`) | a new run and 2 resumes, one step a stage; three attempts and one fault or two and two (`NebBound`) |
| `CheckpointStore` | `KeepsPromise`: it implements `DurableLatest` | 2 writers, 3 writes and three faults of an exception, a kill and two losses of power, or 4 writes and two faults (`CheckpointBound`) |
| `AnalysisStore` | `NothingResurrected` | 3 requests, two at a time, or 2 with a death or a trajectory that grows (`AnalysisBound`) |
| `ConfigLayers` | `DeclaredTakesEffect` | 3 declarations, 2 before a refusal (`LayersBound`) |
| `TaskFile` | `QueuedIsDeclared` | 3 tasks, or changes of the user to them |
| `Evidence` | `ClaimIsBacked` | 2 computations, 3 changes, 1 rendering (`EvidenceBound`) |
| `TrajectoryData` | `DisplacementsAreTrue` | 5 frames, one uneven, cell 7 (`TrajectoryBound`) |
| `ScienceSuites` | `SuitesTellTheTruth` | 16 lists of workflows, one spoilt trajectory, 4 calculators of two engines (`SuitesBound`) |
| `MDSetup` | `StartsAsAsked` | 2 atoms, 2 axes, 8 sets of constraints, 5 of momenta (`SetupBound`) |
| `DeviceIdentity`, `Doctor` | `DevicesAreTrue`: a job keeps to its lease, a backend that takes the first GPU has one to see, a result names its GPU, and a healthy verdict was tested | 2 GPUs in both CUDA orders, 6 visibility lists, 1 lost GPU (`DevicesBound`, `DoctorBound`) |
| `WorkerIdentity` | `WorkersAreNotMistaken` | 2 numbers, 2 jobs, 3 processes |

Why the bounds are enough.  Each hazard of the queue needs at most two jobs
(who compete), two generations of claims of one job (the stale and the new
one) and one death; the third claim lets the other job run in between.  Two
schedulers one after the other are a restart; two at the same time are
excluded by the scheduler's lock.  Of four processes at the lock one may start,
one be its daemon, one stop it and one start or ask beside them.  For NEB, a
defect of a resume shows in the resume after it, so one run with two resumes.
For the store, three generations of numbers and two writers let a remembered
number fall behind, and a second power loss lets a loss follow what the first
one left.  For MD, a queue shorter than the run fills and drains, the interval 2
tells steps that save from steps that do not, and two upsets reach the finally
block and one more place.  Three requests of an analysis are an answer, a
failure, and a reader between them.  Two screens are enough for one to inherit
from the other.  In the cells of `NeighborCache` an atom meets its own image and
the cutoff reaches over half a cell.  Five frames hold a window, a slice of it
and a lag that does not fit.  Two numbers and three processes let a number pass
to a stranger and to another worker.  Two GPUs are two orders, a lease beside
another one, and one that moves up when the other fails.  The proofs of section 5 hold for every
bound.

The four runs about configuration and the campaign that expect a violation are
small: two options of a task file, three declarations, and two calculators of MACE
with one trajectory and one equation of state (`MCSuites`).

Deadlock is not checked in these runs: every one of these systems stops when
its jobs, attempts, writes or bounds are used up, and a process may be dead for
good.

### Fairness

`FairSpec` of `JobQueue` assumes that the scheduler's loop, the dispatch it has
begun, workers and calculations keep going, that an operator starts a scheduler
when none is up, and resumes a paused queue.  The loop sleeps and repeats by
itself (`queue.py` `_run_loop`), the operating system schedules the processes,
and a calculation ends.  Nothing restarts a dead scheduler by itself: that
assumption is the operator's.  No fairness is assumed of user commands, of
`kill_job` callers or of deaths.

`ControlFairness` of `SchedulerControl` schedules commands that have begun and
daemons; nothing makes a command begin, fail or be interrupted.

In `Threads`, both threads of an MD run are scheduled (every wait of theirs is
bounded or ends when the other thread moves).  `RunFairness` schedules the
watchdog, the pipeline outside the model's own evaluation, and the reader; the
evaluation itself may never return.  The timer of the run screen fires
(`Refresh`).  `EveryoneEnds` of `MDOutput` is stated for runs that are not upset
by a Ctrl-C or a failed message: `MDOutput_drain` shows what an upset can do.

## 4. Where the code and its documents disagree

* `JobQueue_gpu`: `docs/workflows/queue.md:3-5` promises that a GPU is used by
  one job at a time.  `kill_job` writes CANCELLED first, which frees the lease,
  and signals afterwards; the signalled calculation shuts down cooperatively,
  so the next job is granted the GPU while it still computes.
* `NebRun_path`: a resumed attempt stores the optimised band again with stage
  `prepared` (`neb/workflow.py:758`).  Killed before its next checkpoint, it
  makes the following resume treat the band as unoptimised, and with relaxed
  endpoints the band is interpolated anew.
* `MDOutput_drain`: a comment of `runners/md.py:1526-1529` says that the
  non-daemon writer thread must always be drained.  `output_closed` is set before
  the stream is closed (`:1441`), so a second Ctrl-C inside `close()` skips the
  finally block's close, and the writer waits for ever and keeps the process alive.
* `ConfigLayers_alias`: `docs/configuration.md:7-13` ranks the built-in defaults
  below `settings.ini`.  An alias that names no task is given the default task of
  its engine when it is parsed (`config/aliases.py:101-105`), with the rank of the
  alias, so that default overrides a task declared in `settings.ini`.
  `DeclaredTakesEffect` excepts this case by name.
* `TaskFile_mode`: `docs/configuration.md:134-135` says that a backend-specific
  option is never silently dropped.  `queue submit` accepts an inference mode for
  another backend than UMA, and `build_mliport_command` leaves it out of the
  command (`queue.py:298-302`); the worker, which would refuse it, never sees it.
* `Suites_calculators`: `analysis_suite.py:102-103` says that a completed run
  belongs to exactly one calculator, and `model_manifest.json:28` that the float32
  profile of MACE is never mixed with float64 results.  The directory of a run
  names the engine, the temperature and the tag only (`:114-115`), so the second
  profile finds the run of the first complete (`:586`) and records it as its own.
* `Suites_passes`: `static_suite.py:20-21` says of `pass` that the internal
  convergence criteria were met.  The equation of state discards what its
  relaxation reports (`:584`) and passes by its fits alone.

Eight more are stated as definitions that no run asks, each with the trace that
TLC finds described here.  `Findable` (`SchedulerControl`): `stop` finds the lock
free, a start completes, and `stop` removes the new scheduler's PID file, after
which neither `stop` nor `status` finds it.  `ResultOfItsSource`
(`AnalysisStore`): the fingerprint is taken before the trajectory is loaded, so
a trajectory that grows in between is analysed under the identity of its earlier
content; no text promises otherwise for a run that still writes.
`NoAttemptLeftRunning` (`NebRun`): `run_context.json` is at `running` before the
first `try` (`neb/workflow.py:752`), so a Ctrl-C there leaves it so, against
`tests/mliport/mliport/neb/test_neb_workflow.py:435`.  `OwnDirectory` (`BatchRun`):
`docs/workflows/batch.md:29` promises one directory per structure, but the flat name
that a file falls back to may be the stem of a third file (`Si.cif`, `Si.xyz`,
`Si_cif.vasp`).  `ImplicitStaysImplicit` (`ConfigForm`): a comment of
`tui/app.py:215-221` rules out that runs of the terminal interface pre-relax
silently; the switch is filled from the ensemble saved when the screen is composed
and does not follow the choice of NVE on it.
`EveryEndIsShown` (`RunScreen`): a job that ends as `not_converged` is in no
branch of the run screen, which polls it for ever.  `RestartedIsIsolated`
(`DeviceIdentity`): `docs/installation.md:102-104` says that the command line
restarts the same command in a fresh process with the requested GPU visible; for
DPA and GRACE with `cuda:1` that process sees one GPU, its unchanged arguments
ask for a second, and it refuses.  `DoctorReports` (`Doctor`): `doctor --device
cuda` where no GPU is visible ends by the exception of the resolver, which
`_probe_environment` calls outside the probe's own handlers, and reports
nothing.

## 5. What is proved

Each theorem holds for every value of the constants that the named assumption
of its module allows; TLC evaluates the assumptions in the runs.  Three theorems
have a hypothesis of their own, which is named where they are explained.  Every
invariant, every action property and both refinements that a passing run checks
are proved; what is left to TLC stands at the end of this section.

| Module | Theorem | Property |
|---|---|---|
| `JobQueueProofs` | `InductiveInvariant` | `IInv` in every reachable state |
| | `TypeCorrect` | `TypeOK` |
| | `LeaseSafety` | `LeaseExclusive` |
| | `OwnershipSafety` | `ComputingWorkerOwnsJob` |
| | `AtMostOnce` | `ComputedAtMostOnce` |
| | `HonestReport` | `ReportIsTheExit` |
| | `PauseSafety` | `PauseLetsOneThrough` |
| | `ConcurrencySafety` | `ConcurrencyLimit` |
| | `TerminalStays` | `TerminalIsFinal` |
| | `RequeueSafety` | `RequeuedOnlyUnstarted` |
| | `QueueKeepsPromise` | `ImplementsPromise`: `JobQueue` implements `LeasedQueue` |
| | `ScreenSeesTheQueue` | a record moves in `JobQueue` as `RunScreen` assumes of its job |
| `SchedulerControlProofs` | `ControlInvariant` | `ControlInv` in every reachable state |
| | `OneScheduler` | `SingleScheduler` |
| | `NoDaemonAfterFailure` | `FailedStartIsGone` |
| | `StatusIsTrue` | `AnswersAreAlive` |
| `MDOutputProofs` | `InductiveInvariant` | `IInv` in every reachable state |
| | `MDTypeCorrect` | `TypeOK` |
| | `FramesKept` | `NothingDropped` |
| | `CompletedRunsComplete` | `CompletedIsComplete` |
| | `RunWritesATrajectory` | the files of `MDOutput` are those of a run of `TrajectoryData` |
| | `RowsAreTrue` | the rows of md.csv are the steps of the first frames of the trajectory |
| | `ManifestExact` | `ManifestCountsFrames` |
| `StoreProofs` | `CheckpointInvariant` | `CheckpointInv` in every reachable state |
| | `StoreKeepsPromise` | `KeepsPromise`: `CheckpointStore` implements `DurableLatest` |
| | `NebInvariant` | `NebInv` in every reachable state |
| | `SuccessIsNotFalse` | `NoFalseSuccess` |
| | `NothingComputedIsLost` | `ProgressIsKept`, with one new run in the directory |
| | `PointerIsFollowed` | `PointerFollows` |
| | `ScreenSeesTheEngine` | the status in `artifacts.json` moves in `NebRun` as `RunScreen` assumes of its engine |
| | `StoreInvariant` | `StoreInv` in every reachable state |
| | `NoSuccessResurrected` | `NothingResurrected` |
| | `DisplacementsSafety` | `DisplacementsAreTrue` |
| `RunProofs` | `RunInvariant` | `RunInv` in every reachable state |
| | `ExitIsTrue` | `ExitTellsTheTruth` |
| | `LastWordIsKept` | `LastWordIsTrue` |
| | `BatchInvariant` | `BatchInv` in every reachable state, if no names clash |
| | `SummaryIsKept` | `SummaryIsTrue`, if no names clash |
| | `CommandIsKept` | `CommandIsTheForm` |
| | `AlwaysFresh` | `PairsAreFresh` |
| | `PartsAlone` | a behaviour of `MCThreads` is one of each of its parts |
| | `ThreadsTypesCorrect` | `ThreadsTypeOK` |
| `DeclaredProofs` | `ReportIsBacked` | `ClaimIsBacked` |
| | `QueuedAsDeclared` | `QueuedIsDeclared` |
| | `DeclaredIsKept` | `DeclaredTakesEffect` |
| | `BegunAsAsked` | `StartsAsAsked` |
| | `CampaignTellsTheTruth` | `SuitesTellTheTruth` |
| `IdentityProofs` | `IdentityInvariant` | `WorkerInv` in every reachable state |
| | `IdentitySafety` | `WorkersAreNotMistaken` |
| | `DeviceInvariant` | `DeviceInv` in every reachable state |
| | `LeaseIsKept` | `ComputesOnItsLease`, a part of `DevicesAreTrue` |
| | `NeverASecondGpu` | `OneToSee`, a part of `DevicesAreTrue` |
| | `ReportIsTrue` | `RunsWhereItSays`, the part of `DevicesAreTrue` about calculations |
| | `DevicesSafety` | `DevicesAreTrue` |
| `PartsProofs` | `ModulesAlone` | a behaviour of `MCParts` is one of each of its parts |
| | `PartsTypesCorrect` | `PartsTypeOK` |

**The queue** (`ConstantsAssumption`).  Neither ownership nor at-most-once is
inductive: a worker that passes its handshake looks only at its own record.
What makes it safe is a chain that `JobQueueInvariant` names: a record's token
was issued for that job (`TokensIssued`); tokens are issued in order and the
worker of a token not yet issued does not exist (`ClaimsIssued`); a dispatcher
past `claim_job` carries a claim of its own whose worker it has not yet spawned
(`CarriedClaim`); and a worker that has begun found its token in a RUNNING
record, which never returns to the queue (`BegunOwnsRecord`), so two begun
workers never share a job (`BegunOnce`).  The proof has one step per action; the
lemmas before it state once what every move of a record or a worker preserves.

The concurrency limit rests on `SlotInv`, carried beside that invariant.  A
scheduler counts the running records without the lock, so its count may be too
high but never too low (`SlotsCounted`): once it has counted, only its own
promotions add a running record of a scheduler, and it adds those up.  It claims
only below the limit, and the claim it then carries is the only claimed record
of any scheduler, since what a dead one left has been taken back before the count
(`ClaimIsCarried`, which needs that a record is owned by the dispatcher of its
claim, `OwnerIsParent`).  Every step but a claim or a promotion by a scheduler is
`Quiet`: it makes no record of a scheduler active.

The refinement of `LeasedQueue` (`QueueKeepsPromise`) maps a job to its status,
a GPU to the one active record that carries it (`HolderFacts`, by
`LeaseExclusive`), and what has begun to the jobs of workers whose calculation
started, a set that grows only when a worker starts one (`StartedAfter`).  A step
of the queue changes one record, or takes back, fails or removes several
(`Together`), and each of these is a step of the promise.

**MD output** (`MDAssumption`).  That a completed run has written every frame
needs three things to be carried through the run: the frames submitted so far
are exactly the multiples of the save interval up to the step reached
(`OnSchedule`, with two small lemmas on quotients); a writer stops without an
error only when the sentinel is taken, which is the last thing in the queue
(`SealedLast`); and what `join` has seen cannot change (`DrainedWell`).
`WriterStopped` is why nothing is written after a manifest.  What `TrajectoryData`
assumes of a run is proved of `MDOutput` (`RunWritesATrajectory`): with the frames
of trajectory.traj and the status this run has published, every step saves the
next frame of the grid, saves a last one off it, ends the run, or is not seen.
It rests on three more parts: frames are submitted on the grid, and the last not
later than it (`Scheduled`); the files hold the first frames submitted, rows after
frames (`FilesInOrder`); and a status is published once, but for the failed close of
the finally block (`Reported`).

**Scheduler control** (`ControlAssumption`).  Where a process is tells whether it
holds the lock (`HoldersTrue`), and two holders are a starter and the daemon it
has spawned (`MatesOnly`, `ChildrenTrue`), of which only one is a scheduler.  A
PID that was ever published, or read from the PID file, belongs to a process
that was to be a scheduler (`PublishedTrue`): alive, it holds the lock.  Most
actions are a process moving along its own path (`Moves`, `MoveKeeps`); the
others begin a process, spawn, or let a daemon die (`BeginKeeps`, `SpawnStep`,
`DeathKeeps`).

**Worker identity** (`IdentityAssumption`).  A tick is given once,
so it names one process; a record takes its tick from a child that nobody has
waited for, which therefore still has its number; and what a step has in hand
between its check and its act cannot have become another process, because its
number is not given out within the gap.

**Neighbour cache** (`NeighborAssumption`).  While no atom has moved
by more than half the skin since the search (minimum images counted), the vector
of a pair differs from that of the search by at most the skin, so every pair
within the cutoff was found by the search with the larger cutoff, and the
filter keeps exactly the pairs within the cutoff.  Wrapping an atom changes the
images of its pairs, which the cache corrects; the lemmas on division with
remainder say that the correction is exact.

**The checkpoint store** (`StoreAssumption`).  `CheckpointInv` relates what is
visible to what a power loss may leave.  What `latest` names, and what it names on
the disk, is a checkpoint that is whole and synchronised, and what was announced
is ahead of neither (`LinksSafe`); numbers are given out after those that are
there (`NumbersOrdered`); and a writer has done exactly what its step says
(`FarAs`), up to the exception or the kill that ends it.  The refinement then has
one step per system call: publishing the link, its synchronisation and the
announcement move the abstract store, and a loss of power falls back no further
than what was announced.

**NEB runs** (`NebRunAssumption`).  For `NoFalseSuccess`, `Reported` says of each
step of an attempt what the files hold; only the attempt with the lock changes
them, so the lemmas move that one and the others keep theirs.  `ProgressIsKept`
needs that no second new run enters a directory that a first one fills: the test
for an empty directory precedes the lock, so two new runs that race may.  The
theorem therefore assumes `OneNewRun`, and the number of resumes is free: an
attempt that resumes carries all that its checkpoint held (`Carried`), and a new
run enters while there is no checkpoint, a resume once there is one (`Entered`).
`PointerInv` says what `artifacts.json` may hold at each step of an attempt (`Pointed`):
nothing of it before it is announced, its own status and the newest checkpoint while
it optimises, and, when a failure is being recorded, `running` or a verdict that a
Ctrl-C turns into a cancellation.  `PointerFollows` follows for any number of attempts,
stage lengths and faults; it is stated in `NebRun` and proved, and no run checks it.

**Analyses** (`AnalysisAssumption`).  An attempt is spent when it has no success
left to write (`Spent`), and superseded when moreover none of its successes is on
display (`Superseded`): both stay so.  What was there when an attempt began is
spent, and superseded once the attempt has set it aside (`EarlierGone`), so what a
failure outdates is superseded (`OutdatedGone`), and a success that a reader holds
was not outdated when the reader began (`ReadIsFresh`).

**Trajectories** (`TrajectoryAssumption`, which takes an odd length of the cell so
that half of it is no number).  The frames of a run lie on the grid but perhaps
the last (`FramesAdvance`), and a dataset that the manifest or the truth determines
has the steps and the convention of its frames, whatever the loader was told
(`DatasetOK`).  A view of it rises (`ViewRises`), so times that are evenly spaced
tell how many intervals lie between two frames (`EvenTimes`).  A step of less than
half a cell is the minimum image of what is written of it (`HalfACell`), and the
sum of such steps is the way of the atom (`PathIsTheWay`).  A grid that fits has no
lag beyond the last frame (`LagsBetweenFrames`).

**One calculation** (`RunAssumption`).  How far the pipeline is tells which files
are whole, and it goes on only while nothing was raised (`PipelineTrue`); the files
it has to write are those of the kind of the run, OSZICAR only when a step was
recorded; there
are at most as many events as the place allows, and `done` is one of them only
once everything is written (`EventsTrue`); nothing is written after the end
(`Bounds`).  The exit code agrees with all three, also when a second signal or the
watchdog ends the process.

**The run screen** (`ScreenAssumption`).  What the screen has stopped following has
ended, and the text says how (`Followed`); a record that has ended does not change
but by being removed.  What the screen assumes of its job is in turn proved of the
queue: `ScreenSeesTheQueue` instantiates `RunScreen` with the record of any job of
`JobQueue` and shows that each step of the queue is, of that record, an enqueueing,
a `JobMoves`, a `JobEnds`, a `JobRemoved`, or nothing.  It rests on the moves of a
record that `IInv` carries, so a launch or a recovery never skips a status that the
screen waits for.  Likewise `ScreenSeesTheEngine` (`StoreProofs`) instantiates
`RunScreen` with the status in `artifacts.json`: unless another attempt takes the
directory over, each step of `NebRun` changes it by an `EngineMoves` or not at all.

**Batches** (`BatchAssumption`).  `Pace` ties the place in the list to the number
of entries and to the exit code; each entry tells what its directory holds, whole or,
of its results, as a rewrite with the timing left them (`Computed`), and
directories are not shared (`OwnPlaces`).  That a success may go with results that
its timing tore is what the code does and what the property says: neither the
summary nor the exit code tells.  That needs the hypothesis `OwnNames`:
no flat name is the stem, or the flat name, of another file; `OwnDirectory`
(section 4) is what fails without it.

**Forms** (`FormAssumption`).  Run saves the form in stages, each of which may be
refused after earlier ones have written to the dictionary that outlives the
screen.  `StagesSave` says what the dictionary holds after each stage, whatever it
held before; after the last one, every setting that the command is built from is
that of the form, and the command has an option for exactly the keys that are shown
with a value, but for what a resumed NEB run takes from its checkpoint
(`FromCheckpoint`).

**Evidence** (`EvidenceAssumption`).  Each stage of a rendering carries what its
predecessor left (`RenderOK`); records come from files that passed the loader, so
no computation is there twice in one scope (`LoadIsSound`); and what a text says
follows from the records it was rendered from (`TextOK`) whatever suites write
afterwards.

**Task files** (`TaskFileAssumption`).  Nothing changes the tasks while they are
queued (`FileInv`), and a task that passed the checks is carried out by the
command that is built from it (`SoundTaskIsCarriedOut`), by cases on the kinds of
options and paths, with the one exception that `TaskFile_mode` shows.

**Configuration layers** (`LayersAssumption`).  What is resolved is the outcome of
what was declared, by the places' ranks (`LayersInv`, `RanksOfPlaces`); the engine
that is selected is the one that won (`EngineIsSelected`), so the scope in which
an option is judged is that of the engine that will be given it.  The order in
which layers are merged is the documented one (`DocumentedOrder`), so what wins is
a declaration of the strongest layer that has one (`CountedIsMerged`,
`SourceIsStrongest`), unless an alias fills in a task.

**Setting up MD** (`SetupAssumption`).  What was accepted of a request
(`Accepted`) survives a pre-relaxation and the loading of a model; momenta are
drawn, balanced or kept at one place (`Starts`); and when the Bussi thermostat
refuses momenta that stand still, they stood still in the structure (`CanRescale`).

**Validation campaign** (`SuiteAssumption`).  Each workflow's records are shown to
be backed by their computations once, for any computations (`IsBacked`).  The
invariant carries that a directory tells of which engine the run in it is, and the
cache of which engine and profile its forces are (`ByDirectory`), and so what a
record rests on and whose it says it is are alike in that much (`Alike`), that
what was characterised is still there when the temperatures are fitted
(`StillThere`), and that the exit code and the failures of the running script
together tell what was written (`ExitSoFar`).

**Devices** (`DeviceAssumption`).  A process that is confined to one UUID sees
that GPU or nothing, however the runtime counts (`SeesOnlyIt`).  The process of a
job is confined from its start (`WorkersConfined`), is therefore isolated and does
not start itself again (`ConfinedIsIsolated`), and whatever the framework does with
the device 0, it is on the lease or on the CPU (`PlacesOfALease`).  What a number
means is carried from where it was asked for: while no GPU failed, the list of the
machine is the whole one, the lease or the restart confines to the very GPU that
was meant, and otherwise the number is read against the list it was asked under
(`ReportInv`).  A machine that lost a GPU stays shorter, so nothing is claimed of
the number then.  For doctor, each stage that is missing is a row that fails
(`ExamInv`), a probe that computed did so where the calculation would
(`ProbeIsThere`), and a healthy verdict has no failing row.

Recursion.  The provers cannot instantiate the library's induction, so what needs
one is argued by a least element: a set of counterexamples that is not empty has a
least one (`LeastNumber`, from `WFMin` and `NatLessThanWellFounded`), and its
predecessor refutes it.  `StepwiseExists` gives in this way that a function defined
by its value before exists, which is what the recursive functions of
`TrajectoryData` need before anything can be said of them.

What the proofs changed in the models.  Overlapping guards of a CASE became an IF
in the order of the code; a `SubSeq` of a sequence that may be empty (the places
of doctor's probe) a case of its own; selections and sums over sequences, which
the provers cannot expand, a listing (`BatchRun`) or a recursive function
(`View`, `Unwrapped`).  TLC finds the same states as before.  One model was wrong
twice: in `RunScreen` only a job that had ended was removed, and the proof of
`ScreenSeesTheQueue` failed at `delete_job` (`jobs.py:909`), which also removes a
job that is pending or paused.  Its engine, too, did less than `NebRun`: an attempt
may fail before it is announced, so the status goes from none to failed or cancelled
at once, and a Ctrl-C after the last write records a verdict anew as cancelled
(`_record_failed_attempt`); `EngineMoves` now allows both.  A run of `TrajectoryData`
did less than `MDOutput`: its files now lack any number of frames until it has
completed, after a frame off the grid it may fail or be interrupted as well as
abort, and a failed close may be recorded before an interruption.
`WorkerIdentity` had left unsaid that its bound on processes is a number.

**Types, and the instances for TLC.**  `MCThreads` and `MCParts` put parts side by
side that share nothing, choose one in the initial state, and bound what it does.
`PartsAlone` and `ModulesAlone` show that this is all they do: a behaviour of the
instance is a behaviour of each part, so every theorem about a part holds of it
there, and what TLC checks is a special case of what is proved.  The types of each
part are proved of its own specification and put together from there
(`ThreadsTypesCorrect`, `PartsTypesCorrect`).  Most follow from the inductive
invariants above; four need something of their own.  The frames of a trajectory but
the last are on the grid (`TrajectoryWords`).  No more processes are started than
the bound allows, and none has a tick beyond it (`TicksBounded`).  Both lists of a
machine keep the same GPUs, each once, since a loss takes the same GPU from both
(`WithoutOne`, `LosingKeepsTheLists`); what the runtime shows a process is therefore
a GPU of the machine (`SeenAreGpus`), and so is the place of a model or a probe.  A
workflow leaves of a path or a band only whether it went well (`WorkflowMoves`).

Only model-checked: what must eventually happen (`EveryJobSettles`, `StopStops`,
`ThreadsEnd`, `RunsEnd`, `ScreenSettles`): liveness under fairness is out of the
prover's reach.  The runs that expect a violation are counterexamples, which TLC
finds and nothing is to be proved of.

## 6. Not modelled

Numerical code: potentials and their arguments, optimisers and integrators, IDPP
and the geometry of NEB preparation, spectra, structure factors, Arrhenius fits
and plots.  Its order of calls is in the models; its numbers are outcomes.
Formatting of output files.  Parsing of arguments.  The packaged capability
evidence and the table of recommended wheels (read-only tables), MIG devices, and
the installer (it generates and runs shell commands for packages).  The
acceptance campaign (`validation/acceptance/`), the bridge to releases, figures
and archives of the validation campaign, the jobs table and the analysis screen
of the terminal interface.

### Gaps that the models leave open

Things seen in the code that no property covers, with the reason:

* Files written in place: `artifacts.json` of MD (`runners/md.py:795`) may be
  truncated by a kill; the name pattern of checkpoints has six digits
  (`neb/io.py:33`); the index of analyses is advisory.
* `MDOutput` covers the writer while a run is inside its `try`.  Outside it: an
  exception between the start of the writer thread and the `try`
  (`runners/md.py:1290`), a writer that fails while the sentinel is put
  (`:1451`), a failure swallowed by the finally block (`:1544`), and a failure
  after the output was closed (`:1615`).
* A second new NEB run may enter a directory in which a first one has just
  finished: the test for an empty directory precedes the lock (`engine.py:454`,
  `:463`).  `NewRunStartsClean` of `NebRun` states it.
* `kill_job` signals after it has given the lock back (`jobs.py:871`); that the
  number is not used again in that moment is an assumption of `WorkerIdentity`.
* An exception of `run_once` ends the scheduler (`queue.py:833`); the operator
  starts another one.
* `MDSetup`: `velocity_policy=preserve` without momenta, and the Bussi
  thermostat with momenta at rest, are refused only after the model was loaded,
  the first even after a pre-relaxation.
* `ConfigForm` and `ConfigLayers` do not coerce values.
* `TrajectoryData`: an explicit frame interval overrides the declared one
  unchecked when the frames carry no times (`analysis/dataset.py:252`); a run that
  has not completed and whose table does not match its XDATCAR has no reliable
  axis, so the property promises nothing there; a second MD run in the directory
  of an earlier one leaves the earlier artifacts.json until it ends
  (`runners/md.py:795` is its only writer), so a trajectory read in between is
  taken for that of the earlier run; the diagnostic fit ignores the largest lag.
* `ScienceSuites`: image convergence always passes; any exception counts
  as the expected refusal of the Nose-Hoover chain.  These two, and the equation of
  state and relaxed-ion constants of `Suites_passes`, are what `Unchecked` names.
  The forces of phonons are found by engine and profile: a precision given on the
  command line does not tell two sets apart.  A run that failed after its last row counts as complete
  when it is found again.
* `Evidence`: a campaign manifest without a campaign name is not filtered by it;
  a blocked run and its successful repetition share a record identity; too little
  sampling does not keep a tier from being called validated.

## 7. The plan

Done: every component of section 2 is modelled, and every invariant, action
property and refinement that a passing run checks is proved.

Left, in order of importance:

1. The acceptance campaign: its steps, the stale runs of an earlier campaign, its
   records that are written at the end only.
2. The rules between options of MD and NEB in `config/`.
