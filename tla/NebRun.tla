-------------------------------- MODULE NebRun --------------------------------
(***************************************************************************)
(* One NEB run directory and the attempts made in it: the engine's         *)
(* run_neb (engine.py), the workflow that owns the directory               *)
(* (neb/workflow.py) and the runner's control of the band                  *)
(* (runners/neb.py).  Each attempt is one process; it starts a new run or  *)
(* resumes the run from its latest checkpoint, and may raise or be killed  *)
(* between any two writes.                                                 *)
(*                                                                         *)
(* A band is abstracted to "gain", the optimizer steps its interior images *)
(* contain: 0 for an interpolated band.  A checkpoint is published whole   *)
(* (CheckpointStore models how); a json file is replaced in one step.      *)
(***************************************************************************)
EXTENDS Naturals, Sequences

CONSTANTS
    Fresh,       \* attempts started with --initial and --final
    Resumes,     \* attempts started with --resume
    Policy,      \* endpoint_policy: "validate" or "relax"
    Climb,       \* climbing-image refinement
    Interval,    \* checkpoint_interval
    StageSteps,  \* max_steps of a stage
    MaxRaises,   \* bound on exceptions: i/o, model, Ctrl-C
    MaxCrashes   \* bound on killed processes

Attempts == Fresh \cup Resumes

ASSUME NebRunAssumption ==
    /\ Fresh \subseteq Nat \ {0} /\ Resumes \subseteq Nat \ {0}
    /\ Fresh \cap Resumes = {}
    /\ Policy \in {"validate", "relax"} /\ Climb \in BOOLEAN
    /\ Interval \in Nat \ {0} /\ StageSteps \in Nat
    /\ MaxRaises \in Nat /\ MaxCrashes \in Nat

VARIABLES
    owner,     \* the attempt that holds .neb-run.lock, 0 for none
    used,      \* the directory holds more than the lock file
    context,   \* run_context.json: [by, status]
    results,   \* neb_results.json: [by, status]
    arts,      \* artifacts.json: [by, status, ckpt, result]
    ckpts,     \* the published checkpoints: [by, stage, gain]
    latest,    \* the checkpoint the latest link names, 0 for none
    exported,  \* vasp_path exists
    att,       \* the local state of every attempt
    raises, crashes

files == <<context, results, arts, exported>>
store == <<ckpts, latest>>
aux   == <<raises, crashes>>
nebVars  == <<owner, used, files, store, att, aux>>

Stages   == {"prepared", "neb", "neb_pre", "ci_neb", "final"}
Verdicts == {"completed", "not_converged", "failed", "cancelled"}
NoReport == [by |-> 0, status |-> "none"]

\* An attempt with nothing in memory: not yet started, or over.
Nothing(pc) ==
    [pc |-> pc, gain |-> 0, from |-> 0, source |-> "endpoints",
     stage |-> "prepared", step |-> 0, ckpt |-> 0, verdict |-> "none"]

NebInit ==
    /\ owner = 0 /\ used = FALSE
    /\ context = NoReport /\ results = NoReport
    /\ arts = [by |-> 0, status |-> "none", ckpt |-> 0, result |-> FALSE]
    /\ ckpts = <<>> /\ latest = 0 /\ exported = FALSE
    /\ att = [a \in Attempts |-> Nothing("idle")]
    /\ raises = 0 /\ crashes = 0

At(a, pc)      == att[a].pc = pc
Goto(a, pc)    == att' = [att EXCEPT ![a].pc = pc]
Quit(a, pc)    == att' = [att EXCEPT ![a] = Nothing(pc)]
Report(a, s)   == [by |-> a, status |-> s]

-------------------------------------------------------------------------------
(* Entering the directory *)

\* _preflight_new_output: a new run wants an empty directory.  An attempt
\* refused here, or with nothing to resume, has changed nothing.
Preflight(a) ==
    /\ At(a, "idle")
    /\ IF a \in Fresh THEN ~used ELSE latest # 0
    /\ Goto(a, "checked")
    /\ UNCHANGED <<owner, used, files, store, aux>>

\* The directory lock, then run.log.
Enter(a) ==
    /\ At(a, "checked") /\ owner = 0
    /\ owner' = a /\ used' = TRUE
    /\ Goto(a, "load")
    /\ UNCHANGED <<files, store, aux>>

\* "Another NEB attempt is already writing".
Refused(a) ==
    /\ At(a, "checked") /\ owner # 0
    /\ Quit(a, "over")
    /\ UNCHANGED <<owner, used, files, store, aux>>

\* Faulty variant of SourceOf: every checkpoint counts as a prepared band.
SourceAlwaysPrepared(stage) == "checkpoint_prepared"

\* How _resume_band classifies a checkpoint.
SourceOf(stage) ==
    IF stage = "prepared" THEN "checkpoint_prepared"
    ELSE "checkpoint_optimized_band"

\* Faulty variant of LoadCheckpoint: the first checkpoint is loaded.
LoadFirst(a) ==
    /\ a \in Resumes /\ At(a, "load") /\ latest # 0
    /\ att' = [att EXCEPT ![a] =
                 [@ EXCEPT !.pc = "context", !.gain = ckpts[1].gain,
                           !.from = 1, !.source = SourceOf(ckpts[1].stage)]]
    /\ UNCHANGED <<owner, used, files, store, aux>>

LoadEndpoints(a) ==
    /\ a \in Fresh /\ At(a, "load")
    /\ Goto(a, "context")
    /\ UNCHANGED <<owner, used, files, store, aux>>

LoadCheckpoint(a) ==
    /\ a \in Resumes /\ At(a, "load") /\ latest # 0
    /\ att' = [att EXCEPT ![a] =
                 [@ EXCEPT !.pc = "context", !.gain = ckpts[latest].gain,
                           !.from = latest,
                           !.source = SourceOf(ckpts[latest].stage)]]
    /\ UNCHANGED <<owner, used, files, store, aux>>

-------------------------------------------------------------------------------
(* Announcing the attempt *)

WriteContext(a) ==
    /\ At(a, "context")
    /\ context' = Report(a, "running")
    /\ Goto(a, "config")
    /\ UNCHANGED <<owner, used, results, arts, exported, store, aux>>

WriteConfig(a) ==
    /\ At(a, "config")
    /\ Goto(a, "prepare")
    /\ UNCHANGED <<owner, used, files, store, aux>>

\* store.write: a new immutable checkpoint that becomes the latest one.
Publish(a, stage, pc) ==
    /\ ckpts' = Append(ckpts, [by |-> a, stage |-> stage, gain |-> att[a].gain])
    /\ latest' = Len(ckpts) + 1
    /\ att' = [att EXCEPT ![a].ckpt = Len(ckpts) + 1, ![a].pc = pc]
    /\ UNCHANGED <<owner, used, files, aux>>

\* Whether the attempt is new or resumed, its band is stored as "prepared".
StorePrepared(a) == At(a, "prepare") /\ Publish(a, "prepared", "announce")

\* Faulty variant of PointArtifacts: what the directory holds stays listed.
PointKeepsResult(a, pc) ==
    /\ arts' = [by |-> a, status |-> "running", ckpt |-> att[a].ckpt,
                result |-> arts.result]
    /\ Goto(a, pc)
    /\ UNCHANGED <<owner, used, context, results, exported, store, aux>>

PointArtifacts(a, pc) ==
    /\ arts' = [by |-> a, status |-> "running", ckpt |-> att[a].ckpt,
                result |-> FALSE]
    /\ Goto(a, pc)
    /\ UNCHANGED <<owner, used, context, results, exported, store, aux>>

Announce(a) == At(a, "announce") /\ PointArtifacts(a, "construct")

\* The runner is built between the two try blocks.
Construct(a) ==
    /\ At(a, "construct")
    /\ Goto(a, "begin")
    /\ UNCHANGED <<owner, used, files, store, aux>>

-------------------------------------------------------------------------------
(* The runner *)

FirstStage == IF Climb THEN "neb_pre" ELSE "neb"

\* Endpoints are validated, or relaxed and the band interpolated anew, unless
\* the band is the optimised one of a checkpoint.
Begin(a) ==
    /\ At(a, "begin")
    /\ att' = [att EXCEPT ![a] =
                 [@ EXCEPT !.pc = "yield", !.stage = FirstStage, !.step = 0,
                           !.gain = IF /\ Policy = "relax"
                                       /\ att[a].source # "checkpoint_optimized_band"
                                    THEN 0 ELSE att[a].gain]]
    /\ UNCHANGED <<owner, used, files, store, aux>>

\* checkpoint_callback at an accepted optimizer state.
Due(a) == att[a].step % Interval = 0

Skip(a) ==
    /\ At(a, "yield") /\ ~Due(a)
    /\ Goto(a, "step")
    /\ UNCHANGED <<owner, used, files, store, aux>>

Checkpoint(a) ==
    At(a, "yield") /\ Due(a) /\ Publish(a, att[a].stage, "point")

Point(a) == At(a, "point") /\ PointArtifacts(a, "step")

Advance(a) ==
    /\ At(a, "step") /\ att[a].step < StageSteps
    /\ att' = [att EXCEPT ![a] =
                 [@ EXCEPT !.pc = "yield", !.step = att[a].step + 1,
                           !.gain = att[a].gain + 1]]
    /\ UNCHANGED <<owner, used, files, store, aux>>

\* A stage ends converged, or because its steps are used up.
StageEnds(a, converged) ==
    /\ At(a, "step")
    /\ converged \/ att[a].step = StageSteps
    /\ att' = [att EXCEPT ![a] =
                 IF converged /\ att[a].stage = "neb_pre"
                 THEN [@ EXCEPT !.pc = "yield", !.stage = "ci_neb", !.step = 0]
                 ELSE [@ EXCEPT !.pc = "final",
                                !.verdict = IF converged THEN "completed"
                                            ELSE "not_converged"]]
    /\ UNCHANGED <<owner, used, files, store, aux>>

-------------------------------------------------------------------------------
(* Publishing the outcome *)

StoreFinal(a) == At(a, "final") /\ Publish(a, "final", "export")

\* A resumed attempt exports under a name of its own; a new one raises when
\* vasp_path is there.
Export(a) ==
    /\ At(a, "export")
    /\ IF a \in Fresh /\ exported
       THEN att' = [att EXCEPT ![a].pc = "failResults", ![a].verdict = "failed"]
       ELSE Goto(a, "results")
    /\ exported' = (exported \/ a \in Fresh)
    /\ UNCHANGED <<owner, used, context, results, arts, store, aux>>

\* results, context and artifacts, in this order, after success ("results",
\* "record", "artifacts") and after a failure (the same names with "fail").
WriteResults(a) ==
    /\ att[a].pc \in {"results", "failResults"}
    /\ results' = Report(a, att[a].verdict)
    /\ Goto(a, IF At(a, "results") THEN "record" ELSE "failRecord")
    /\ UNCHANGED <<owner, used, context, arts, exported, store, aux>>

WriteOutcome(a) ==
    /\ att[a].pc \in {"record", "failRecord"}
    /\ context' = Report(a, att[a].verdict)
    /\ Goto(a, IF At(a, "record") THEN "artifacts" ELSE "failArtifacts")
    /\ UNCHANGED <<owner, used, results, arts, exported, store, aux>>

WriteArtifacts(a) ==
    /\ att[a].pc \in {"artifacts", "failArtifacts"}
    /\ arts' = [by |-> a, status |-> att[a].verdict, ckpt |-> att[a].ckpt,
                result |-> TRUE]
    /\ Goto(a, IF At(a, "artifacts") THEN "return" ELSE "leave")
    /\ UNCHANGED <<owner, used, context, results, exported, store, aux>>

Leave(a) ==
    /\ att[a].pc \in {"return", "leave"}
    /\ owner' = 0
    /\ Quit(a, "over")
    /\ UNCHANGED <<used, files, store, aux>>

-------------------------------------------------------------------------------
(* Exceptions and death *)

\* Where an exception is turned into a recorded failure: the two try blocks.
Guarded == {"prepare", "announce", "begin", "yield", "point", "step", "final",
            "export", "results", "record", "artifacts", "return"}
Unguarded == {"load", "context", "config", "construct",
              "failResults", "failRecord", "failArtifacts"}

\* i/o and model errors fail the attempt, Ctrl-C cancels it; after the last
\* write only Ctrl-C is left.
Raise(a, verdict) ==
    /\ raises < MaxRaises /\ raises' = raises + 1
    /\ att[a].pc \in Guarded \cup Unguarded
    /\ At(a, "return") => verdict = "cancelled"
    /\ att' = [att EXCEPT ![a] =
                 IF @.pc \in Guarded
                 THEN [@ EXCEPT !.pc = "failResults", !.verdict = verdict]
                 ELSE [@ EXCEPT !.pc = "leave"]]
    /\ UNCHANGED <<owner, used, files, store, crashes>>

\* SIGTERM has no handler in cmd_neb, so a cancelled job dies like a killed one.
Crash(a) ==
    /\ crashes < MaxCrashes /\ crashes' = crashes + 1
    /\ att[a].pc \notin {"idle", "over", "dead"}
    /\ Quit(a, "dead")
    /\ owner' = IF owner = a THEN 0 ELSE owner
    /\ UNCHANGED <<used, files, store, raises>>

Entering(a)   == Preflight(a) \/ Enter(a) \/ Refused(a)
                 \/ LoadEndpoints(a) \/ LoadCheckpoint(a)
Announcing(a) == WriteContext(a) \/ WriteConfig(a) \/ StorePrepared(a)
                 \/ Announce(a) \/ Construct(a)
Optimising(a) == Begin(a) \/ Skip(a) \/ Checkpoint(a) \/ Point(a) \/ Advance(a)
                 \/ (\E c \in BOOLEAN : StageEnds(a, c))
Publishing(a) == StoreFinal(a) \/ Export(a) \/ WriteResults(a)
                 \/ WriteOutcome(a) \/ WriteArtifacts(a) \/ Leave(a)
Faults(a)     == Crash(a) \/ \E v \in {"failed", "cancelled"} : Raise(a, v)

NebNext == \E a \in Attempts :
            Entering(a) \/ Announcing(a) \/ Optimising(a)
            \/ Publishing(a) \/ Faults(a)

NebSpec == NebInit /\ [][NebNext]_nebVars

-------------------------------------------------------------------------------
(* Properties *)

Inside   == Guarded \cup Unguarded \cup {"leave"}
InRunner == {"yield", "point", "step", "final"}
Alive(a) == att[a].pc # "dead"

\* Type invariant; the lock is held by an attempt that is inside.
NebTypeOK ==
    /\ owner \in {0} \cup {a \in Attempts : att[a].pc \in Inside}
    /\ \A a \in Attempts : att[a].pc \in Inside => owner = a
    /\ used \in BOOLEAN /\ exported \in BOOLEAN
    /\ \A r \in {context, results} :
          /\ r.by \in {0} \cup Attempts
          /\ r.status \in Verdicts \cup {"none", "running"}
    /\ arts.by \in {0} \cup Attempts /\ arts.result \in BOOLEAN
    /\ arts.ckpt \in 0..Len(ckpts) /\ latest \in 0..Len(ckpts)
    /\ \A k \in 1..Len(ckpts) :
          ckpts[k].by \in Attempts /\ ckpts[k].stage \in Stages
    /\ raises \in 0..MaxRaises /\ crashes \in 0..MaxCrashes

\* A band resumed from an optimised checkpoint enters the optimizer with every
\* step that checkpoint held.
OptimisedBandKept ==
    \A a \in Resumes :
        (att[a].pc \in InRunner /\ ckpts[att[a].from].stage # "prepared") =>
            att[a].gain >= ckpts[att[a].from].gain

\* However often a run is interrupted, killed and resumed, what it computed is
\* kept: a resumed band enters the optimizer with all of it, and a checkpoint
\* that becomes the latest one holds at least the optimizer steps of the one it
\* replaces (one new run; with relaxed endpoints a band stored as prepared may
\* be interpolated anew).
ProgressIsKept ==
    [][/\ OptimisedBandKept'
       /\ (/\ latest' # latest /\ latest # 0
           /\ Policy = "relax" => ckpts[latest].stage # "prepared")
            => ckpts'[latest'].gain >= ckpts[latest].gain]_nebVars

\* While the band is optimised, artifacts.json names the running attempt and
\* the newest checkpoint, except between the two writes that move them.
PointerFollows ==
    \A a \in Attempts :
        att[a].pc \in {"construct", "begin", "yield", "step"} =>
            /\ arts.by = a /\ arts.status = "running"
            /\ arts.ckpt = latest

\* A result file that reports a success is never read through the artifacts
\* of another attempt or under another status.
NoFalseSuccess ==
    (arts.result /\ results.status \in {"completed", "not_converged"}) =>
        results.by = arts.by /\ results.status = arts.status

\* runners/neb.py: "Geometry resume must preserve the saved interior path."
\* No resumed attempt optimises a band with less progress than it loaded.
ResumeKeepsPath ==
    \A a \in Resumes :
        att[a].pc \in InRunner => att[a].gain >= ckpts[att[a].from].gain

\* tests/mliport/mliport/neb/test_neb_workflow.py: "Ctrl-C must not leave
\* artifacts/context at status 'running'".  Nobody is in the directory and
\* nobody was killed: no report says running.  The code contradicts it before its
\* first try block; TLC refutes it, and no run asks it.
NoAttemptLeftRunning ==
    (owner = 0 /\ \A a \in Attempts : Alive(a)) =>
        context.status # "running" /\ arts.status # "running"

\* _preflight_new_output: "NEB output directory is not empty ... Choose a new
\* run directory."  A new run never writes over the records of another one.
NewRunStartsClean ==
    \A a \in Fresh :
        att[a].pc \in Inside \ {"load", "context"} =>
            \A k \in 1..Len(ckpts) : ckpts[k].by = a
===============================================================================
