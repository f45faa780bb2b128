-------------------------------- MODULE MCParts --------------------------------
(***************************************************************************)
(* The instance on which TLC checks the parts of the program that run on   *)
(* their own and promise nothing about time.  They share no state, so each *)
(* behaviour exercises one of them, chosen in the initial state, and the   *)
(* others stay as they are.                                                *)
(***************************************************************************)
EXTENDS NebRun, CheckpointStore, AnalysisStore, ConfigLayers, TaskFile, Evidence,
        TrajectoryData, MCSuites, MDSetup, WorkerIdentity, Doctor

CONSTANTS a1, a2, a3

VARIABLE part   \* the part that moves

-------------------------------------------------------------------------------
(* Instances *)

\* Three attempts and one fault, or two attempts and two faults.
NebBound == Cardinality({a \in Attempts : ~At(a, "idle")}) + raises + crashes <= 4

\* Three faults of an exception, a killed writer and a loss of power or two, and
\* three writes; or four writes and two faults.
CheckpointBound == fails + kills + losses <= 3 /\ writes + fails + kills + losses <= 6

\* The analysts are alike: a1 begins first, a3 last.  Three requests are made,
\* or two and an abend or a growing trajectory; two of them go on at a time.
AnalysisBound ==
    /\ AtStep(a1, "new") => AtStep(a2, "new")
    /\ AtStep(a2, "new") => AtStep(a3, "new")
    /\ Cardinality({a \in Analyst : ~AtStep(a, "new")}) + abends + source <= 3
    /\ ~AtStep(a3, "new") => apc[a1] \in Over \/ apc[a2] \in Over

\* The order of declarations does not matter: engines first, then by place.  A
\* refusal ends the command; it is followed up to two declarations.
LayersBound ==
    /\ resolved' = ConfigError => Cardinality(declared) <= 2
    /\ \A d \in declared' \ declared, e \in declared :
          e[2] # "engine" => d[2] # "engine" /\ Rank[e[1]] <= Rank[d[1]]

\* A computation of inference and one of transport.
EvidenceTier == [c \in {"inference", "transport"} |-> IF c = "inference" THEN "t1" ELSE "t7"]

\* Suites rest while the documents are written and afterwards.  Inference may
\* fail in the new campaign; transport may run there at the earlier commit.
EvidenceBound ==
    /\ (render.step \in Texts \/ papers["summary"] # Unpublished) =>
            UNCHANGED <<evidence, manifest, hosted>>
    /\ \A f \in evidence' :
          /\ f.record.status = "fail" => f.record.of = "inference" /\ f.record.campaign = "new"
          /\ f.record.campaign = "new" /\ f.record.commit = "before" => f.record.of = "transport"

\* Both atoms drift along, the mobile one stands still, hops, or hops too far.
AtomMoves == {<<2, 0>>, <<2, -2>>, <<3, 0>>, <<5, 0>>}

\* The native lags, a coarser grid, and one that no frames have.
LagGrids == {[fit |-> 2, step |-> 0, stop |-> 0], [fit |-> 2, step |-> 4, stop |-> 6],
             [fit |-> 2, step |-> 3, stop |-> 6]}

\* One frame moves unlike the others.  Components are asked of even trajectories.
TrajectoryBound ==
    LET uneven == {i \in 2..Len(saved) :
                     <<saved[i].mobile - saved[i - 1].mobile,
                       saved[i].framework - saved[i - 1].framework>> # <<2, 0>>}
    IN  /\ Cardinality(uneven) <= 1
        /\ "exact" \in DOMAIN answer /\ (answer.exact \/ answer.parts # {}) =>
               uneven = {} /\ answer.drift = "none"

\* What is asked of the tier scripts: each workflow, the default list of the
\* paths, the saddle before and after its band, and the three steps of the
\* transport suite in processes of their own.
Listed(list) == [i \in 1..Len(list) |-> <<list[i], 0>>]
SuiteRequests ==
    {<<"t1", Listed(<<"inference">>)>>, <<"t2", Listed(<<"invariance">>)>>,
     <<"t2fd", Listed(<<"derivatives">>)>>, <<"t3", Listed(<<"references">>)>>,
     <<"t4", Listed(<<"singlepoint", "relax", "singlepoint">>)>>,
     <<"t4", Listed(<<"cellrelax", "eos", "elastic">>)>>,
     <<"t4", Listed(<<"phonon">>)>>, <<"t4", Listed(<<"vacancy", "surface", "energetics">>)>>,
     <<"t5", Listed(<<"endpoints", "path_init", "neb_warmup", "ci_neb5", "ci_neb7",
                     "resume_identity", "saddle_hessian", "na3ps4_hop">>)>>,
     <<"t5", Listed(<<"saddle_hessian", "ci_neb5", "ci_neb5", "saddle_hessian">>)>>,
     <<"t6", Listed(<<"nve", "langevin", "bussi">>)>>,
     <<"t6", Listed(<<"nhc", "constraints", "force_safety">>)>>,
     <<"t7", AnalysisList({"md"}, <<1, 2, 3>>)>>,
     <<"t7", AnalysisList({"md", "transport"}, <<1>>)>>,
     <<"t7", AnalysisList({"transport", "gemdat"}, <<1, 2, 3>>)>>,
     <<"t8", Listed(<<"timings">>)>>}

\* One trajectory is spoilt; the isolated engine runs one, well.  A tier other than
\* transport is the first of its call; transport follows what passed.  Of the
\* calculators of MACE all compute phonons, one more transport, and one the rest.
SuitesBound ==
    /\ Cardinality({d \in DOMAIN trajectories' : trajectories'[d].rows # "good"}) <= 1
    /\ \A d \in DOMAIN trajectories' :
          trajectories'[d].of.engine = Isolated => d[2] = 1 /\ trajectories'[d].rows = "good"
    /\ suite = NoSuite /\ suite'.tier \notin {"none", "t7"} =>
          /\ trajectories = <<>> /\ written = {} /\ ~call.incident
          /\ suite'.tier = "t1" <=> call.by.engine = Isolated
          /\ forces # <<>> \/ call.by \in {Single, Overridden} => suite'.todo = Listed(<<"phonon">>)
    /\ suite = NoSuite /\ suite'.tier = "t7" =>
          /\ written \subseteq {"pass"} \/ trajectories = <<>>
          /\ forces = <<>> /\ call.by # Overridden

\* Two atoms that stand still, drift along, or part; or one of them moves.
Motion(list) == [h \in {1, 2} \X {"x", "y"} |-> IF h \in DOMAIN list THEN list[h] ELSE 0]
PairMomenta == {Motion(<<>>), Motion(<<1, "x">> :> 1), Motion(<<2, "y">> :> 1),
                Motion(<<1, "x">> :> 1 @@ <<2, "x">> :> 1), Motion(<<1, "x">> :> 1 @@ <<2, "x">> :> -1)}

FixAtoms(set) == [kind |-> "fixatoms", held |-> set \X {"x", "y"}]
PairRestraints == {<<>>, <<FixCom>>, <<FixAtoms({1})>>, <<FixAtoms({1, 2})>>, <<FixCom, FixCom>>,
                   <<FixAtoms({1}), FixCom>>, <<[kind |-> "fixcartesian", held |-> {<<1, "x">>}]>>,
                   <<[kind |-> "other", held |-> {}]>>}

\* Unusable settings and unsound structures come one at a time and with
\* nothing else of note; a molecule comes for one thermostat.
SetupBound ==
    LET wish == setup'.wish  a == setup'.atoms IN
    /\ setup.step = "new" =>
         /\ (~Usable(wish) \/ wish.task = "other") =>
               wish.velocities = "auto" /\ wish.com = "none" /\ ~wish.relax
         /\ wish.coupling = 0 => wish.temperature = 1 /\ wish.plain
         /\ wish.task # "bulk" => wish.integrator = "langevin"
    /\ setup.step = "made" =>
         ((a.of \in {{}, {2}} \/ ~FitsTask(wish.task, a) \/ ~a.sound) =>
             a.cell = "full" /\ ~a.moving /\ a.constraints \in {<<>>, <<FixCom>>})

\* Two GPUs.  The list is unset, empty, ambiguous, or has one or two of them, by
\* number or by UUID.
TwoGpus == <<"g1", "g2">>
VisibilityLists ==
    {UnsetList, NoGpu, OnlyGpu("g2"), [set |-> TRUE, list |-> <<<<"uuid", {"g1", "g2"}>>>>],
     [set |-> TRUE, list |-> <<<<"index", 1>>>>], [set |-> TRUE, list |-> <<<<"index", 1>>, <<"index", 0>>>>]}

\* A process with settings of a parallel launcher is one of DPA.  NEB, a GPU that
\* fails and a scheduler that was started from a job do not come together.
DevicesBound ==
    /\ wanted.step = "new" =>
         /\ wanted'.kind \in {"torch", "grace"} => shell'.env.plain
         /\ wanted'.neb => shell'.env.lease = NoDevice
    /\ wanted'.neb => Len(machine'.smi) = Len(Gpus)

\* An unsound installation is examined without a model, as is an engine that is
\* not installed; a structure is given to one engine.
DoctorBound ==
    LET ask == exam'.ask IN
    exam.step = "new" =>
         /\ ~ask.sound \/ ~ask.installed => ask.model = "none" /\ ask.structure = "none" /\ ~ask.task
         /\ ask.model \in {"absent", "wrong"} => ask.engine = "torch" /\ ask.task
         /\ ask.structure # "none" => ask.task /\ ask.engine \in {"auto", "dpa"}

-------------------------------------------------------------------------------
PartNames == {"neb", "checkpoints", "analyses", "layers", "tasks", "evidence",
              "trajectories", "suites", "setups", "workers", "devices", "doctor"}

PartsInit ==
    /\ NebInit /\ CheckpointInit /\ StoreInit /\ LayersInit
    /\ TaskFileInit /\ EvidenceInit /\ TrajectoryInit /\ SuitesInit
    /\ SetupInit /\ IdentityInit /\ DeviceInit /\ DoctorInit
    /\ part \in PartNames
    /\ part # "layers" => calculation = "opt"
    /\ part # "trajectories" => origin.kind = "band"
    /\ part \notin {"devices", "doctor"} => machine.cuda = machine.smi

PartsVars == <<part, nebVars, checkpointVars, storeVars, layerVars,
              taskVars, evidenceVars, trajectoryVars, suiteVars, setupVars, identityVars,
              deviceVars, doctorVars>>

Others ==
    /\ UNCHANGED part
    /\ part # "neb" => UNCHANGED nebVars
    /\ part # "checkpoints" => UNCHANGED checkpointVars
    /\ part # "analyses" => UNCHANGED storeVars
    /\ part # "layers" => UNCHANGED layerVars
    /\ part # "tasks" => UNCHANGED taskVars
    /\ part # "evidence" => UNCHANGED evidenceVars
    /\ part # "trajectories" => UNCHANGED trajectoryVars
    /\ part # "suites" => UNCHANGED suiteVars
    /\ part # "setups" => UNCHANGED setupVars
    /\ part # "workers" => UNCHANGED identityVars
    /\ part \notin {"devices", "doctor"} => UNCHANGED deviceVars
    /\ part # "doctor" => UNCHANGED doctorVars

PartsNext ==
    \/ part = "neb" /\ NebNext /\ NebBound' /\ Others
    \/ part = "checkpoints" /\ CheckpointNext /\ CheckpointBound' /\ Others
    \/ part = "analyses" /\ StoreNext /\ AnalysisBound' /\ Others
    \/ part = "layers" /\ LayersNext /\ LayersBound /\ Others
    \/ part = "tasks" /\ TaskFileNext /\ Others
    \/ part = "evidence" /\ EvidenceNext /\ EvidenceBound /\ Others
    \/ part = "trajectories" /\ TrajectoryNext /\ TrajectoryBound' /\ Others
    \/ part = "suites" /\ SuitesNext /\ SuitesBound /\ Others
    \/ part = "setups" /\ SetupNext /\ SetupBound /\ Others
    \/ part = "workers" /\ IdentityNext /\ Others
    \/ part = "devices" /\ DeviceNext /\ DevicesBound /\ Others
    \/ part = "doctor" /\ DoctorNext /\ DoctorBound /\ Others

PartsSpec == PartsInit /\ [][PartsNext]_PartsVars

\* The type invariants of the parts.
PartsTypeOK ==
    CASE part = "neb" -> NebTypeOK
      [] part = "checkpoints" -> CheckpointTypeOK
      [] part = "analyses" -> StoreTypeOK
      [] part = "tasks" -> TaskFileTypeOK
      [] part = "evidence" -> EvidenceTypeOK
      [] part = "trajectories" -> TrajectoryTypeOK
      [] part = "suites" -> SuitesTypeOK
      [] part = "setups" -> SetupTypeOK
      [] part = "workers" -> IdentityTypeOK
      [] part = "devices" -> DeviceTypeOK
      [] part = "doctor" -> DeviceTypeOK /\ DoctorTypeOK
      [] OTHER -> TRUE
=============================================================================
