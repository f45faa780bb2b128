----------------------------- MODULE ScienceSuites -----------------------------
(***************************************************************************)
(* The validation campaign's runner and its tier scripts                   *)
(* (validation/science/scripts/run_suite.py and the suites it starts).     *)
(*                                                                         *)
(* The orchestrator starts one process for each tier.  A tier script loads *)
(* one calculator, works through its list of workflows, writes the records *)
(* of each, and ends with an exit code.  Three things outlive a workflow:  *)
(* the endpoints and the reference band that the path workflows keep in    *)
(* memory until their process ends; and, on disk, where later processes    *)
(* see them again, the trajectories of the transport workflows and the     *)
(* forces that the phonon workflow has computed.                           *)
(*                                                                         *)
(* A calculator is an engine, the profile of the manifest it is loaded     *)
(* with and its precision, which the call may set against the profile.     *)
(* Calls with different tags share no trajectories: one tag stands for     *)
(* all.                                                                    *)
(*                                                                         *)
(* Workflows of a tier are pairs of a name and a temperature, 0 where      *)
(* there is none.  Each loops over structures that share nothing: one of   *)
(* them stands for all.                                                    *)
(***************************************************************************)
EXTENDS SuiteVerdicts, SequencesExt

CONSTANTS Calculator,   \* the calculators: engine, profile and precision
          Isolated,     \* the engine that needs a single visible GPU
          Requests      \* pairs of a tier and the workflows asked of it

ASSUME SuiteAssumption ==
    Calculator \subseteq [engine : STRING, profile : STRING, dtype : STRING]

VARIABLES call,     \* the orchestrator's call
          suite,        \* the process of the tier script
          trajectories, \* MD run directories
          forces,       \* the cache of force sets, by engine and profile
          report,       \* the records written last
          written       \* the statuses written in this call

onDisk == <<trajectories, forces>>
suiteVars == <<call, suite, onDisk, report, written>>

NoCalculator == [engine |-> "none", profile |-> "none", dtype |-> "none"]
NoSuite == [tier |-> "none", by |-> NoCalculator, todo |-> <<>>, failed |-> FALSE,
            endpoints |-> "none", band |-> "none", sampled |-> {}]

SuitesInit ==
    /\ call = [state |-> "idle", by |-> NoCalculator, exit |-> 0, incident |-> FALSE]
    /\ suite = NoSuite
    /\ trajectories = <<>> /\ forces = <<>>
    /\ report = {} /\ written = {}

\* Where the MD run of a calculator is, also that of another profile of its
\* engine.  (Mutation: at its temperature alone.)
DirOfTemperature(by, temperature) == <<"run", temperature>>
DirOf(by, temperature) == <<by.engine, temperature>>

-------------------------------------------------------------------------------
(* The orchestrator *)

\* A record names one calculator, `by`; what computed its numbers, `of`, is not
\* written in it.  Records are versioned: none is ever replaced.
Write(claims, by, of) ==
    /\ report' = {[test |-> c.test, status |-> c.status, rests |-> c.rests,
                   by |-> by, of |-> of] : c \in claims}
    /\ written' = written \cup {c.status : c \in claims}

StartCampaign(calculator) ==
    /\ call.state \in {"idle", "done"}
    /\ call' = [state |-> "open", by |-> calculator, exit |-> 0, incident |-> FALSE]
    /\ report' = {} /\ written' = {}
    /\ UNCHANGED <<suite, onDisk>>

\* No environment of this backend, or no GPU that could be isolated.
Block ==
    /\ call.state = "open" /\ suite = NoSuite /\ written = {} /\ ~call.incident
    /\ \E reason \in {"no venv", "no gpu"} : reason = "no gpu" => call.by.engine = Isolated
    /\ Write({Concludes("engine_provisioning", "blocked", {})}, call.by, {})
    /\ call' = [call EXCEPT !.state = "done", !.exit = 2]
    /\ UNCHANGED <<suite, onDisk>>

UnknownTier ==
    /\ call.state = "open" /\ suite = NoSuite
    /\ call' = [call EXCEPT !.exit = 1, !.incident = TRUE]
    /\ UNCHANGED <<suite, onDisk, report, written>>

EndCampaign ==
    /\ call.state = "open" /\ suite = NoSuite
    /\ call' = [call EXCEPT !.state = "done"]
    /\ UNCHANGED <<suite, onDisk, report, written>>

-------------------------------------------------------------------------------
(* A tier script *)

\* The static suite does a workflow once; the others as often as it is named.
Ordered(tier, list) ==
    IF tier = "t4"
    THEN FoldLeft(LAMBDA seen, w : IF w \in ToSet(seen) THEN seen ELSE Append(seen, w), <<>>, list)
    ELSE list

\* What the transport suite does with its cases and temperatures.
AnalysisList(cases, temperatures) ==
    LET Each(case) == IF case \in cases
                    THEN [i \in 1..Len(temperatures) |-> <<case, temperatures[i]>>] ELSE <<>>
    IN  Each("md") \o Each("transport")
        \o (IF "transport" \in cases THEN <<<<"arrhenius", 0>>>> ELSE <<>>) \o Each("gemdat")

\* Analysis of finished runs loads no model.
LoadsModel(request) ==
    request[1] = "t7" => \E i \in DOMAIN request[2] : request[2][i][1] = "md"

BeginSuite(request) ==
    /\ call.state = "open" /\ suite = NoSuite
    /\ suite' = [NoSuite EXCEPT !.tier = request[1], !.by = call.by,
                                !.todo = Ordered(request[1], request[2])]
    /\ UNCHANGED <<call, onDisk, report, written>>

\* The process ends: its memory is gone, a code that is not zero stays.
Leaves(code, incident) ==
    /\ suite' = NoSuite
    /\ call' = [call EXCEPT !.exit = IF code = 0 THEN @ ELSE code,
                                    !.incident = @ \/ incident]

\* The backend cannot be loaded; the reference suite does not catch it.
SetupFails(request) ==
    /\ call.state = "open" /\ suite = NoSuite /\ LoadsModel(request)
    /\ Leaves(1, request[1] = "t3")
    /\ IF request[1] = "t3" THEN UNCHANGED <<report, written>>
       ELSE Write({Concludes("setup", "fail", {})}, call.by, {})
    /\ UNCHANGED onDisk

Working(name) == suite.todo # <<>> /\ Head(suite.todo)[1] = name

\* The workflow ends with these records; it may leave the disk as it is.
Finishes(claims, of) ==
    /\ Write(claims, suite.by, of)
    /\ suite' = [suite EXCEPT !.todo = Tail(@),
                              !.failed = @ \/ \E c \in claims : c.status = "fail"]
    /\ UNCHANGED call

Done(claims, of) == Finishes(claims, of) /\ UNCHANGED onDisk

WriteAll(claims) == Done(claims, {suite.by})

\* An exception outside every handler of the script, or a signal.
Dies == Leaves(1, TRUE) /\ UNCHANGED <<onDisk, report, written>>

Killed == suite # NoSuite /\ Dies

EndSuite ==
    /\ suite # NoSuite /\ suite.todo = <<>>
    /\ Leaves(IF suite.failed THEN 1 ELSE 0, FALSE)
    /\ UNCHANGED <<onDisk, report, written>>

-------------------------------------------------------------------------------
(* T1 - T3, T8 *)

RunInference == \E energy \in Outcome \ {"loose"} :
    Working("inference") /\ WriteAll(InferenceClaims(energy))

RunInvariance == \E i \in 1..Len(InvarianceChecks), how \in {"good", "bad", "raises"} :
    /\ Working("invariance")
    /\ i = 1 => how # "bad"
    /\ WriteAll(InvarianceClaims(i, how))

Sweeps == {Region(sweep, alike) : sweep \in [1..3 -> Quality], alike \in BOOLEAN}

RunDerivatives ==
    /\ Working("derivatives")
    /\ \E force \in Sweeps \cup {"raises"}, stress \in Sweeps \cup {"unsupported", "raises"} :
          WriteAll(DerivativeClaims(force, stress))

\* The statistics of no structure at all raise before anything is written.
RunReferences ==
    /\ Working("references")
    /\ \/ \E computed \in {"all", "some"} : WriteAll(ReferenceClaims(computed))
       \/ Dies

RunTimings ==
    /\ Working("timings")
    /\ \E small, large, md \in {"good", "bad", "raises", "out of memory"}, inverted \in BOOLEAN :
          WriteAll(TimingClaims(small, large, md, inverted))

-------------------------------------------------------------------------------
(* T4 *)

RunSinglePoint == \E p \in Outcome \ {"loose"} :
    Working("singlepoint") /\ WriteAll(SinglePointClaims(p))

\* The first energy is not caught.
RunRelax ==
    /\ Working("relax")
    /\ \/ \E fire, lbfgs \in Outcome \ {"bad"}, agree \in BOOLEAN :
             WriteAll(RelaxClaims(fire, lbfgs, agree))
       \/ Dies

RunCellRelax ==
    /\ Working("cellrelax")
    /\ \E cell \in Outcome \ {"bad"}, stress \in {"good", "loose"} :
          WriteAll(CellRelaxClaims(cell, stress))

RunEos ==
    /\ Working("eos")
    /\ \E cell, fits \in Outcome \ {"bad"} : WriteAll(EosClaims(cell, fits))

RunElastic ==
    /\ Working("elastic")
    /\ \E ions, fits \in Outcome \ {"bad"}, stable \in BOOLEAN :
          WriteAll(ElasticClaims("elastic_clamped", "good", fits, stable)
                 \cup ElasticClaims("elastic_relaxed", ions, fits, stable))

\* The forces on disk of this engine and profile: which calculators computed
\* them, and what the modes are once all displacements are there.
ForceSet == <<suite.by.engine, suite.by.profile>>
Cached == IF ForceSet \in DOMAIN forces THEN forces[ForceSet]
          ELSE [of |-> {}, modes |-> "partial"]

\* What the process can make of them: it computes displacements that are missing,
\* some of them or all, and leaves a whole set as it is.
Grown == {Cached} \cup
         IF Cached.modes # "partial" THEN {}
         ELSE {[of |-> Cached.of \cup {suite.by}, modes |-> m] : m \in Quality \cup {"partial"}}

Keep(set) == forces' = [k \in DOMAIN forces \cup {ForceSet} |->
                           IF k = ForceSet THEN set ELSE forces[k]]

\* It may raise while it computes, and also when it reads the whole set.
RunPhonon ==
    /\ Working("phonon")
    /\ \E set \in Grown :
          /\ Keep(set)
          /\ \/ set.modes # "partial" /\ \E grid \in {"good", "bad", "raises"} :
                   Finishes(PhononClaims(set.modes, grid), set.of)
             \/ Finishes(Raised("phonon"), set.of)
    /\ UNCHANGED trajectories

KilledInPhonon ==
    /\ Working("phonon") /\ \E set \in Grown : Keep(set)
    /\ Leaves(1, TRUE)
    /\ UNCHANGED <<trajectories, report, written>>

RunVacancy == \E defect \in Outcome \ {"bad"} :
    Working("vacancy") /\ WriteAll(VacancyClaims(defect))

\* The energy of the bulk is not caught.
RunSurface ==
    /\ Working("surface")
    /\ (\E slab \in Outcome \ {"bad"} : WriteAll(SurfaceClaims(slab))) \/ Dies

RunEnergetics == Working("energetics") /\ WriteAll(EnergeticsClaims)

-------------------------------------------------------------------------------
(* T5 *)

\* The endpoints are relaxed once in a process and kept.
Endpoints == IF suite.endpoints # "none" THEN {suite.endpoints} ELSE {"good", "loose"}

\* A workflow on the endpoints; only "endpoints" catches their exception.
OnEndpoints(name, claims, endpoints, band) ==
    /\ Working(name)
    /\ Write(claims, suite.by, {suite.by})
    /\ suite' = [suite EXCEPT !.todo = Tail(@), !.endpoints = endpoints, !.band = band,
                              !.failed = @ \/ \E c \in claims : c.status = "fail"]
    /\ UNCHANGED <<call, onDisk>>

RunEndpoints ==
    \/ \E e \in Endpoints : OnEndpoints("endpoints", EndpointClaims(e), e, suite.band)
    \/ suite.endpoints = "none"
       /\ OnEndpoints("endpoints", EndpointClaims("raises"), "none", suite.band)

\* The relaxation of the endpoints raises outside the handlers of the others.
EndpointsRaise ==
    /\ suite.endpoints = "none"
    /\ \E w \in {"path_init", "neb_warmup", "ci_neb5", "ci_neb7", "resume_identity"} : Working(w)
    /\ Dies

RunPathInit == \E e \in Endpoints, bands \in {"good", "raises"} :
    OnEndpoints("path_init", PathClaims(bands), e, suite.band)

\* The product refuses endpoints that are not relaxed.
BandOf(e) == IF e = "good" THEN {"good", "loose", "raises"} ELSE {"raises"}

RunWarmup == \E e \in Endpoints : \E band \in BandOf(e) :
    OnEndpoints("neb_warmup", BandClaims("neb_warmup", band), e, suite.band)

\* The reference of the saddle: its payload, or that there is none.
RunBand5 == \E e \in Endpoints : \E band \in BandOf(e) :
    OnEndpoints("ci_neb5", BandClaims("ci_neb5", band), e,
                IF band = "raises" THEN "none" ELSE band)

RunBand7 == \E e \in Endpoints : \E band7, band9 \in BandOf(e), moved \in BOOLEAN :
    LET compared == band7 # "raises" /\ suite.band # "none"
    IN  OnEndpoints("ci_neb7",
            BandClaims("ci_neb7", band7)
            \cup (IF compared THEN ImageClaims(band7, moved, band9) ELSE {})
            \cup (IF compared /\ moved THEN BandClaims("ci_neb9", band9) ELSE {}),
            e, suite.band)

RunResume == \E e \in Endpoints : \E same \in (BandOf(e) \cup {"raises"}) :
    OnEndpoints("resume_identity", ResumeClaims(same), e, suite.band)

RunSaddle ==
    /\ Working("saddle_hessian")
    /\ \E point \in SaddlePoints \cup {"raises"} : WriteAll(SaddleClaims(suite.band, point))

RunHop == \E band \in Outcome \ {"bad"} : Working("na3ps4_hop") /\ WriteAll(HopClaims(band))

-------------------------------------------------------------------------------
(* T6 *)

RunNve ==
    /\ Working("nve")
    /\ \E fine, coarse \in Outcome \ {"loose"}, trend \in BOOLEAN :
          WriteAll(NveClaims(fine, coarse, trend))

RunLangevin ==
    /\ Working("langevin")
    /\ \E one, other \in Outcome \ {"loose"}, same \in BOOLEAN :
          WriteAll(LangevinClaims(one, other, same))

RunBussi ==
    /\ Working("bussi")
    /\ \E free, fixed \in Outcome \ {"loose"} : WriteAll(BussiClaims(free, fixed))

RunNhc ==
    /\ Working("nhc")
    /\ \E chain \in Outcome \ {"loose"}, refused \in {"refused", "other error", "accepted"} :
          WriteAll(NhcClaims(chain, refused))

RunConstraints ==
    /\ Working("constraints")
    /\ \E runs \in Outcome \ {"loose"}, exact \in BOOLEAN : WriteAll(ConstraintClaims(runs, exact))

RunAbort == \E run \in Outcome \ {"bad"} : Working("force_safety") /\ WriteAll(AbortClaims(run))

-------------------------------------------------------------------------------
(* T7 *)

Directory == DirOf(suite.by, Head(suite.todo)[2])
Complete == Directory \in DOMAIN trajectories /\ trajectories[Directory].rows # "partial"

Store(rows) ==
    /\ trajectories' = [d \in DOMAIN trajectories \cup {Directory} |->
                           IF d = Directory THEN [of |-> suite.by, rows |-> rows]
                           ELSE trajectories[d]]
    /\ UNCHANGED forces

\* A finished run is used again, whatever process and calculator made it.
ReuseRun ==
    /\ Working("md") /\ Complete
    /\ Done(MdClaims(trajectories[Directory].rows), {trajectories[Directory].of})

\* Otherwise the product runs, in the same directory.  It may fail before its
\* last row or after it.
RunMd ==
    /\ Working("md") /\ ~Complete
    /\ \E rows \in {"good", "bad", "partial"}, breaks \in BOOLEAN :
          /\ rows = "partial" => breaks
          /\ Store(rows)
          /\ Finishes(IF breaks THEN Raised("md") ELSE MdClaims(rows), {suite.by})

\* SIGKILL in the middle of a run.
KilledInMd == Working("md") /\ ~Complete /\ Store("partial") /\ Leaves(1, TRUE)
              /\ UNCHANGED <<report, written>>

MissingRun ==
    /\ \E case \in {"transport", "gemdat"} :
          Working(case) /\ ~Complete /\ Done(Raised(case), {suite.by})

RunTransport ==
    /\ Working("transport") /\ Complete
    /\ \E how \in {"sampled", "still", "refused", "raises"} :
          LET run == trajectories[Directory]
              claims == TransportClaims(run.rows, how)
          IN  /\ Write(claims, suite.by, {run.of})
              /\ suite' = [suite EXCEPT !.todo = Tail(@),
                              !.failed = @ \/ \E c \in claims : c.status = "fail",
                              !.sampled = IF Concludes("transport", "characterized", {run.rows}) \in claims
                                          THEN @ \cup {Head(suite.todo)[2]} ELSE @]
    /\ UNCHANGED <<call, onDisk>>

\* After the last temperature: three of them were characterised.
RunArrhenius ==
    /\ Working("arrhenius")
    /\ IF Cardinality(suite.sampled) >= 3
       THEN \E fit \in {"good", "raises"} :
               Done(ArrheniusClaims(fit),
                    {trajectories[DirOf(suite.by, t)].of : t \in suite.sampled})
       ELSE Done({}, {})

RunGemdat ==
    /\ Working("gemdat") /\ Complete
    /\ \E how \in {"sampled", "still", "refused", "raises"} :
          Done(GemdatClaims(trajectories[Directory].rows, how), {trajectories[Directory].of})

-------------------------------------------------------------------------------
Workflows ==
    \/ RunInference \/ RunInvariance \/ RunDerivatives \/ RunReferences \/ RunTimings
    \/ RunSinglePoint \/ RunRelax \/ RunCellRelax \/ RunEos \/ RunElastic
    \/ RunPhonon \/ KilledInPhonon \/ RunVacancy \/ RunSurface \/ RunEnergetics
    \/ RunEndpoints \/ EndpointsRaise \/ RunPathInit \/ RunWarmup \/ RunBand5 \/ RunBand7
    \/ RunResume \/ RunSaddle \/ RunHop
    \/ RunNve \/ RunLangevin \/ RunBussi \/ RunNhc \/ RunConstraints \/ RunAbort
    \/ ReuseRun \/ RunMd \/ KilledInMd \/ MissingRun \/ RunTransport \/ RunArrhenius \/ RunGemdat

SuitesNext ==
    \/ \E calculator \in Calculator : StartCampaign(calculator)
    \/ Block \/ UnknownTier \/ EndCampaign
    \/ \E request \in Requests : BeginSuite(request) \/ SetupFails(request)
    \/ Workflows \/ EndSuite \/ Killed

SuitesSpec == SuitesInit /\ [][SuitesNext]_suiteVars

-------------------------------------------------------------------------------
(* Properties *)

SuitesTypeOK ==
    /\ call.state \in {"idle", "open", "done"} /\ call.exit \in 0..2
    /\ suite.endpoints \in {"none", "good", "loose"} /\ suite.band \in {"none", "good", "loose"}
    /\ \A d \in DOMAIN trajectories : trajectories[d].rows \in {"good", "bad", "partial"}
    /\ \A k \in DOMAIN forces : forces[k].modes \in Quality \cup {"partial"}
    /\ written \subseteq Status
    /\ \A c \in report : c.status \in Status

\* Workflows that pass although something they rest on did not converge: the
\* relaxations of the equation of state and of the relaxed-ion constants, the
\* bands of the image comparison, and refusals for an unrelated reason.  The
\* first two contradict what the suite says of a pass (see PassesConverged).
Unchecked == {"eos", "elastic_relaxed", "image_convergence", "nhc"}

\* Two calculators that the files of a workflow do not tell apart.
Alike(test, c, d) ==
    \/ c = d
    \/ test \in {"md", "transport", "arrhenius", "gemdat"} /\ c.engine = d.engine
    \/ test \in {"phonon", "thermo"} /\ c.engine = d.engine /\ c.profile = d.profile

\* Every record a suite writes is backed by the computations it names: a pass by
\* computations that all met their criteria (but for the workflows that do not
\* check), a saddle by a band of the same process that converged, a transport
\* property by a finished trajectory with finite rows, and every record by its own
\* calculator.  What was found on disk is of the same engine, and forces are of the
\* same profile; that it may be of another calculator is shown apart (see
\* OneCalculatorEach).  And the exit code of the call is 0 exactly when no record
\* says fail or blocked and no tier script ended otherwise.
SuitesTellTheTruth ==
    /\ \A c \in report :
          /\ \A d \in c.of : Alike(c.test, d, c.by)
          /\ c.status = "pass" /\ c.test \notin Unchecked => c.rests \subseteq {"good"}
          /\ c.status = "characterized" /\ c.test \in {"transport", "arrhenius"} =>
                 c.rests = {"good"}
          /\ c.status = "characterized" /\ c.test = "gemdat" => "partial" \notin c.rests
    /\ call.state = "done" =>
          (call.exit = 0 <=> written \cap {"fail", "blocked"} = {} /\ ~call.incident)

\* analysis_suite.py:102-103: "a completed run belongs to exactly one calculator and
\* must never be silently reused by another backend", and the manifest keeps the
\* float32 profile of MACE as "a separate identity and never mixed with float64
\* results".  The code contradicts it: the directory of a run names the engine only.
OneCalculatorEach == \A c \in report : c.of \subseteq {c.by}

\* static_suite.py:21: "pass" says that the "workflow completed and its internal
\* convergence/fit criteria were met".  The code contradicts it: the equation of
\* state and the relaxed-ion constants pass on relaxations that did not converge.
\* (Comparisons of images and Nose-Hoover chains are of other suites.)
PassesConverged ==
    \A c \in report :
        c.status = "pass" /\ c.test \notin {"image_convergence", "nhc"} =>
            c.rests \subseteq {"good"}
=============================================================================
