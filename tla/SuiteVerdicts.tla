----------------------------- MODULE SuiteVerdicts -----------------------------
(***************************************************************************)
(* What the validation suites conclude from a computation: one operator    *)
(* for each workflow of the tier scripts, from the outcomes of its         *)
(* computations to the records it writes.                                  *)
(*                                                                         *)
(* A computation is "good" when it met its criterion (converged, fitted,   *)
(* reproduced), "loose" when it ended without meeting it, "bad" when its   *)
(* numbers are not finite or contradict the test; or it raises.  A record  *)
(* keeps, beside its status, what it rests on: that is not written by the  *)
(* program, it is what the status is compared with.                        *)
(***************************************************************************)
EXTENDS Integers, Sequences, FiniteSets

Quality == {"good", "loose", "bad"}
Outcome == Quality \cup {"raises"}
Status == {"pass", "fail", "characterized", "unsupported", "insufficient_sampling", "blocked"}

Concludes(test, status, rests) == [test |-> test, status |-> status, rests |-> rests]
PassIf(good, test, rests) == Concludes(test, IF good THEN "pass" ELSE "fail", rests)
Raised(test) == {Concludes(test, "fail", {"raises"})}

-------------------------------------------------------------------------------
(* T1 - T3, T8: inference, invariance, derivatives, references, timings *)

\* One structure: finite energy, forces and stress.
InferenceClaims(energy) == {PassIf(energy = "good", "inference", {energy})}

InvarianceChecks == <<"repeatability", "ab_reversibility", "permutation", "pbc_wrap",
                      "translation", "rotation">>

\* The checks in their order, of which the i-th ends as `how`; after an exception
\* the remaining ones are not made.
InvarianceClaims(i, how) ==
    LET made == IF how = "raises" THEN i - 1 ELSE Len(InvarianceChecks)
        How(k) == IF k = i THEN how ELSE "good"
    IN  {IF k = 1 THEN Concludes(InvarianceChecks[1], "characterized", {How(1)})
         ELSE PassIf(How(k) = "good", InvarianceChecks[k], {How(k)}) : k \in 1..made}
        \cup (IF how = "raises" THEN Raised("invariance_error") ELSE {})

\* A sweep of step lengths: each error is within the bound ("good"), explained
\* by the noise of the energy ("loose"), or neither.  A lone point is no region.
Region(sweep, alike) ==
    LET Adjacent(q) == \E i \in 1..(Len(sweep) - 1) : sweep[i] = q /\ sweep[i + 1] = q
    IN  IF Adjacent("good") THEN "characterized"
        ELSE IF Adjacent("loose") /\ alike THEN "insufficient_sampling" ELSE "fail"

\* Forces and stress; an exception in either loses the records of both.
DerivativeClaims(force, stress) ==
    IF "raises" \in {force, stress}
    THEN Raised("fd_error")
    ELSE {Concludes("fd_force", force, {}), Concludes("fd_stress", stress, {})}

\* Reference structures: all computed, some of them, or none.
ReferenceClaims(computed) ==
    {Concludes("omat24", IF computed = "all" THEN "pass" ELSE "characterized",
           IF computed = "all" THEN {"good"} ELSE {"good", "raises"})}

\* Timings of growing cells.  A smaller cell that is slower spoils the sweep of
\* single points: none of it passes.
Timed(case, how) == IF how = "out of memory" THEN Concludes(case, "characterized", {"raises"})
                    ELSE PassIf(how = "good", case, {how})

TimingClaims(small, large, md, inverted) ==
    LET sweep == {Timed("sp_small", small), Timed("sp_large", large)}
        flagged == inverted /\ {small, large} \subseteq {"good", "bad"}
    IN  {IF flagged /\ c.status = "pass" THEN [c EXCEPT !.status = "characterized"] ELSE c
            : c \in sweep}
        \cup {Timed("md_throughput", md)}

-------------------------------------------------------------------------------
(* T4: static workflows *)

SinglePointClaims(p) == {PassIf(p = "good", "singlepoint", {p})}

\* Two optimisers; their agreement is recorded when neither raised.
RelaxClaims(fire, lbfgs, agree) ==
    {PassIf(fire = "good", "relax_fire", {fire}), PassIf(lbfgs = "good", "relax_lbfgs", {lbfgs})}
    \cup (IF "raises" \in {fire, lbfgs} THEN {}
          ELSE {PassIf(fire = "good" /\ lbfgs = "good" /\ agree, "optimizer_agreement",
                       {fire, lbfgs, IF agree THEN "good" ELSE "loose"})})

\* A relaxed cell, and the stress left in it.
CellRelaxClaims(cell, stress) ==
    IF cell = "raises" THEN Raised("cellrelax")
    ELSE {Concludes("cellrelax",
                IF cell # "good" THEN "fail" ELSE IF stress = "good" THEN "pass"
                ELSE "characterized", {cell, stress})}

\* Whether the relaxation converged is not asked, only how good the fits are.
EosClaims(cell, fits) ==
    IF "raises" \in {cell, fits} THEN Raised("eos")
    ELSE {PassIf(fits = "good", "eos", {cell, fits})}

\* With relaxed ions, whether those relaxations converged is not asked.
ElasticClaims(test, ions, fits, stable) ==
    IF "raises" \in {ions, fits} THEN Raised(test)
    ELSE {Concludes(test, IF fits # "good" THEN "fail" ELSE IF stable THEN "pass"
                      ELSE "characterized", {ions, fits})}

\* The modes at Gamma ("bad" when imaginary) and the thermodynamics of the grid,
\* whose exception is recorded as one of the phonons.
PhononClaims(modes, grid) ==
    IF modes = "raises" THEN Raised("phonon")
    ELSE {Concludes("phonon", CASE modes = "bad" -> "fail" [] modes = "good" -> "pass"
                            [] OTHER -> "characterized", {modes})}
         \cup (IF grid = "raises" THEN Raised("phonon")
               ELSE {PassIf(grid = "good", "thermo", {grid})})

VacancyClaims(defect) == {PassIf(defect = "good", "vacancy", {defect})}
SurfaceClaims(slab) == {PassIf(slab = "good", "surface", {slab})}
EnergeticsClaims == {Concludes(kind, "unsupported", {}) : kind \in {"cohesive", "formation"}}

-------------------------------------------------------------------------------
(* T5: reaction paths *)

\* Relaxed endpoints: both converged and symmetric.
EndpointClaims(endpoints) == {PassIf(endpoints = "good", "endpoints", {endpoints})}
PathClaims(bands) == {PassIf(bands = "good", "path_init", {bands})}
BandClaims(test, band) == {PassIf(band = "good", test, {band})}

\* Five images against seven, and nine when the barrier moved: recorded, not judged.
ImageClaims(band7, moved, band9) ==
    {Concludes("image_convergence", "pass", {band7} \cup (IF moved THEN {band9} ELSE {}))}

\* Run id, endpoints, mapping, options and geometry survive the resume.
ResumeClaims(same) == {PassIf(same = "good", "resume_identity", {same})}

\* What the Hessian at the highest image of a band says, judged in this order: a
\* band that did not converge is only characterised, whatever its curvature.
SaddleVerdict(band, point) ==
    IF point \in {"nonfinite", "other model"} THEN "fail"
    ELSE IF band # "good" THEN "characterized"
    ELSE IF point \in {"moving", "unmeasured", "no scales", "two modes"} THEN "fail"
    ELSE IF point = "one mode" THEN "pass" ELSE "characterized"

SaddlePoints == {"nonfinite", "other model", "moving", "unmeasured", "no scales", "two modes",
                 "no mode", "unstable mode", "turned mode", "one mode"}

SaddleClaims(band, point) ==
    IF band = "none" \/ point = "raises" THEN Raised("saddle_hessian")
    ELSE {Concludes("saddle_hessian", SaddleVerdict(band, point),
                {band, IF point = "one mode" THEN "good" ELSE "loose"})}

\* A hop without a reference: characterised when its band converged.
HopClaims(band) == {Concludes("na3ps4_hop", IF band = "good" THEN "characterized" ELSE "fail", {band})}

-------------------------------------------------------------------------------
(* T6: molecular dynamics *)

\* Two timesteps of the sweep, and whether the drift grows with the timestep.
NveClaims(fine, coarse, trend) ==
    IF "raises" \in {fine, coarse} THEN Raised("nve")
    ELSE {PassIf(fine = "good" /\ coarse = "good" /\ trend, "nve",
                 {fine, coarse, IF trend THEN "good" ELSE "loose"})}

\* Two runs of one seed; not to reproduce is characterised, not failed.
LangevinClaims(one, other, same) ==
    IF "raises" \in {one, other} THEN Raised("langevin")
    ELSE {Concludes("langevin", IF "bad" \in {one, other} THEN "fail"
                            ELSE IF same THEN "pass" ELSE "characterized", {one, other})}

BussiClaims(free, fixed) ==
    IF "raises" \in {free, fixed} THEN Raised("bussi")
    ELSE {PassIf("bad" \notin {free, fixed}, "bussi", {free, fixed})}

\* A chain that is allowed, and combinations that must be refused; any exception
\* counts as a refusal.
NhcClaims(chain, refused) ==
    IF chain = "raises" THEN Raised("nhc")
    ELSE {PassIf(chain = "good" /\ refused \in {"refused", "other error"}, "nhc",
                 {chain, IF refused = "refused" THEN "good" ELSE "loose"})}

ConstraintClaims(runs, exact) ==
    IF runs = "raises" THEN Raised("constraints")
    ELSE {PassIf(runs = "good" /\ exact, "constraints", {runs, IF exact THEN "good" ELSE "loose"})}

\* A run that must abort: "good" when it aborted and left its manifest, its table
\* and its last structure; "loose" when it did not abort or left less.
AbortClaims(run) == {PassIf(run = "good", "force_safety", {run})}

-------------------------------------------------------------------------------
(* T7: transport *)

\* A finished run is judged by its rows, whether it ran now or was found.
MdClaims(run) == {PassIf(run = "good", "md", {run})}

\* A trajectory is analysed when it moved enough; an exception is the product's
\* refusal, or a failure.
TransportClaims(run, how) ==
    {Concludes("transport",
           IF how = "raises" THEN "fail"
           ELSE IF run = "good" /\ how = "sampled" THEN "characterized" ELSE "unsupported", {run})}

GemdatClaims(run, how) ==
    {Concludes("gemdat", CASE how = "sampled" -> "characterized" [] how = "raises" -> "fail"
                       [] OTHER -> "unsupported", {run})}

ArrheniusClaims(fit) == {Concludes("arrhenius", IF fit = "good" THEN "characterized" ELSE "fail", {fit})}
=============================================================================
