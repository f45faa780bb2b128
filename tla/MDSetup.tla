-------------------------------- MODULE MDSetup --------------------------------
(***************************************************************************)
(* The way from a request for molecular dynamics to its first step         *)
(* (runners/md.py, runners/base.py): the settings are judged before a      *)
(* directory is made, the structure and the policies on velocities and on  *)
(* the centre of mass before the model is loaded, the model's first        *)
(* evaluation before anything is written.  The policies interact: a        *)
(* structure may bring constraints and momenta of its own, and a run that  *)
(* continues from momenta must neither move the atoms first nor project    *)
(* what it was given.                                                      *)
(*                                                                         *)
(* Atoms have unit mass and move along the axes of Axis.  Where they are   *)
(* matters as far as who moved them last.                                  *)
(***************************************************************************)
EXTENDS Integers, Sequences, FiniteSets, SequencesExt, FiniteSetsExt

CONSTANTS Particle,     \* the atoms there may be
          Axis,         \* the directions in which they move
          Restraints,   \* sequences of constraints a structure may bring
          Momentum      \* momenta: functions on Particle \X Axis

ASSUME SetupAssumption ==
    /\ IsFiniteSet(Particle) /\ IsFiniteSet(Axis) /\ Axis # {}
    /\ Momentum \subseteq [Particle \X Axis -> Int]
    /\ \A r \in Restraints : r \in Seq(ToSet(r))

VARIABLES setup,     \* how far the run is, and what it was asked
          system,    \* the atoms the run works on
          folders,   \* the directories it has made
          contcar   \* the constraints in the final structure it wrote

setupVars == <<setup, system, folders, contcar>>

-------------------------------------------------------------------------------
(* What a caller asks *)

Integrators == {"nve", "langevin", "bussi", "nhc"}
Wishes == [integrator : Integrators, velocities : {"auto", "initialize", "preserve"},
           com : {"auto", "none", "initialize_only", "constraint"}, relax : BOOLEAN,
           temperature : 0..1, coupling : 0..1, plain : BOOLEAN, task : {"bulk", "molecule", "other"}]

\* A constraint of ASE holds some components, or the centre of mass; their order
\* does not matter in a structure that is written.
FixCom == [kind |-> "fixcom", held |-> {}]
UsersOwn(a) == {c \in ToSet(a.constraints) : c.kind # "fixcom"}
Held(a) == UNION {c.held : c \in ToSet(a.constraints)}

\* The words are known, the numbers finite and in range, and no form of
\* pre-relaxation is asked that does not exist: wish.plain.  The coupling (the
\* friction, or a period) matters to the thermostat that uses it alone.
Usable(wish) ==
    /\ wish.plain
    /\ wish.integrator # "nve" => wish.coupling > 0
    /\ wish.integrator \in {"bussi", "nhc"} => wish.temperature > 0

-------------------------------------------------------------------------------
(* What is accepted *)

CountOf(a) == Cardinality(a.of)
FixComs(a) == Cardinality({i \in DOMAIN a.constraints : a.constraints[i].kind = "fixcom"})

\* a.sound: positions, cell, masses and velocities are finite, masses positive.
Healthy(a) == a.of # {} /\ a.sound /\ (a.pbc = "all" => a.cell = "full")

FitsTask(task, a) ==
    \/ task = "bulk" /\ a.pbc = "all" /\ a.cell = "full"
    \/ task = "molecule" /\ a.pbc = "none"

\* A molecule without a box gets one, which moves it to the middle.
PreparedFor(task, a) ==
    IF task = "molecule" /\ a.cell = "flat" THEN [a EXCEPT !.cell = "full", !.at = "centred"] ELSE a

\* What becomes of the policy on the centre of mass, and of the constraints.
Effective(wish, a) ==
    IF wish.com # "auto" THEN wish.com
    ELSE IF a.constraints = <<>> \/ FixComs(a) > 0 THEN "constraint" ELSE "none"

Constrained(wish, a) ==
    IF Effective(wish, a) = "constraint" /\ FixComs(a) = 0
    THEN [a EXCEPT !.constraints = <<FixCom>>] ELSE a

ComCapability == [nve |-> {"none", "constraint"}, langevin |-> {"none", "initialize_only", "constraint"},
                  bussi |-> {"none", "constraint"}, nhc |-> {"none"}]

Capable(wish, a) ==
    /\ Effective(wish, a) \in ComCapability[wish.integrator]
    /\ LET after == Constrained(wish, a).constraints
       IN  /\ Len(after) <= 1
           /\ after # <<>> => wish.integrator # "nhc" /\ after[1].kind # "other"

DegreesOfFreedom(a) ==
    Cardinality(Axis) * (CountOf(a) - FixComs(a)) - Cardinality(Held(a))

ComConfigured(wish, a) ==
    /\ FixComs(a) <= 1
    /\ wish.com = "none" => FixComs(a) = 0
    /\ wish.com = "initialize_only" => a.constraints = <<>> /\ CountOf(a) > 1
    /\ wish.com = "constraint" => FixComs(a) = Len(a.constraints) /\ CountOf(a) > 1
    /\ wish.com = "auto" /\ a.constraints = <<>> => wish.integrator # "nhc" /\ CountOf(a) > 1
    /\ Capable(wish, a)
    /\ DegreesOfFreedom(Constrained(wish, a)) > 0

\* Momenta a constraint leaves as they are, and momenta without a drift.
NetMomentum(of, p, x) == MapThenSumSet(LAMBDA i : p[<<i, x>>], of)
Balanced(a, p) == \A x \in Axis : NetMomentum(a.of, p, x) = 0
Admits(a, p) == (FixComs(a) > 0 => Balanced(a, p)) /\ \A h \in Held(a) : p[h] = 0
StandsStill(a, p) == \A i \in a.of, x \in Axis : p[<<i, x>>] = 0

\* The momenta given, to be continued: the constraints and the policy would
\* have to leave them as they are.
PreservedAccepted(wish, a) ==
    /\ Admits(a, a.p)
    /\ Effective(wish, a) = "initialize_only" => Balanced(a, a.p)

\* Momenta that are present are continued, be they all zero.
Continued(wish, a) == a.moving /\ wish.velocities \in {"auto", "preserve"}

\* Mutation: a policy that continues by itself is forgotten.
RelaxRefusedIfTold(wish, a) == wish.relax /\ a.moving /\ wish.velocities = "preserve"

\* Positions may not change under momenta that are to be continued.
RelaxRefused(wish, a) == wish.relax /\ a.moving /\ wish.velocities \in {"auto", "preserve"}

-------------------------------------------------------------------------------
(* The run *)

NoAtoms == [of |-> {}, constraints |-> <<>>, moving |-> FALSE, p |-> <<>>, at |-> "given",
            pbc |-> "none", cell |-> "flat", sound |-> FALSE]

Structures ==
    [of : SUBSET Particle, constraints : Restraints, moving : BOOLEAN, p : Momentum, at : {"given"},
     pbc : {"all", "some", "none"}, cell : {"full", "flat"}, sound : BOOLEAN]

\* Constraints and momenta are of atoms there are; without momenta ASE answers zero.
Fits(a, p) == \A i \in Particle \ a.of, x \in Axis : p[<<i, x>>] = 0
Consistent(a) ==
    /\ Held(a) \subseteq a.of \X Axis
    /\ Fits(a, a.p)
    /\ ~a.moving => StandsStill(a, a.p)

SetupInit ==
    /\ setup = [step |-> "new", wish |-> <<>>, atoms |-> NoAtoms, model |-> FALSE]
    /\ system = NoAtoms /\ folders = {} /\ contcar = {}

Become(to) == setup' = [setup EXCEPT !.step = to]

\* MDRunner.__init__: nothing is made for settings that are refused.
ConstructMD ==
    /\ setup.step = "new"
    /\ \E wish \in Wishes :
         /\ setup' = [setup EXCEPT !.step = IF Usable(wish) THEN "made" ELSE "refused", !.wish = wish]
         /\ folders' = IF Usable(wish) THEN {"run"} ELSE {}
    /\ UNCHANGED <<system, contcar>>

\* The beginning of run: the structure is judged, on a copy as far as the policy
\* on the centre of mass is concerned, before the model is loaded.
JudgeRun ==
    /\ setup.step = "made"
    /\ \E a \in Structures :
         LET wish == setup.wish
             ready == PreparedFor(wish.task, a)
             contract == Constrained(wish, ready)
             accepted == /\ ~RelaxRefused(wish, a)
                         /\ Healthy(a) /\ FitsTask(wish.task, a)
                         /\ ComConfigured(wish, ready)
                         /\ Continued(wish, a) => PreservedAccepted(wish, contract)
         IN  /\ Consistent(a)
             /\ setup' = [setup EXCEPT !.atoms = a, !.step = IF accepted THEN "checked" ELSE "refused"]
             /\ system' = IF accepted THEN ready ELSE system
    /\ UNCHANGED <<folders, contcar>>

LoadModel ==
    /\ setup.step = "checked"
    /\ \/ setup' = [setup EXCEPT !.step = IF setup.wish.relax THEN "relaxing" ELSE "loaded",
                                 !.model = TRUE]
       \/ Become("failed")
    /\ UNCHANGED <<system, folders, contcar>>

\* FIRE moves the atoms under the user's own constraints; it converges or the
\* run ends, and the user may cancel it at any step.
PreRelax ==
    /\ setup.step = "relaxing"
    /\ \/ Become("loaded") /\ system' = [system EXCEPT !.at = "relaxed"]
       \/ Become("failed") /\ UNCHANGED system
       \/ Become("cancelled") /\ UNCHANGED system
    /\ UNCHANGED <<folders, contcar>>

\* The policies are applied to the atoms themselves, and the momenta are kept
\* or drawn.  A draw obeys the constraints and has the temperature asked.
InitializeVelocities ==
    /\ setup.step = "loaded"
    /\ LET wish == setup.wish
           a == Constrained(wish, system)
           accepted == /\ ComConfigured(wish, system)
                       /\ wish.velocities = "preserve" => a.moving
                       /\ Continued(wish, a) => PreservedAccepted(wish, a)
           drawn == {p \in Momentum :
                       /\ Fits(a, p) /\ Admits(a, p)
                       /\ Effective(wish, system) = "initialize_only" => Balanced(a, p)
                       /\ StandsStill(a, p) <=> wish.temperature = 0}
       IN  IF ~accepted THEN Become("refused") /\ UNCHANGED system
           ELSE /\ Become("thermal")
                /\ IF Continued(wish, a) THEN system' = a
                   ELSE \E p \in drawn : system' = [a EXCEPT !.p = p, !.moving = TRUE]
    /\ UNCHANGED <<folders, contcar>>

\* Energy, forces and stress of the first state are finite, or the run ends.
FirstEvaluation ==
    /\ setup.step = "thermal"
    /\ Become("evaluated") \/ Become("failed")
    /\ UNCHANGED <<system, folders, contcar>>

\* Bussi's thermostat rescales what moves.
BuildDynamics ==
    /\ setup.step = "evaluated"
    /\ IF setup.wish.integrator = "bussi" /\ StandsStill(system, system.p)
       THEN Become("refused") /\ UNCHANGED folders
       ELSE Become("running") /\ folders' = folders \cup {"raw", "vasp"}
    /\ UNCHANGED <<system, contcar>>

\* The steps of MD, which are MDOutput's, and the final structure in CONTCAR:
\* the centre of mass is a matter of the integrator and not of the structure.
ExportStructure ==
    /\ setup.step = "running"
    /\ Become("done") /\ system' = [system EXCEPT !.at = "integrated"]
    /\ contcar' = UsersOwn(system)
    /\ UNCHANGED folders

SetupNext ==
    \/ ConstructMD \/ JudgeRun \/ LoadModel \/ PreRelax \/ InitializeVelocities
    \/ FirstEvaluation \/ BuildDynamics \/ ExportStructure

SetupSpec == SetupInit /\ [][SetupNext]_setupVars

-------------------------------------------------------------------------------
(* Properties *)

SetupTypeOK ==
    /\ setup.step \in {"new", "made", "checked", "relaxing", "loaded", "thermal", "evaluated",
                       "running", "done", "refused", "failed", "cancelled"}
    /\ setup.step # "new" => setup.wish \in Wishes
    /\ folders \subseteq {"run", "raw", "vasp"}

\* Dynamics begins as it was asked to or does not begin.  Momenta that came with
\* the structure and were not to be drawn anew are there unchanged, with the
\* atoms where they were (a molecule may have been put into a box); drawn ones have
\* no drift that the policy removes; the constraints are the user's, or the centre
\* of mass where the user had none, leave something to move, and are the user's
\* again in the final structure.  A run that is refused after its model was loaded
\* is one whose momenta were missing or too still for the thermostat, and none that
\* ends before its first step has made a directory for output.  (MDRunner.run.)
StartsAsAsked ==
    LET wish == setup.wish  given == setup.atoms IN
    /\ setup.step = "running" =>
         /\ given.moving /\ wish.velocities # "initialize" =>
              system.p = given.p /\ system.at \in {"given", "centred"}
         /\ \/ system.constraints = given.constraints
            \/ given.constraints = <<>> /\ system.constraints = <<FixCom>> /\ wish.com # "none"
         /\ \A h \in Held(given) : system.p[h] = 0
         /\ wish.com \in {"initialize_only", "constraint"} => Balanced(system, system.p)
         /\ Cardinality(Held(system)) < Cardinality(Axis) * CountOf(system)
    /\ setup.step = "refused" /\ setup.model =>
         \/ wish.velocities = "preserve" /\ ~given.moving
         \/ wish.integrator = "bussi" /\ given.moving /\ StandsStill(given, given.p)
    /\ setup.step \in {"refused", "failed", "cancelled"} => folders \subseteq {"run"}
    /\ setup.step = "done" => contcar = UsersOwn(given)

================================================================================
