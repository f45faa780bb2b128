------------------------------- MODULE MCThreads -------------------------------
(***************************************************************************)
(* The instance on which TLC checks the threads and processes around a     *)
(* calculation: an MD run with its writer thread, one calculation with its *)
(* signals, its watchdog and its reader, a batch of them, the neighbour    *)
(* list it keeps, the screens of the terminal interface, and the commands  *)
(* that start, stop and ask for a queue scheduler.  They share no state    *)
(* here, so each behaviour exercises one of them, chosen in the initial    *)
(* state, and the others stay as they are; the fairness of a part that     *)
(* never starts demands nothing.                                           *)
(***************************************************************************)
EXTENDS MDOutput, CalculationRun, RunScreen, BatchRun, ConfigForm, NeighborCache,
        SchedulerControl

VARIABLE part   \* the part that moves

-------------------------------------------------------------------------------
(* Instances *)

\* Two structures with one stem, in two formats, and one of another name.
ThreeFiles == <<"Ge.cif", "Si.cif", "Si.xyz">>
FileStem == [f \in {"Ge.cif", "Si.cif", "Si.xyz"} |-> IF f = "Ge.cif" THEN "Ge" ELSE "Si"]
FileFlat == [f \in {"Ge.cif", "Si.cif", "Si.xyz"} |->
                CASE f = "Ge.cif" -> "Ge_cif" [] f = "Si.cif" -> "Si_cif"
                  [] f = "Si.xyz" -> "Si_xyz"]

\* Two species of different reach, and cells in which an atom meets its own image.
PairCutoff == [pair \in {{"Na"}, {"S"}, {"Na", "S"}} |-> IF pair = {"Na"} THEN 2 ELSE 3]
LineOfSites == -1..4

\* One atom of sodium walks between two sites; the other may be replaced.
NeighborBound ==
    /\ atoms.of[1] = "Na"
    /\ 1 \in DOMAIN atoms.at => atoms.at[1] \in 0..1
    /\ DOMAIN atoms.at # {}

AtTheStart ==
    /\ atoms.at[1] = 0 /\ atoms.at[2] = 3 /\ atoms.cell = 4
    /\ \A i \in {1, 2} : atoms.of[i] = "Na"

-------------------------------------------------------------------------------
ThreadsVars ==
    <<part, vars, runVars, screenVars, batchVars, formVars, neighborVars, controlVars>>

ThreadsInit ==
    /\ Init /\ RunInit /\ ScreenInit /\ BatchInit /\ FormInit /\ NeighborInit /\ AtTheStart
    /\ ControlInit
    /\ part \in {"md", "run", "screen", "batch", "forms", "neighbors", "control"}
    /\ part # "md" => manifest.status = "none"

Others ==
    /\ UNCHANGED part
    /\ part # "md" => UNCHANGED vars
    /\ part # "run" => UNCHANGED runVars
    /\ part # "screen" => UNCHANGED screenVars
    /\ part # "batch" => UNCHANGED batchVars
    /\ part # "forms" => UNCHANGED formVars
    /\ part # "neighbors" => UNCHANGED neighborVars
    /\ part # "control" => UNCHANGED controlVars

ThreadsNext ==
    \/ part = "md" /\ Next /\ Others
    \/ part = "run" /\ RunNext /\ Others
    \/ part = "screen" /\ ScreenNext /\ Others
    \/ part = "batch" /\ BatchNext /\ Others
    \/ part = "forms" /\ FormNext /\ Others
    \/ part = "neighbors" /\ NeighborNext /\ NeighborBound' /\ Others
    \/ part = "control" /\ ControlNext /\ Others

ThreadsSpec == ThreadsInit /\ [][ThreadsNext]_ThreadsVars

\* The fairness of each module.  Only an MD run could move from its initial
\* state by itself, so only its fairness names the part.
FairThreadsSpec ==
    /\ ThreadsSpec
    /\ WF_vars(part = "md" /\ MDStep) /\ WF_vars(part = "md" /\ WriterStep)
    /\ RunFairness /\ WF_screenVars(Refresh) /\ ControlFairness

-------------------------------------------------------------------------------
\* EveryoneEnds of MDOutput, for the behaviours in which there is an MD run: a
\* failed or slow writer never blocks the MD thread for ever, and both end.
ThreadsEnd == part = "md" => EveryoneEnds

\* The type invariants of the parts.
ThreadsTypeOK ==
    CASE part = "md" -> TypeOK
      [] part = "run" -> RunTypeOK
      [] part = "screen" -> ScreenTypeOK
      [] part = "batch" -> BatchTypeOK
      [] part = "forms" -> FormTypeOK
      [] part = "neighbors" -> NeighborTypeOK
      [] part = "control" -> ControlTypeOK
=============================================================================
