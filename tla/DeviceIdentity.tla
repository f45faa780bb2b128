---------------------------- MODULE DeviceIdentity ----------------------------
(***************************************************************************)
(* On which GPU a calculation runs, and on which one it says that it ran   *)
(* (devices.py, job_worker.py, cli.py, the wrappers in calculators/).  A   *)
(* device is asked for by a number.  What the number means depends on      *)
(* CUDA_VISIBLE_DEVICES and on who reads it: mliport counts the GPUs in    *)
(* the order of nvidia-smi, the frameworks in the order of the CUDA        *)
(* runtime, and a GPU that fails shifts the others.  A queued job          *)
(* therefore gets the UUID of a GPU as its lease and a process that sees   *)
(* nothing else; the command line starts itself again for a backend that   *)
(* cannot be told its device; and what the framework did is read from the  *)
(* model before a result is written.                                       *)
(*                                                                         *)
(* Only whole GPUs are modelled.  A UUID that is a prefix of no GPU, or of *)
(* several, is a selector whose set of GPUs has no or several elements.    *)
(***************************************************************************)
EXTENDS Integers, Sequences, FiniteSets, SequencesExt, FiniteSetsExt

CONSTANTS Gpus,           \* the UUIDs in the order of nvidia-smi: a sequence
          Visibilities,   \* values of CUDA_VISIBLE_DEVICES
          MaxLost         \* bound on GPUs that fail

Cpu == -1                 \* --device cpu; cuda and cuda:0 are 0, cuda:N is N
NoDevice == "nothing"      \* no lease, no place, no evidence

ASSUME DeviceAssumption ==
    /\ Gpus \in Seq(ToSet(Gpus)) /\ \A v \in Visibilities : v.list \in Seq(ToSet(v.list))
    /\ IsInjective(Gpus) /\ NoDevice \notin ToSet(Gpus) /\ "cpu" \notin ToSet(Gpus)
    /\ MaxLost \in 0..Len(Gpus)

VARIABLES machine,   \* the GPUs that work, as nvidia-smi and as CUDA list them
          wanted,    \* what was asked, by whom, and what became of it
          shell      \* the environment and the device of the calculation's process

deviceVars == <<machine, wanted, shell>>

-------------------------------------------------------------------------------
(* What CUDA_VISIBLE_DEVICES means *)

\* The list is unset, or has selectors; without any ("" or "-1") no GPU is visible.
UnsetList == [set |-> FALSE, list |-> <<>>]
OnlyGpu(uuid) == [set |-> TRUE, list |-> <<<<"uuid", {uuid}>>>>]
NoGpu == [set |-> TRUE, list |-> <<>>]

Selects(selector, order) ==
    IF selector[1] = "index"
    THEN {order[i] : i \in {i \in DOMAIN order : i = selector[2] + 1}}
    ELSE selector[2] \cap ToSet(order)

ReadsAs(v, order) == [i \in DOMAIN v.list |-> CHOOSE g \in Selects(v.list[i], order) : TRUE]

\* Every selector names one GPU, and none a GPU that another one names.
Unambiguous(v, order) ==
    /\ \A i \in DOMAIN v.list : Cardinality(Selects(v.list[i], order)) = 1
    /\ IsInjective(ReadsAs(v, order))

VisibleList(v) == IF v.set THEN ReadsAs(v, machine.smi) ELSE machine.smi

\* The GPU that a device means where v is the visibility; nvidia-smi answers or not.
Resolved(device, v, answers) ==
    IF device = Cpu THEN [ok |-> TRUE, uuid |-> NoDevice]
    ELSE IF answers /\ Unambiguous(v, machine.smi) /\ device < Len(VisibleList(v))
         THEN [ok |-> TRUE, uuid |-> VisibleList(v)[device + 1]]
         ELSE [ok |-> FALSE, uuid |-> NoDevice]

\* The CUDA runtime reads the list up to the first selector that it cannot use.
FirstOf(v, n) == [set |-> v.set, list |-> SubSeq(v.list, 1, n)]
UsableTo(v) == {n \in 0..Len(v.list) : Unambiguous(FirstOf(v, n), machine.cuda)}
CudaSees(v) ==
    IF v.set THEN ReadsAs(FirstOf(v, Max(UsableTo(v))), machine.cuda) ELSE machine.cuda

-------------------------------------------------------------------------------
(* Isolation *)

\* e.plain: LOCAL_RANK is 0 or unset and DEVICE is not cpu.
IsolatedFor(device, e) ==
    IF device = Cpu THEN e.visible = NoGpu
    ELSE device = 0 /\ e.visible.set /\ Len(e.visible.list) = 1 /\ e.plain

\* Mutation: the process of a job sees what its scheduler sees.
LeasedInherits(lease, e) ==
    [visible |-> IF lease = NoDevice THEN NoGpu ELSE e.visible, plain |-> lease # NoDevice, lease |-> lease]

\* The environment of a job's process: its GPU alone, which is now the first.
LeasedEnvironment(lease, e) ==
    [visible |-> IF lease = NoDevice THEN NoGpu ELSE OnlyGpu(lease),
     plain |-> lease # NoDevice, lease |-> lease]

\* Where the framework puts the model.  UMA and MACE are told the device; DPA and
\* GRACE take the first GPU they see, and without one DPA stays on the CPU.
PlacesOf(kind, device, e) ==
    LET seen == CudaSees(e.visible) IN
    CASE device = Cpu -> {"cpu"}
      [] device # Cpu /\ kind = "torch" -> IF device < Len(seen) THEN {seen[device + 1]} ELSE {}
      [] device # Cpu /\ kind = "dpa" -> IF seen # <<>> /\ e.plain THEN {seen[1]} ELSE {"cpu"}
      [] device # Cpu /\ kind = "grace" -> IF seen # <<>> THEN {seen[1], "cpu"} ELSE {}

Needy(kind) == kind \in {"dpa", "grace"}

\* What info() makes of the tensors of a model at a place: the answers there may be.
\* Without tensors that tell, nothing is claimed.
Untold == [ok |-> TRUE, type |-> "unknown", uuid |-> NoDevice]
Identities(on, device, e, answers) ==
    LET requested == Resolved(device, e.visible, answers)
        verified == /\ requested.ok /\ requested.uuid = on
                    /\ e.lease # NoDevice => e.lease = on
    IN  {Untold, [Untold EXCEPT !.ok = FALSE]} \cup
        (IF on = "cpu"
         THEN {[ok |-> device = Cpu, type |-> "cpu", uuid |-> NoDevice]}
         ELSE {[ok |-> device # Cpu /\ verified, type |-> "cuda", uuid |-> on]})

-------------------------------------------------------------------------------
(* A calculation *)

Kinds == {"torch", "dpa", "grace"}   \* torch: UMA and MACE
Environments == [visible : Visibilities, plain : BOOLEAN, lease : {NoDevice} \cup ToSet(Gpus)]
NoRequest ==
    [step |-> "new", route |-> "none", kind |-> "none", neb |-> FALSE, asked |-> Cpu, meant |-> NoDevice,
     lease |-> NoDevice, again |-> FALSE, on |-> NoDevice, report |-> Untold]
NoShell == [env |-> [visible |-> UnsetList, plain |-> TRUE, lease |-> NoDevice], device |-> Cpu]

DeviceInit ==
    /\ machine \in [smi : {Gpus}, cuda : {p \in [1..Len(Gpus) -> ToSet(Gpus)] : IsInjective(p)}]
    /\ wanted = NoRequest /\ shell = NoShell

Proceed(to) == wanted' = [wanted EXCEPT !.step = to]

\* A command is queued, entered, or the API is called, somewhere.
AskForDevice ==
    /\ wanted.step = "new"
    /\ \E route \in {"queue", "cli", "api"}, kind \in Kinds, neb \in BOOLEAN,
          asked \in Cpu..Len(Gpus), e \in Environments :
         /\ e.lease # NoDevice => route = "queue"   \* a scheduler started by hand from a job
         /\ wanted' = [NoRequest EXCEPT !.step = IF route = "queue" THEN "queued" ELSE "started",
                          !.route = route, !.kind = kind, !.neb = neb, !.asked = asked,
                          !.meant = Resolved(asked, e.visible, TRUE).uuid]
         /\ shell' = [env |-> e, device |-> asked]
    /\ UNCHANGED machine

\* The scheduler resolves the device in its own environment; the job fails if it cannot.
LeaseDevice ==
    /\ wanted.step = "queued"
    /\ \E answers \in BOOLEAN :
         LET found == Resolved(wanted.asked, shell.env.visible, answers) IN
         wanted' = [wanted EXCEPT !.step = IF found.ok THEN "leased" ELSE "failed", !.lease = found.uuid]
    /\ UNCHANGED <<machine, shell>>

IsolateWorker ==
    /\ wanted.step = "leased"
    /\ shell' = [env |-> LeasedEnvironment(wanted.lease, shell.env),
                 device |-> IF wanted.lease = NoDevice THEN Cpu ELSE 0]
    /\ Proceed("started") /\ UNCHANGED machine

\* The command line, in a worker too, starts itself again with the same arguments
\* for DPA and GRACE unless its process is isolated or was started so.
RestartIsolated ==
    /\ wanted.step = "started" /\ wanted.route # "api" /\ Needy(wanted.kind)
    /\ ~wanted.again /\ ~IsolatedFor(shell.device, shell.env)
    /\ \E answers \in BOOLEAN :
         LET found == Resolved(shell.device, shell.env.visible, answers) IN
         IF found.ok
         THEN /\ shell' = [shell EXCEPT !.env.visible = IF shell.device = Cpu THEN NoGpu ELSE OnlyGpu(found.uuid)]
              /\ wanted' = [wanted EXCEPT !.again = TRUE]
         ELSE Proceed("failed") /\ UNCHANGED shell
    /\ UNCHANGED machine

LoadBackend ==
    /\ wanted.step = "started"
    /\ wanted.route # "api" /\ Needy(wanted.kind) => wanted.again \/ IsolatedFor(shell.device, shell.env)
    /\ IF Needy(wanted.kind) /\ ~IsolatedFor(shell.device, shell.env) THEN Proceed("unisolated")
       ELSE \/ \E on \in PlacesOf(wanted.kind, shell.device, shell.env) :
                 wanted' = [wanted EXCEPT !.step = "computing", !.on = on]
            \/ Proceed("failed")
    /\ UNCHANGED <<machine, shell>>

\* Before results are written, by NEB before the band is optimised: NEB wants a
\* GPU confirmed and looks twice.
ConfirmDevice ==
    /\ wanted.step = "computing"
    /\ \E answers \in BOOLEAN : \E id \in Identities(wanted.on, shell.device, shell.env, answers) :
         LET again == Resolved(shell.device, shell.env.visible, answers)
             enough == wanted.neb =>
                 again.ok /\ (again.uuid # NoDevice => id.type = "cuda" /\ id.uuid = again.uuid)
         IN  wanted' = [wanted EXCEPT !.step = IF id.ok /\ enough THEN "reported" ELSE "failed",
                                        !.report = IF id.ok THEN id ELSE Untold]
    /\ UNCHANGED <<machine, shell>>

\* A GPU falls off the bus: those behind it move up, here and there.
LoseGpu ==
    /\ Len(machine.smi) > Len(Gpus) - MaxLost
    /\ \E i \in DOMAIN machine.smi, j \in DOMAIN machine.cuda :
         /\ machine.smi[i] = machine.cuda[j]
         /\ machine' = [smi |-> RemoveAt(machine.smi, i), cuda |-> RemoveAt(machine.cuda, j)]
    /\ UNCHANGED <<wanted, shell>>

DeviceNext ==
    \/ AskForDevice \/ LeaseDevice \/ IsolateWorker \/ RestartIsolated
    \/ LoadBackend \/ ConfirmDevice \/ LoseGpu

DeviceSpec == DeviceInit /\ [][DeviceNext]_deviceVars

-------------------------------------------------------------------------------
(* Properties *)

DeviceTypeOK ==
    /\ ToSet(machine.smi) = ToSet(machine.cuda) /\ ToSet(machine.smi) \subseteq ToSet(Gpus)
    /\ wanted.on \in {NoDevice, "cpu"} \cup ToSet(Gpus)
    /\ wanted.step \in {"new", "queued", "leased", "started", "computing", "reported", "failed", "unisolated"}

\* A queued job never touches a GPU that is not its lease, whatever its scheduler
\* sees, however the CUDA runtime counts and whether or not the framework tells.
\* (leased_process_environment.)
ComputesOnItsLease ==
    wanted.route = "queue" => wanted.on \in {NoDevice, "cpu", wanted.lease}

\* A backend that takes the first GPU it sees never has a second one to see.
OneToSee ==
    Needy(wanted.kind) /\ wanted.on # NoDevice =>
        shell.env.visible.set /\ Len(shell.env.visible.list) <= 1

\* A result that names a GPU was computed on it, and while no GPU failed it is
\* the one that the user's number meant where it was asked; a result that says CPU
\* was asked for it; an NEB run on a GPU has it confirmed.  (verify_runtime_uuid.)
ReportsItsDevice ==
    LET on == wanted.on  said == wanted.report  all == Len(machine.smi) = Len(Gpus) IN
    wanted.step = "reported" =>
        /\ said.uuid # NoDevice => on = said.uuid /\ wanted.asked # Cpu /\ (all => on = wanted.meant)
        /\ said.type = "cpu" => on = "cpu" /\ wanted.asked = Cpu
        /\ wanted.neb /\ wanted.asked # Cpu => said.uuid # NoDevice

RunsWhereItSays == ComputesOnItsLease /\ OneToSee /\ ReportsItsDevice

\* docs/installation.md: "the mliport CLI restarts the same command in a fresh
\* process with the requested GPU visible".  A command that was started again is not
\* refused for want of isolation.  It is when it asks for cuda:1: the fresh process
\* sees one GPU, and the arguments, which are the same, still ask for a second.
RestartedIsIsolated == wanted.again /\ shell.env.plain => wanted.step # "unisolated"
=============================================================================
