-------------------------------- MODULE Doctor --------------------------------
(***************************************************************************)
(* mliport doctor (doctor.py): a table of rows about one engine on one     *)
(* device, and an exit code of 0 when no row says that it failed.  A row   *)
(* may say that a check was skipped because an earlier one failed or was   *)
(* not asked for; the probes compute in a child process that is isolated   *)
(* as the process of a queued job is.                                      *)
(***************************************************************************)
EXTENDS DeviceIdentity

VARIABLES exam,      \* how far the examination is, and what was asked
          findings   \* the rows of the report that are not fixed: <<name, status>>

doctorVars == <<exam, findings>>

-------------------------------------------------------------------------------
NoTarget == -2   \* --device auto, and none selected

\* Python, the installation, features and conflicting packages are "sound" or not.
Questions ==
    [engine : Kinds \cup {"auto"}, device : {NoTarget} \cup Cpu..Len(Gpus),
     model : {"none", "absent", "wrong", "ready"}, task : BOOLEAN,
     structure : {"none", "absent", "ready"}, installed : BOOLEAN, sound : BOOLEAN]

NoExam ==
    [step |-> "new", ask |-> <<>>, env |-> NoShell.env, target |-> NoTarget, seen |-> 0,
     runtime |-> "none", ran |-> NoDevice, model |-> "none", loaded |-> NoDevice]

DoctorInit == exam = NoExam /\ findings = {}

ExamAt(to) == exam' = [exam EXCEPT !.step = to]

\* detect_gpus: what nvidia-smi lists and CUDA_VISIBLE_DEVICES leaves; it never raises.
Detected(v, answers) == IF answers /\ Unambiguous(v, machine.smi) THEN Len(VisibleList(v)) ELSE 0

WantsGpu(target) == target >= 0

\* The rows on the installation, the driver, the selection and the package.
SurveyRows(ask, target, seen) ==
    {<<"installation", IF ask.sound THEN "ok" ELSE "fail">>}
    \cup {<<"driver", IF seen > 0 THEN "ok" ELSE IF WantsGpu(target) THEN "fail" ELSE "skip">>}
    \cup (IF target > 0 /\ seen > 0 /\ target >= seen THEN {<<"selection", "fail">>} ELSE {})
    \cup (IF ask.engine = "auto" THEN {}
          ELSE {<<"package", IF ask.installed THEN "ok" ELSE "fail">>})

Survey ==
    /\ exam.step = "new"
    /\ \E ask \in Questions, v \in Visibilities, answers \in BOOLEAN :
         LET seen == Detected(v, answers)
             target == IF ask.device # NoTarget THEN ask.device
                       ELSE IF ask.engine = "auto" THEN NoTarget
                       ELSE IF seen > 0 THEN 0 ELSE Cpu
         IN  /\ exam' = [exam EXCEPT !.step = "surveyed", !.ask = ask, !.target = target,
                                     !.env.visible = v, !.seen = seen]
             /\ findings' = SurveyRows(ask, target, seen)

\* The child's environment and the first device in it, or nothing: then the
\* exception that names the device ends the command without a report.
ProbeShell(answers) ==
    LET found == Resolved(exam.target, exam.env.visible, answers) IN
    [ok |-> found.ok, device |-> IF WantsGpu(exam.target) THEN 0 ELSE Cpu,
     env |-> LeasedEnvironment(found.uuid, exam.env)]

\* A tensor on the device of the target.  The child may fail, hang or be killed.
ProbePlaces(sh) ==
    LET seen == CudaSees(sh.env.visible) IN
    IF sh.device = Cpu THEN {"cpu"} ELSE {seen[i] : i \in DOMAIN seen \cap {1}}

ProbeRuntime ==
    /\ exam.step = "surveyed"
    /\ IF exam.ask.engine = "auto" \/ ~exam.ask.installed
       THEN ExamAt("probed") /\ findings' = findings \cup {<<"runtime", "skip">>}
       ELSE \E answers \in BOOLEAN :
              LET sh == ProbeShell(answers) IN
              IF ~sh.ok THEN ExamAt("raised") /\ UNCHANGED findings
              ELSE \/ \E on \in ProbePlaces(sh) :
                        /\ exam' = [exam EXCEPT !.step = "probed", !.runtime = "ok", !.ran = on]
                        /\ findings' = findings \cup {<<"runtime", "ok">>}
                   \/ /\ exam' = [exam EXCEPT !.step = "probed", !.runtime = "failed"]
                      /\ findings' = findings \cup {<<"runtime", "fail">>}

\* The rows on CUDA.  Only PyTorch tells for which GPUs its wheel has kernels.
CudaRows(selected, kernels) ==
    IF exam.ask.engine = "auto" \/ ~WantsGpu(exam.target) THEN {}
    ELSE (IF ~selected THEN {<<"cuda", "skip">>}
          ELSE IF exam.runtime # "ok" THEN {} ELSE {<<"cuda", "ok">>})
         \cup (IF exam.runtime # "ok" \/ exam.ask.engine = "grace" THEN {}
               ELSE {<<"kernels", IF kernels THEN "ok" ELSE "fail">>})

JudgeCuda ==
    /\ exam.step = "probed" /\ ExamAt("judged")
    /\ LET selected == exam.seen > 0 /\ (exam.target > 0 => exam.target < exam.seen) IN
       \E kernels \in BOOLEAN : findings' = findings \cup CudaRows(selected, kernels)

\* Mutation: a model without a task is not loaded, and nobody says so.
RequestRowsLenient ==
    LET ask == exam.ask IN
    (IF ask.model = "none" /\ (ask.task \/ ask.structure # "none") THEN {<<"request", "fail">>} ELSE {})
    \cup (IF ask.model \in {"absent", "wrong"} THEN {<<"model", "fail">>} ELSE {})
    \cup (IF ask.structure = "absent" THEN {<<"structure", "fail">>} ELSE {})
    \cup (IF ask.model = "ready" /\ ask.engine = "auto"
          THEN {<<"load", "fail">>}
          ELSE IF ask.model = "ready" /\ (~ask.task \/ exam.runtime # "ok" \/ ask.structure = "absent")
          THEN {<<"load", "skip">>} ELSE {})

\* The rows on the model and the structure before the model is loaded.
RequestRows ==
    LET ask == exam.ask IN
    (IF ask.model = "none" /\ (ask.task \/ ask.structure # "none") THEN {<<"request", "fail">>} ELSE {})
    \cup (IF ask.model \in {"absent", "wrong"} THEN {<<"model", "fail">>} ELSE {})
    \cup (IF ask.structure = "absent" THEN {<<"structure", "fail">>} ELSE {})
    \cup (IF ask.model = "ready" /\ (ask.engine = "auto" \/ ~ask.task)
          THEN {<<"load", "fail">>}
          ELSE IF ask.model = "ready" /\ (exam.runtime # "ok" \/ ask.structure = "absent")
          THEN {<<"load", "skip">>} ELSE {})

\* Where a child that loads the model and confirms its device may have put it.
ModelPlaces(sh) ==
    {on \in PlacesOf(exam.ask.engine, sh.device, sh.env) :
        \E answers \in BOOLEAN : \E id \in Identities(on, sh.device, sh.env, answers) : id.ok}

\* The model is loaded on cuda or the CPU in an isolated child, its device is
\* confirmed as in a calculation, and the structure, if any, is evaluated.
ProbeModel ==
    /\ exam.step = "judged"
    /\ LET rows == RequestRows IN
       IF exam.ask.model # "ready" \/ \E r \in rows : r[1] = "load"
       THEN ExamAt("done") /\ findings' = findings \cup rows
       ELSE \E answers \in BOOLEAN :
              LET sh == ProbeShell(answers) IN
              IF ~sh.ok THEN ExamAt("raised") /\ UNCHANGED findings
              ELSE \/ \E on \in ModelPlaces(sh) :
                        /\ exam' = [exam EXCEPT !.step = "done", !.loaded = on, !.model =
                                IF exam.ask.structure = "ready" THEN "evaluated" ELSE "loaded"]
                        /\ findings' = findings \cup rows \cup {<<"load", "ok">>}
                   \/ ExamAt("done") /\ findings' = findings \cup rows \cup {<<"load", "fail">>}

\* The exit code of cmd_doctor.
Conclude ==
    /\ exam.step = "done"
    /\ ExamAt(IF \E r \in findings : r[2] = "fail" THEN "unhealthy" ELSE "healthy")
    /\ UNCHANGED findings

DoctorNext ==
    \/ (Survey \/ ProbeRuntime \/ JudgeCuda \/ ProbeModel \/ Conclude) /\ UNCHANGED deviceVars
    \/ exam.step # "new" /\ LoseGpu /\ UNCHANGED doctorVars

-------------------------------------------------------------------------------
(* Properties *)

DoctorTypeOK ==
    /\ exam.step \in {"new", "surveyed", "probed", "judged", "done", "healthy", "unhealthy", "raised"}
    /\ exam.ran \in {NoDevice, "cpu"} \cup ToSet(Gpus)

\* No check passes for being skipped.  A healthy engine has computed, on a GPU just
\* when a GPU was asked or chosen, and while none failed on the one that the number
\* means; a model that was named has been loaded by that engine, a structure
\* evaluated; a healthy inventory was asked for no model.
HealthIsTested ==
    exam.step = "healthy" =>
        /\ exam.ask.engine # "auto" =>
             /\ exam.runtime = "ok"
             /\ exam.ran = "cpu" <=> exam.target = Cpu
             /\ WantsGpu(exam.target) /\ Len(machine.smi) = Len(Gpus) =>
                  exam.ran = Resolved(exam.target, exam.env.visible, TRUE).uuid
        /\ exam.ask.model # "none" => exam.model \in {"loaded", "evaluated"}
        /\ exam.ask.structure # "none" => exam.model = "evaluated"

\* What a calculation reports of its device and what doctor certifies.
DevicesAreTrue == RunsWhereItSays /\ HealthIsTested

\* docs/troubleshooting.md: "the device is not visible. Diagnostic: mliport doctor
\* --engine <engine> --device cuda".  The examination ends with a report.  It does
\* not when no GPU is visible: the row that says so is in the report that the
\* resolver's exception, outside the handlers of the probe, prevents.
DoctorReports == exam.step # "raised"
=============================================================================
