------------------------------- MODULE TaskFile -------------------------------
(***************************************************************************)
(* `mliport queue submit` (queue.py: parse_task_file, build_mliport_command *)
(* and submit_task_file): a file of tasks is checked as a whole, and then  *)
(* every task becomes a job with the command that its worker will run.     *)
(*                                                                         *)
(* A path is absent, missing on disk, or written from the root or from the *)
(* directory of the file.  Options stand for one of each kind: of one      *)
(* calculation, with two spellings, of one engine, of every engine but     *)
(* forwarded to one, of the output, and two that are no options.           *)
(***************************************************************************)
EXTENDS Integers, Sequences

CONSTANT MaxDraft   \* tasks of the file and changes of the user to them (bound)

ASSUME TaskFileAssumption == MaxDraft \in Nat

VARIABLES
    tasks,       \* the tasks as the user declares them
    amended,     \* changes so far
    submission,  \* "drafted", "queueing", "reported", "refused" or "broken"
    commands     \* the commands of the jobs, in the order of their submission

taskVars == <<tasks, amended, submission, commands>>

PathFields == {"structure", "initial", "final", "resume", "model", "output_dir", "python"}
PathValues == {"absent", "missing", "absolute", "relative"}
EngineNames == {"uma", "mace", "grace"}

\* Option keys of the file, their canonical names, and the values used; "bad"
\* does not coerce, or is out of range.
FileKeys == {"fmax", "temp", "temperature", "head", "neighbor_skin", "inference_mode",
               "write_outcar", "device", "fmox"}
FileValues == {"one", "two", "bad"}
Canonical(key) == IF key = "temp" THEN "temperature" ELSE key

\* The checkpoint that a resume continues: its run, backend and device.
Recorded == [engine |-> "mace", device |-> "cuda", task |-> "bulk"]

-------------------------------------------------------------------------------
(* The user's draft *)

Plain(kind, engine) ==
    [calc |-> IF kind = "resume" THEN "neb" ELSE kind,
     engine |-> engine, device |-> "absent",
     path |-> [f \in PathFields |->
        CASE f = "model" /\ kind # "resume" -> "absolute"
          [] f = "structure" /\ kind \in {"opt", "md"} -> "relative"
          [] f \in {"initial", "final"} /\ kind = "neb" -> "relative"
          [] f = "resume" /\ kind = "resume" -> "relative"
          [] OTHER -> "absent"],
     mapping |-> "absent", options |-> << >>]

TaskFileInit ==
    /\ tasks = << >> /\ amended = 0 /\ submission = "drafted" /\ commands = << >>

Draft(kind, engine) ==
    /\ submission = "drafted" /\ Len(tasks) + amended < MaxDraft
    /\ tasks' = Append(tasks, Plain(kind, engine))
    /\ UNCHANGED <<amended, submission, commands>>

Amend(i, task) ==
    /\ submission = "drafted" /\ Len(tasks) + amended < MaxDraft
    /\ tasks' = [tasks EXCEPT ![i] = task]
    /\ amended' = amended + 1
    /\ UNCHANGED <<submission, commands>>

AmendTask(i) ==
    \/ \E f \in PathFields, v \in PathValues : Amend(i, [tasks[i] EXCEPT !.path[f] = v])
    \/ \E key \in FileKeys \ DOMAIN tasks[i].options, v \in FileValues :
          Amend(i, [tasks[i] EXCEPT !.options =
                       [k \in DOMAIN @ \cup {key} |-> IF k = key THEN v ELSE @[k]]])
    \/ Amend(i, [tasks[i] EXCEPT !.engine = "absent"])
    \/ Amend(i, [tasks[i] EXCEPT !.device = "cpu"])
    \/ \E v \in {"indices", "bad"} : Amend(i, [tasks[i] EXCEPT !.mapping = v])

-------------------------------------------------------------------------------
(* parse_task_file *)

ResumesRun(t) == t.calc = "neb" /\ t.path["resume"] # "absent"

Needed(t) ==
    IF ResumesRun(t) THEN {"resume"}
    ELSE IF t.calc = "neb" THEN {"initial", "final", "model"}
    ELSE {"structure", "model"}

\* Fields that contradict the calculation; a resume takes its endpoints and
\* its mapping from the checkpoint.
Excluded(t) ==
    IF ResumesRun(t) THEN {"structure", "initial", "final"}
    ELSE IF t.calc = "neb" THEN {"structure"}
    ELSE {"initial", "final", "resume"}

BadFields(t) ==
    \/ \E f \in Excluded(t) : t.path[f] # "absent"
    \/ t.mapping # "absent" /\ (t.calc # "neb" \/ ResumesRun(t))
    \/ t.mapping = "bad"
    \/ \E f \in Needed(t) : t.path[f] = "absent"
    \/ \E f \in PathFields \ {"output_dir"} : t.path[f] = "missing"

\* The backend is named by the task, or by the checkpoint of a resume, and never
\* by both with different names.
BadBackend(t) ==
    IF ResumesRun(t) THEN t.engine \notin {"absent", Recorded.engine} ELSE t.engine = "absent"

BackendOf(t) == IF t.engine = "absent" THEN Recorded.engine ELSE t.engine

\* _coerce_task_options.
Suits(t, option) ==
    CASE option = "fmax" -> t.calc \in {"opt", "neb"}
      [] option = "temperature" -> t.calc = "md"
      [] option = "head" -> BackendOf(t) = "mace"
      [] option = "neighbor_skin" -> BackendOf(t) = "grace"
      [] option = "write_outcar" -> t.calc # "neb"
      [] option = "inference_mode" -> TRUE
      [] OTHER -> FALSE

\* A bug that Conflicting must not have: the last of two spellings wins.
NeverConflicting(t) == FALSE

Conflicting(t) ==
    \E k, l \in DOMAIN t.options :
        Canonical(k) = Canonical(l) /\ t.options[k] # t.options[l]

BadOptions(t) ==
    \/ \E k \in DOMAIN t.options : ~Suits(t, Canonical(k)) \/ t.options[k] = "bad"
    \/ Conflicting(t)

\* A resume stays in its run's directory, which the file may name (here by its
\* absolute path).
Misplaced(t) == ResumesRun(t) /\ t.path["output_dir"] \in {"missing", "relative"}

Sound(t) == ~BadFields(t) /\ ~Misplaced(t) /\ ~BadBackend(t) /\ ~BadOptions(t)

ParseTasks ==
    /\ submission = "drafted"
    /\ submission' = IF tasks # << >> /\ \A i \in DOMAIN tasks : Sound(tasks[i])
                     THEN "queueing" ELSE "refused"
    /\ UNCHANGED <<tasks, amended, commands>>

-------------------------------------------------------------------------------
(* build_mliport_command and submit_task_file *)

\* _freeze_declared_path: the worker runs in a directory of its own, so a path
\* is resolved against the directory of the file.
Frozen(value) == IF value = "relative" THEN "beside the file" ELSE value

\* Options that build_mliport_command forwards to the engine at all.
Forwarded(option, engine) == option = "inference_mode" => engine = "uma"

Flags(t) ==
    LET cleaned == {Canonical(k) : k \in DOMAIN t.options}
    IN  [o \in {p \in cleaned : Forwarded(p, BackendOf(t))} |->
            t.options[CHOOSE k \in DOMAIN t.options : Canonical(k) = o]]

CommandOf(t) ==
    [calc |-> t.calc, engine |-> BackendOf(t), flags |-> Flags(t),
     device |-> IF t.device # "absent" THEN t.device
                ELSE IF ResumesRun(t) THEN Recorded.device ELSE "cpu",
     task |-> IF ResumesRun(t) THEN Recorded.task ELSE "absent",
     mapping |-> t.mapping,
     path |-> [f \in PathFields |->
        IF f = "model" /\ t.path[f] = "absent" THEN "recorded model"
        ELSE IF f = "output_dir" /\ ResumesRun(t) THEN "absent"
        ELSE IF f = "output_dir" /\ t.path[f] = "absent" THEN "results beside the file"
        ELSE Frozen(t.path[f])]]

EnqueueTask ==
    /\ submission = "queueing"
    /\ commands' = Append(commands, CommandOf(tasks[Len(commands) + 1]))
    /\ submission' = IF Len(commands') = Len(tasks) THEN "reported" ELSE submission
    /\ UNCHANGED <<tasks, amended>>

\* A job cannot be written (a full disk, a lock that times out): those before it
\* stay in the queue, and the user is told of an error only.
EnqueueBreaks ==
    /\ submission = "queueing" /\ submission' = "broken"
    /\ UNCHANGED <<tasks, amended, commands>>

TaskFileNext ==
    \/ \E kind \in {"opt", "md", "neb", "resume"}, engine \in EngineNames : Draft(kind, engine)
    \/ \E i \in DOMAIN tasks : AmendTask(i)
    \/ ParseTasks
    \/ EnqueueTask \/ EnqueueBreaks

TaskFileSpec == TaskFileInit /\ [][TaskFileNext]_taskVars

-------------------------------------------------------------------------------
(* Properties *)

TaskFileTypeOK ==
    /\ submission \in {"drafted", "queueing", "reported", "refused", "broken"}
    /\ Len(tasks) + amended <= MaxDraft /\ Len(commands) <= Len(tasks)

\* What the worker of a job will find in its command, asked of every field the
\* user filled in: the setting, and nothing that was not declared.  The mode of
\* UMA may be missing in a command for another backend (see NoOptionDropped).
CarriesOut(c, t) ==
    /\ c.calc = t.calc
    /\ t.engine # "absent" => c.engine = t.engine
    /\ t.device # "absent" => c.device = t.device
    /\ \A f \in PathFields \ {"output_dir"} :
          t.path[f] # "absent" => c.path[f] = Frozen(t.path[f])
    /\ \A k \in DOMAIN t.options :
          \/ Canonical(k) \in DOMAIN c.flags /\ c.flags[Canonical(k)] = t.options[k]
          \/ k = "inference_mode" /\ c.engine # "uma"
    /\ \A o \in DOMAIN c.flags : \E k \in DOMAIN t.options : Canonical(k) = o

\* A file is queued as a whole or not at all, up to a failing disk, and each job
\* does what its task declares: no path that its worker would look for elsewhere,
\* no option decided between two spellings, none dropped but the inference_mode
\* of another backend than UMA, no backend but the one that wrote the checkpoint
\* it resumes.
QueuedIsDeclared ==
    /\ submission \in {"drafted", "refused"} => commands = << >>
    /\ submission = "reported" => Len(commands) = Len(tasks)
    /\ \A i \in DOMAIN commands :
        /\ CarriesOut(commands[i], tasks[i])
        /\ ResumesRun(tasks[i]) => /\ commands[i].engine = Recorded.engine
                                /\ commands[i].path["output_dir"] = "absent"
        /\ \A f \in PathFields : commands[i].path[f] # "relative"
        /\ \A f \in PathFields \ {"output_dir"} : commands[i].path[f] # "missing"

\* docs/configuration.md:134-135: "Supplying a backend-specific option to a
\* different backend is an error under strict configuration; the option is never
\* silently dropped."  The code refuses some of them when it reads the file, but
\* leaves an inference_mode for another backend out of the command (queue.py:298-302).
NoOptionDropped ==
    \A i \in DOMAIN commands : \A k \in DOMAIN tasks[i].options :
        Canonical(k) \in DOMAIN commands[i].flags
===============================================================================
