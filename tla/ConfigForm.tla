------------------------------- MODULE ConfigForm -------------------------------
(***************************************************************************)
(* The configuration screens of the terminal interface (tui/app.py,        *)
(* main_screen.py, config_screen.py) up to the command line that the run   *)
(* screen queues.  One dictionary, app.config, outlives every screen; a    *)
(* screen is filled from it when it is composed and written back, stage by *)
(* stage, when Run is pressed.                                             *)
(*                                                                         *)
(* Of the sixty keys the model keeps those that behave differently: one    *)
(* per engine, per calculation type and per task, with "initial" for the   *)
(* value that the application starts with, "none" for None, "blank" for an *)
(* emptied field and "bad" for text that does not parse.                   *)
(***************************************************************************)
EXTENDS Naturals, FiniteSets

CONSTANTS
    MaxEdits,    \* bound on changes of widgets
    MaxVisits    \* bound on configuration screens opened

ASSUME FormAssumption == MaxEdits \in Nat /\ MaxVisits \in Nat

Engines == {"uma", "mace", "dpa", "grace"}
Calculations == {"sp", "opt", "md", "neb"}
Keys == {"model", "task", "charge", "inference", "head", "skin", "ensemble",
         "preRelax", "fmax", "resume", "final"}

\* What the user can give each widget.
Offered ==
    [model |-> Engines, task |-> {"omat", "omol", "bulk", "molecule"},
     charge |-> {"none", "set", "bad"}, inference |-> {"initial", "set"},
     head |-> {"none", "set"}, skin |-> {"initial", "set", "bad"},
     ensemble |-> {"NVT", "NVE"}, preRelax |-> {"on", "off"},
     fmax |-> {"blank", "initial", "set", "bad"},
     resume |-> {"none", "set"}, final |-> {"none", "set"}]

Values == {"none", "initial", "set", "bad", "blank", "on", "off", "NVT", "NVE",
           "omat", "omol", "bulk", "molecule"} \union Engines

VARIABLES
    screen,     \* the screen on top: "main", "config" or "run"
    calcType,   \* app.config["calc_type"]
    config,     \* the rest of app.config
    form,       \* what the widgets of the configuration screen hold
    touched,    \* history: the keys that the user has ever set
    command,    \* the options of the command line last queued: a function of keys
    edits, visits

formVars == <<screen, calcType, config, form, touched, command, edits, visits>>

FormTypeOK ==
    /\ screen \in {"main", "config", "run"} /\ calcType \in Calculations
    /\ config \in [Keys -> Values] /\ form \in [Keys -> Values]
    /\ touched \subseteq Keys /\ DOMAIN command \subseteq Keys
    /\ edits \in 0..MaxEdits /\ visits \in 0..MaxVisits
    /\ config["model"] \in Engines \union {"none"}
    /\ \A k \in Keys : config[k] # "bad" /\ config[k] # "blank"

\* MliportApp.__init__
StartConfig ==
    [k \in Keys |-> CASE k \in {"inference", "skin", "fmax"} -> "initial"
                      [] k = "ensemble" -> "NVT"
                      [] OTHER -> "none"]

FormInit ==
    /\ screen = "main" /\ calcType = "sp" /\ config = StartConfig /\ form = StartConfig
    /\ touched = {} /\ command = <<>> /\ edits = 0 /\ visits = 0

Molecular(task) == task \in {"omol", "molecule"}

TaskOptions(engine) ==
    IF engine = "uma" THEN {"omat", "omol"} ELSE {"bulk", "molecule"}

\* _default_task_value
DefaultTask(engine, current) ==
    IF current \in TaskOptions(engine) THEN current
    ELSE IF engine = "none" THEN "none"
    ELSE IF engine = "uma" THEN "omat" ELSE "bulk"

\* The default of the engine: it depends on the ensemble.
EnginePreRelax(ensemble) == IF ensemble = "NVE" THEN "off" ELSE "on"

\* compose and _calc_options
Composed(calc) ==
    [config EXCEPT
        !["task"] = DefaultTask(config["model"], @),
        !["preRelax"] = IF @ = "none" THEN EnginePreRelax(config["ensemble"]) ELSE @]

\* The widgets on display: _update_engine_option_states and its like.
Shown(k) ==
    CASE k = "charge" -> Molecular(form["task"])
      [] k = "inference" -> form["model"] = "uma"
      [] k = "head" -> form["model"] \in {"mace", "dpa"}
      [] k = "skin" -> form["model"] = "grace"
      [] k \in {"ensemble", "preRelax"} -> calcType = "md"
      [] k = "fmax" -> calcType \in {"opt", "neb"}
      [] k \in {"resume", "final"} -> calcType = "neb"
      [] OTHER -> TRUE

-------------------------------------------------------------------------------
\* on_list_view_selected: a fresh screen for the chosen type.
ChooseTask(calc) ==
    /\ screen = "main" /\ visits < MaxVisits
    /\ screen' = "config" /\ calcType' = calc /\ visits' = visits + 1
    /\ form' = Composed(calc)
    /\ UNCHANGED <<config, touched, command, edits>>

\* A change of one widget.  Choosing an engine writes to app.config at once
\* and sets the list of tasks.
Edit(k, value) ==
    /\ screen = "config" /\ edits < MaxEdits
    /\ Shown(k) /\ value # form[k]
    /\ k = "task" => value \in TaskOptions(form["model"]) /\ form["model"] # "none"
    /\ edits' = edits + 1 /\ touched' = touched \union {k}
    /\ IF k = "model"
       THEN /\ config' = [config EXCEPT !["model"] = value]
            /\ form' = [form EXCEPT !["model"] = value,
                                    !["task"] = DefaultTask(value, config["task"])]
       ELSE /\ form' = [form EXCEPT ![k] = value]
            /\ UNCHANGED config
    /\ UNCHANGED <<screen, calcType, command, visits>>

\* Back, on every screen.
GoBack ==
    /\ screen # "main"
    /\ screen' = IF screen = "run" THEN "config" ELSE "main"
    /\ UNCHANGED <<calcType, config, form, touched, command, edits, visits>>

-------------------------------------------------------------------------------
(* _save_and_run: each stage writes to app.config, and may refuse before.   *)

SaveFiles(c) == [c EXCEPT !["resume"] = IF calcType = "neb" THEN form["resume"] ELSE @]

SaveBackend(c) == [c EXCEPT !["model"] = form["model"], !["task"] = form["task"]]

SaveElectronic(c) ==
    [c EXCEPT !["charge"] = IF Molecular(form["task"]) THEN form["charge"] ELSE "none"]

SaveEngine(c) ==
    LET mine == {k \in {"inference", "head", "skin"} : Shown(k)}
    IN  [k \in Keys |-> IF k \in mine THEN form[k] ELSE c[k]]

SaveEnsemble(c) == IF calcType = "md" THEN [c EXCEPT !["ensemble"] = form["ensemble"]] ELSE c

\* A bug that SaveOptions must not have: a value once saved is not replaced.
SaveOnce(c) ==
    LET mine == {k \in {"preRelax", "fmax"} :
                    Shown(k) /\ form[k] \notin {"blank", "bad"} /\ c[k] = "none"}
    IN  [k \in Keys |-> IF k \in mine THEN form[k] ELSE c[k]]

\* A blank number of an NEB form, and an unreadable one of an optimisation,
\* leave what was saved before.
SaveOptions(c) ==
    LET mine == {k \in {"preRelax", "fmax"} : Shown(k) /\ form[k] \notin {"blank", "bad"}}
    IN  [k \in Keys |-> IF k \in mine THEN form[k] ELSE c[k]]

SaveEndpoints(c) ==
    IF calcType # "neb" THEN c
    ELSE [c EXCEPT !["final"] = IF form["resume"] = "set" THEN "none" ELSE form["final"]]

\* Saved[i] is app.config after i stages.
Saved ==
    LET files == SaveFiles(config)            backend == SaveBackend(files)
        electronic == SaveElectronic(backend) engine == SaveEngine(electronic)
        ensemble == SaveEnsemble(engine)      options == SaveOptions(ensemble)
    IN  [i \in 0..7 |->
           CASE i = 0 -> config     [] i = 1 -> files   [] i = 2 -> backend
             [] i = 3 -> electronic [] i = 4 -> engine  [] i = 5 -> ensemble
             [] i = 6 -> options    [] i = 7 -> SaveEndpoints(options)]

\* The refusals that depend on the fields of this model; any stage may also
\* refuse because of another field (a missing file, a bad device, ...).
Refuses(i) ==
    \/ i = 2 /\ form["model"] = "none"
    \/ i = 3 /\ Molecular(form["task"]) /\ form["charge"] = "bad"
    \/ i = 4 /\ form["model"] = "grace" /\ form["skin"] = "bad"
    \/ i = 6 /\ calcType = "neb" /\ form["fmax"] = "bad"
    \/ i = 7 /\ calcType = "neb" /\ form["resume"] = "none" /\ form["final"] = "none"

SaveRejected ==
    /\ screen = "config"
    /\ \E i \in 1..7 :
         /\ \A j \in 1..(i - 1) : ~Refuses(j)
         /\ config' = Saved[i - 1]
    /\ UNCHANGED <<screen, calcType, form, touched, command, edits, visits>>

\* The filter of build_mliport_command.
AcceptedBy(k, engine) ==
    CASE k = "inference" -> engine = "uma"
      [] k = "head" -> engine \in {"mace", "dpa"}
      [] k = "skin" -> engine = "grace"
      [] OTHER -> TRUE

\* RunScreen._build_command on app.config c: the keys that are not None, those
\* of this calculation only.  "model" stands for --model-type, which every
\* command has.
Collected(c) ==
    {k \in Keys :
        /\ c[k] # "none"
        /\ k \in {"ensemble", "preRelax"} => calcType = "md"
        /\ k = "fmax" => calcType \in {"opt", "neb"}
        /\ k \in {"resume", "final"} => calcType = "neb"
        /\ k \in {"task", "final"} => ~(calcType = "neb" /\ c["resume"] = "set")}

CommandLine(c) ==
    [k \in {x \in Collected(c) : AcceptedBy(x, c["model"])} |-> c[k]]

SaveAndRun ==
    /\ screen = "config"
    /\ \A j \in 1..7 : ~Refuses(j)
    /\ config' = Saved[7]
    /\ screen' = "run"
    /\ command' = CommandLine(Saved[7])
    /\ UNCHANGED <<calcType, form, touched, edits, visits>>

FormNext ==
    \/ \E calc \in Calculations : ChooseTask(calc)
    \/ \E k \in Keys : \E value \in Offered[k] : Edit(k, value)
    \/ GoBack \/ SaveRejected \/ SaveAndRun

FormSpec == FormInit /\ [][FormNext]_formVars

-------------------------------------------------------------------------------
(* Properties *)

\* A resumed NEB run takes these from its checkpoint: they are on display and
\* not in the command.
FromCheckpoint(k) == k \in {"task", "final"} /\ calcType = "neb" /\ form["resume"] = "set"

\* The command that is queued is the one on the screen, whatever was set up
\* before, saved or half saved: it has an option for every key that the screen
\* shows with a value, and for no other key (so for none of another engine,
\* of another calculation or of a hidden field), but for what a resumed NEB run
\* takes from its checkpoint; and each option has the value shown, unless that
\* is a number left blank or unreadable, which does not replace the number that
\* was saved before.
CommandIsTheForm ==
    screen = "run" =>
        /\ DOMAIN command = {k \in Keys : Shown(k) /\ form[k] # "none" /\ ~FromCheckpoint(k)}
        /\ \A k \in DOMAIN command : form[k] \notin {"blank", "bad"} => command[k] = form[k]

\* A comment of app.py: pre_relax has no TUI default, because a blanket one
\* "would make TUI-submitted NVE runs silently pre-relax while CLI/API runs
\* do not".  The code contradicts it when NVE is chosen on the screen; no run asks it.
ImplicitStaysImplicit ==
    screen = "run" /\ calcType = "md" /\ "preRelax" \notin touched
        /\ "preRelax" \in DOMAIN command
        => command["preRelax"] = EnginePreRelax(command["ensemble"])

=============================================================================
