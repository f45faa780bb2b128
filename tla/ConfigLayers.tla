----------------------------- MODULE ConfigLayers -----------------------------
(***************************************************************************)
(* The layered configuration (config/resolver.py, settings.py, aliases.py, *)
(* incar.py, schema.py) from the places where a user declares an option to *)
(* what the engine is given (engine.py).                                   *)
(*                                                                         *)
(* A declaration is a place, a key and a value; the values are reduced to  *)
(* what resolution can tell apart.  One key stands for each way in which   *)
(* an option reaches the engine: the backend, a field of the model, an     *)
(* option of one backend, of one calculation type and of the safety        *)
(* section, a switch of the resolver, and a misspelt key.                  *)
(***************************************************************************)
EXTENDS Naturals, FiniteSets, FiniteSetsExt, Functions

CONSTANT MaxDeclared    \* bound on the number of declarations

ASSUME LayersAssumption == MaxDeclared \in Nat

Backends == {"uma", "mace"}
OptionKeys == {"engine", "task", "dtype", "mode", "fmax", "guard", "strict", "typo"}

\* "bad" does not pass coerce or validate_value, "twice" is given under two
\* spellings with different values; what is blank counts as not declared.
OptionValues ==
    [engine |-> Backends, task |-> {"any", "umaOnly"}, dtype |-> {"any", "twice"},
     mode |-> {"default", "turbo"}, fmax |-> {"any", "bad"}, guard |-> {"any"},
     strict |-> {"false"}, typo |-> {"any"}]

\* Where an option can be declared, in the order in which the code merges.  The
\* settings files of user, project, environment and --settings are merged per
\* section and key before: "settings" is what they say outside [engine:...].
Places == <<"settings", "engine:uma", "engine:mace", "alias", "profile", "incar", "cli">>
PlaceSet == Range(Places)
Rank == [place \in PlaceSet |-> CHOOSE i \in DOMAIN Places : Places[i] = place]
SettingsPlaces == {Places[i] : i \in 1..3}
EnginePlace(engine) == IF engine = "uma" THEN "engine:uma" ELSE "engine:mace"

Declarations ==
    {d \in PlaceSet \X OptionKeys \X
           UNION {OptionValues[k] : k \in OptionKeys} : d[3] \in OptionValues[d[2]]}

VARIABLES
    calculation,  \* the calculation type: the subcommand, the caller or CALC_TYPE
    declared,     \* what is declared, at most one value for a place and a key
    resolved      \* the outcome: no answer yet, an error, or a configuration

layerVars == <<calculation, declared, resolved>>

Unresolved == [kind |-> "none"]
ConfigError == [kind |-> "error"]

LayersInit ==
    calculation \in {"opt", "md"} /\ declared = {} /\ resolved = Unresolved

\* The user writes an option into a settings file, an alias, a profile or an
\* INCAR, or gives it on the command line or to the API.  The order does not
\* matter; an engine comes first, since nothing resolves without one.
Declare(d) ==
    /\ resolved = Unresolved
    /\ declared = {} => d[2] = "engine"
    /\ Cardinality(declared) < MaxDeclared
    /\ \A e \in declared : e[1] # d[1] \/ e[2] # d[2]
    /\ declared' = declared \union {d}
    /\ UNCHANGED <<calculation, resolved>>

-------------------------------------------------------------------------------
(* Resolution *)

ValueAt(place, key) ==
    LET found == {d \in declared : d[1] = place /\ d[2] = key}
    IN  IF found = {} THEN "blank" ELSE (CHOOSE d \in found : TRUE)[3]

\* The ranks of those places that declare a key.  An alias that is selected always
\* supplies a task: its own, or the default of its engine.  A task that the engine
\* does not know is refused later.
RanksOf(places, key) ==
    {Rank[d[1]] : d \in {e \in declared : e[1] \in places /\ e[2] = key}}
      \union {Rank["alias"] : d \in {e \in declared : e[1] = "alias" /\ key = "task"}}

\* parse_model_aliases refuses an alias without an engine, whoever uses it.
BrokenAlias ==
    (\E d \in declared : d[1] = "alias") /\ ValueAt("alias", "engine") = "blank"

\* _canonicalize_layer: a bad value is fatal even where a higher layer would
\* replace it; two spellings are in conflict, except in the settings, which
\* are flattened before.
RefusedLayer(place) ==
    \E d \in declared :
        /\ d[1] = place
        /\ d[3] = "bad" \/ (d[3] = "twice" /\ place \notin SettingsPlaces)

\* A bug that Selected must not have: the engine of the command line is not
\* looked at before the section of the engine is chosen.
SelectedFromFiles ==
    LET naming == RanksOf(PlaceSet \ {"engine:uma", "engine:mace", "cli"}, "engine")
    IN  IF naming = {} THEN ValueAt("cli", "engine")
        ELSE ValueAt(Places[Max(naming)], "engine")

\* The engine named last before the sections of the engines are merged;
\* "blank" if nobody names one.
Selected ==
    LET naming == RanksOf(PlaceSet \ {"engine:uma", "engine:mace"}, "engine")
    IN  IF naming = {} THEN "blank" ELSE ValueAt(Places[Max(naming)], "engine")

\* The places that are merged: of the engine sections only the selected one.
Merged(engine) ==
    {p \in PlaceSet : p \in {"engine:uma", "engine:mace"} => p = EnginePlace(engine)}

\* Where the value of each key comes from after all merges.
Sources(merged) ==
    [key \in OptionKeys |->
        LET naming == RanksOf(merged, key)
        IN  IF naming = {} THEN "defaults" ELSE Places[Max(naming)]]

\* The merged value; the built-in one of strict is "true".
FinalValue(source, key) ==
    IF source[key] # "defaults" THEN ValueAt(source[key], key)
    ELSE IF key = "strict" THEN "true" ELSE "blank"

\* The source that is recorded for each key.  A backend other than UMA has no
\* mode, and one that was declared for it is recorded as a built-in default.
Provenance(source) ==
    [source EXCEPT !["mode"] =
        IF FinalValue(source, "engine") = "uma" THEN @ ELSE "defaults"]

\* The built-in defaults have an fmax for opt only, a dtype for mace only.
InSources(source, selected, key) ==
    \/ source[key] # "defaults"
    \/ key = "fmax" /\ calculation = "opt"
    \/ key = "dtype" /\ selected = "mace"

\* The reasons to refuse the merged configuration: an option of another engine
\* or calculation type (an engine section may have named another engine), the
\* mode of UMA given to another engine, an unknown key unless the user was
\* lenient, and (EngineConfig) a task that only UMA knows.
OutOfScope(source, selected) ==
    LET engine == FinalValue(source, "engine")
    IN  \/ engine # "mace" /\ InSources(source, selected, "dtype")
        \/ calculation # "opt" /\ InSources(source, selected, "fmax")
        \/ engine # "uma" /\ FinalValue(source, "mode") = "turbo"
        \/ FinalValue(source, "strict") = "true" /\ source["typo"] # "defaults"
        \/ engine # "uma" /\ FinalValue(source, "task") = "umaOnly"

\* _create_calculator: the mode is given to UMA only.
CalculatorOptions(source) ==
    {"dtype"} \union {key \in {"mode"} : FinalValue(source, "engine") = "uma"}

\* from_resolved copies the guard to the run options of md and neb;
\* _create_runner.
RunnerOptions == IF calculation = "md" THEN {"guard"} ELSE {"fmax"}

\* What of the declared keys takes effect in the calculator, the runner or the
\* engine.
Received(source) ==
    {key \in CalculatorOptions(source) \union RunnerOptions
                 \union {"engine", "task", "strict"} : source[key] # "defaults"}

\* resolve_config and EngineConfig.from_resolved.  Rules between the values of
\* md and neb options may refuse a configuration as well (_validate_resolved).
Resolve ==
    /\ resolved = Unresolved
    /\ \/ resolved' = ConfigError
       \/ \E selected \in {Selected} \ {"blank"} :
          \E source \in {Sources(Merged(selected))} :
            /\ ~BrokenAlias
            /\ \A place \in Merged(selected) : ~RefusedLayer(place)
            /\ ~OutOfScope(source, selected)
            /\ resolved' = [kind |-> "config", engine |-> FinalValue(source, "engine"),
                            source |-> Provenance(source),
                            received |-> Received(source)]
    /\ UNCHANGED <<calculation, declared>>

LayersNext == Resolve \/ \E d \in Declarations : Declare(d)

LayersSpec == LayersInit /\ [][LayersNext]_layerVars

-------------------------------------------------------------------------------
(* Properties *)

\* docs/configuration.md: settings < alias < profile < INCAR < command line.
DocumentedRank(place) == IF place \in SettingsPlaces THEN 1 ELSE Rank[place]

\* The declarations that count for the chosen engine, and those of a key in the
\* highest documented layer that declares it.
Counted ==
    {d \in declared :
        d[1] \notin {"engine:uma", "engine:mace"} \ {EnginePlace(resolved.engine)}}
Strongest(key) ==
    {d \in Counted : /\ d[2] = key
                     /\ \A e \in Counted :
                           e[2] = key => DocumentedRank(e[1]) <= DocumentedRank(d[1])}

\* Every option that is declared in a place that counts for the chosen engine
\* has its value from a declaration in the highest documented layer that declares
\* it, and takes effect: it is never dropped because it is misspelt (unless the
\* user was lenient), because it belongs to another engine or calculation, or
\* because a section of the wrong engine was read.  Not covered: a guard for a
\* calculation that has none, a mode that says "default" to an engine without
\* modes, files in which the section of one engine names another one, and the one
\* case in which the code departs from its documentation, a task of the settings
\* under an alias that declares none (see DocumentedPrecedence).
DeclaredTakesEffect ==
    /\ resolved.kind = "config"
    /\ \A engine \in Backends : ValueAt(EnginePlace(engine), "engine") \in {"blank", engine}
    =>  \A key \in {d[2] : d \in Counted} :
            \/ /\ \E d \in Strongest(key) : resolved.source[key] = d[1]
               /\ \/ key \in resolved.received
                  \/ key = "typo" /\ \E d \in Strongest("strict") : d[3] = "false"
                  \/ key = "guard" /\ calculation # "md"
            \/ key = "mode" /\ resolved.engine # "uma" /\ \E d \in Strongest(key) : d[3] = "default"
            \/ key = "task" /\ resolved.source[key] = "alias"
                 /\ \A d \in Strongest(key) : d[1] \in SettingsPlaces

\* docs/configuration.md:6-13 ranks built-in defaults below settings.ini: what
\* overrides an option of the settings is declared itself.  The code contradicts
\* it: an alias without a task supplies the default task of its engine in the
\* layer of the alias (aliases.py:100-105).
DocumentedPrecedence ==
    resolved.kind = "config" =>
        \A d \in declared :
            d[1] = "settings" /\ d[2] # "mode" =>
                \E e \in declared : e[2] = d[2] /\ e[1] = resolved.source[d[2]]
===============================================================================
