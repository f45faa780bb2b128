-------------------------------- MODULE BatchRun --------------------------------
(***************************************************************************)
(* A batch of structures (BatchRunner, engine.run_batch, mliport batch):   *)
(* one model, the structures one after the other, a directory for each, a  *)
(* summary at the end.  An exception inside one structure is an entry of   *)
(* the summary and the batch goes on; an exception outside ends it.        *)
(*                                                                         *)
(* A file has a stem (its name without the last suffix) and a flat name    *)
(* (its whole name with every dot replaced); both are constants, because   *)
(* the properties only ask which names are equal.                          *)
(***************************************************************************)
EXTENDS Naturals, Sequences, SequencesExt, FiniteSets

CONSTANTS
    Inputs,        \* structure files, in sorted order: a sequence
    Stem, Flat,    \* the two names of a file
    MaxTrouble     \* bound on exceptions, Ctrl-C and kills

InputFiles == ToSet(Inputs)
Names == {Stem[f] : f \in InputFiles} \union {Flat[f] : f \in InputFiles}

ASSUME BatchAssumption ==
    /\ Inputs \in Seq(InputFiles) /\ IsInjective(Inputs)
    /\ InputFiles \subseteq DOMAIN Stem /\ DOMAIN Stem = DOMAIN Flat
    /\ MaxTrouble \in Nat

NoInput == "nobody"

VARIABLES
    batch,       \* the files of this batch, in order
    writeJson,   \* the write_json setting
    bpc,         \* where the batch is
    at,          \* index of the structure under way
    dirs,        \* dirs[n]: whose results directory n holds, what has become of its
                 \* files, and of mliport_results.json among them
    entries,     \* the results list: [file, success, dir]
    summary,     \* batch_summary.json
    bexit,       \* exit code of the command; 99 while it runs
    trouble

batchVars == <<batch, writeJson, bpc, at, dirs, entries, summary, bexit, trouble>>

BatchSteps == {"idle", "model", "read", "compute", "write", "stamp", "rewrite", "finish",
               "next", "summary", "closing", "timing", "retiming", "report", "over"}

\* "retiming": opened again by append_timing_to_outputs, and not finished.
FileStates == {"absent", "earlier", "torn", "retiming", "whole"}
Contents == [of : InputFiles \union {NoInput, "earlier"}, files : FileStates, json : FileStates]

BatchTypeOK ==
    /\ batch \in Seq(InputFiles) /\ IsInjective(batch)
    /\ writeJson \in BOOLEAN /\ bpc \in BatchSteps /\ at \in 0..(Len(Inputs) + 1)
    /\ dirs \in [Names -> Contents]
    /\ entries \in Seq([file : InputFiles, success : BOOLEAN, dir : Names])
    /\ Len(entries) <= Len(batch)
    /\ summary \in {"absent", "earlier", "torn", "whole"}
    /\ bexit \in {0, 1, 130, 137, 99} /\ trouble \in 0..MaxTrouble

BatchInit ==
    /\ batch = <<>> /\ writeJson = TRUE /\ bpc = "idle" /\ at = 0
    /\ dirs = [n \in Names |-> [of |-> NoInput, files |-> "absent", json |-> "absent"]]
    /\ entries = <<>> /\ summary = "absent" /\ bexit = 99 /\ trouble = 0

Trouble == trouble < MaxTrouble /\ trouble' = trouble + 1
BatchStep(p) == bpc' = p /\ UNCHANGED bexit
BatchEnds(code) == bpc' = "over" /\ bexit' = code

\* The stem, unless another file of the batch has the same.
OutputName(f) ==
    IF \E g \in ToSet(batch) \ {f} : Stem[g] = Stem[f] THEN Flat[f] ELSE Stem[f]

Current == batch[at]
Place == OutputName(Current)

-------------------------------------------------------------------------------
\* Some of the files, in the order of Inputs.
Precedes(f, g) == \E i, j \in DOMAIN Inputs : i < j /\ Inputs[i] = f /\ Inputs[j] = g
Listings ==
    {s \in UNION {[1..n -> InputFiles] : n \in 0..Len(Inputs)} :
        \A i, j \in DOMAIN s : i < j => Precedes(s[i], s[j])}

\* cmd_batch: the sorted files of the directory, some of Inputs; the output
\* directory is new or that of an earlier batch, which may have written no
\* JSON, or have ended before its summary.  No files: exit 1.
BeginBatch ==
    /\ bpc = "idle"
    /\ \E chosen \in Listings, left \in {"absent", "earlier"} :
       \E leftJson \in {"absent", left} :
         /\ batch' = chosen
         /\ dirs' = [n \in Names |-> [of |-> IF left = "absent" THEN NoInput ELSE "earlier",
                                      files |-> left, json |-> leftJson]]
         /\ summary' \in {"absent", leftJson}
         /\ IF chosen = <<>> THEN BatchEnds(1) ELSE BatchStep("model")
    /\ writeJson' \in BOOLEAN
    /\ at' = 1
    /\ UNCHANGED <<entries, trouble>>

ModelLoads ==
    /\ bpc = "model"
    /\ BatchStep("read")
    /\ UNCHANGED <<batch, writeJson, at, dirs, entries, summary, trouble>>

\* read, mkdir and the constructor of the runner.
ReadStructure ==
    /\ bpc = "read"
    /\ BatchStep("compute")
    /\ UNCHANGED <<batch, writeJson, at, dirs, entries, summary, trouble>>

\* What the runner leaves in its directory: the files, and of the JSON file
\* either the same or, if it does not write one, what was there.
Leave(state) ==
    dirs' = [dirs EXCEPT ![Place] = [of |-> Current, files |-> state,
                                     json |-> IF writeJson THEN state ELSE @.json]]

\* The runner's computation; the first output file is opened.
ComputeStructure ==
    /\ bpc = "compute"
    /\ BatchStep("write")
    /\ Leave("torn")
    /\ UNCHANGED <<batch, writeJson, at, entries, summary, trouble>>

WriteStructure ==
    /\ bpc = "write"
    /\ BatchStep("stamp")
    /\ Leave("whole")
    /\ UNCHANGED <<batch, writeJson, at, entries, summary, trouble>>

\* append_timing_to_outputs for the directory: a JSON file that is there, of
\* this run or of an earlier one, is read and written again in place.
OpenStamp ==
    /\ bpc = "stamp"
    /\ IF dirs[Place].json = "absent" THEN BatchStep("finish") /\ UNCHANGED dirs
       ELSE BatchStep("rewrite") /\ dirs' = [dirs EXCEPT ![Place].json = "retiming"]
    /\ UNCHANGED <<batch, writeJson, at, entries, summary, trouble>>

CloseStamp ==
    /\ bpc = "rewrite"
    /\ BatchStep("finish")
    /\ dirs' = [dirs EXCEPT ![Place].json = IF writeJson THEN "whole" ELSE "earlier"]
    /\ UNCHANGED <<batch, writeJson, at, entries, summary, trouble>>

\* execute logs a warning and goes on: the structure counts as a success.
StampFails ==
    /\ bpc \in {"stamp", "rewrite"}
    /\ Trouble
    /\ BatchStep("finish")
    /\ UNCHANGED <<batch, writeJson, at, dirs, entries, summary>>

AddEntry(success) ==
    entries' = Append(entries, [file |-> Current, success |-> success, dir |-> Place])

RecordSuccess ==
    /\ bpc = "finish"
    /\ BatchStep("next")
    /\ AddEntry(TRUE)
    /\ UNCHANGED <<batch, writeJson, at, dirs, summary, trouble>>

\* except Exception: the batch goes on.
StructureFails ==
    /\ bpc \in {"read", "compute", "write", "finish"}
    /\ Trouble
    /\ BatchStep("next")
    /\ AddEntry(FALSE)
    /\ UNCHANGED <<batch, writeJson, at, dirs, summary>>

\* A bug that NextStructure must not have: the first failure ends the batch.
StopAtFailure ==
    /\ bpc = "next"
    /\ at' = at + 1
    /\ BatchStep(IF at < Len(batch) /\ Last(entries).success THEN "read" ELSE "summary")
    /\ UNCHANGED <<batch, writeJson, dirs, entries, summary, trouble>>

NextStructure ==
    /\ bpc = "next"
    /\ at' = at + 1
    /\ BatchStep(IF at < Len(batch) THEN "read" ELSE "summary")
    /\ UNCHANGED <<batch, writeJson, dirs, entries, summary, trouble>>

\* _write_summary: json.dump into the opened file.
OpenSummary ==
    /\ bpc = "summary"
    /\ IF writeJson THEN BatchStep("closing") /\ summary' = "torn"
       ELSE BatchStep("timing") /\ UNCHANGED summary
    /\ UNCHANGED <<batch, writeJson, at, dirs, entries, trouble>>

CloseSummary ==
    /\ bpc = "closing"
    /\ BatchStep("timing")
    /\ summary' = "whole"
    /\ UNCHANGED <<batch, writeJson, at, dirs, entries, trouble>>

\* append_timing_to_outputs reads batch_summary.json and writes it again, in
\* place; an earlier summary too.
OpenTiming ==
    /\ bpc = "timing"
    /\ IF summary = "absent" THEN BatchStep("report") /\ UNCHANGED summary
       ELSE BatchStep("retiming") /\ summary' = "torn"
    /\ UNCHANGED <<batch, writeJson, at, dirs, entries, trouble>>

CloseTiming ==
    /\ bpc = "retiming"
    /\ BatchStep("report")
    /\ summary' = IF writeJson THEN "whole" ELSE "earlier"
    /\ UNCHANGED <<batch, writeJson, at, dirs, entries, trouble>>

ReportBatch ==
    /\ bpc = "report"
    /\ BatchEnds(IF \E i \in DOMAIN entries : ~entries[i].success THEN 1 ELSE 0)
    /\ UNCHANGED <<batch, writeJson, at, dirs, entries, summary, trouble>>

\* An exception outside the structures: the model, the summary, the timing.
BatchFails ==
    /\ bpc \in {"model", "summary", "closing", "timing", "retiming", "report"}
    /\ Trouble
    /\ BatchEnds(1)
    /\ UNCHANGED <<batch, writeJson, at, dirs, entries, summary>>

\* Ctrl-C is no Exception and reaches main; SIGKILL reaches nobody.
BatchInterrupted ==
    /\ bpc \notin {"idle", "over"}
    /\ Trouble
    /\ \E code \in {130, 137} : BatchEnds(code)
    /\ UNCHANGED <<batch, writeJson, at, dirs, entries, summary>>

BatchNext ==
    \/ BeginBatch \/ ModelLoads \/ ReadStructure \/ ComputeStructure \/ WriteStructure
    \/ OpenStamp \/ CloseStamp \/ StampFails \/ RecordSuccess \/ StructureFails \/ NextStructure
    \/ OpenSummary \/ CloseSummary \/ OpenTiming \/ CloseTiming \/ ReportBatch
    \/ BatchFails \/ BatchInterrupted

BatchSpec == BatchInit /\ [][BatchNext]_batchVars

-------------------------------------------------------------------------------
(* Properties *)

\* The directory was written to the end.  Its JSON file, if this batch writes
\* one, is whole, with one exception: appending the timing broke off and left
\* it torn, of which only the log of the structure tells.
Computed(n) ==
    /\ dirs[n].files = "whole"
    /\ writeJson => dirs[n].json \in {"whole", "retiming"}

\* A whole summary has an entry for every structure, whichever of them failed,
\* and a structure that it calls a success was computed: its results are in
\* the directory that the entry names.  A batch that exits with 0 has left
\* every structure its own results, and a whole summary if one was wanted.  The
\* results are whole but for the exception of Computed: neither the summary nor
\* the exit code tells of a JSON file torn by its timing.
SummaryIsTrue ==
    /\ summary = "whole" =>
         /\ [i \in DOMAIN entries |-> entries[i].file] = batch
         /\ \A i \in DOMAIN entries : entries[i].success => Computed(entries[i].dir)
    /\ bexit = 0 =>
         /\ \A f \in ToSet(batch) :
               Computed(OutputName(f)) /\ dirs[OutputName(f)].of = f
         /\ writeJson => summary = "whole"

\* docs/workflows/batch.md: one run directory per structure.  The code contradicts
\* it where a flat name is the stem of another file; no run asks it.
OwnDirectory ==
    \A i, j \in DOMAIN entries : i # j => entries[i].dir # entries[j].dir

=============================================================================
