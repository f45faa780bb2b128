------------------------------- MODULE MDOutput -------------------------------
(***************************************************************************)
(* One molecular-dynamics run and its output: the MD thread, MDRunner.run  *)
(* (runners/md.py), which submits a frame every save_interval steps, and   *)
(* the writer thread of AsyncMDOutputWriter (runners/md_output.py), which  *)
(* takes the frames from a bounded queue and writes them.  The writer may  *)
(* fail at any write, the model at any step, a user may cancel, and the MD *)
(* thread may be upset at any point by Ctrl-C or by a message it cannot    *)
(* log or deliver.                                                         *)
(*                                                                         *)
(* A frame is the number of its MD step.                                   *)
(***************************************************************************)
EXTENDS Integers, Sequences

CONSTANTS
    TotalSteps,   \* total_steps: the observer sees steps 0..TotalSteps
    SaveInterval, \* save_interval
    QueueMax,     \* QUEUE_MAX_FRAMES
    MaxUpsets     \* bound on Ctrl-C and failed messages

ASSUME MDAssumption ==
    /\ TotalSteps \in Nat /\ SaveInterval \in Nat \ {0}
    /\ QueueMax \in Nat \ {0} /\ MaxUpsets \in Nat

Frames == 0..TotalSteps

VARIABLES
    pc,         \* where the MD thread is
    step,       \* dyn.nsteps
    unsafe,     \* the force threshold is exceeded at this step
    cause,      \* how the run ends: the status its handler will publish
    backstop,   \* in the finally block
    cancel,     \* the cancel event is set
    submitted,  \* history: the frames put into the queue, in order
    queue,      \* frames in the queue
    sealed,     \* the sentinel was put; nothing is put after it
    wpc,        \* where the writer thread is
    item,       \* the frame the writer has taken
    traj, csv,  \* trajectory.traj and md.csv; stats.count is Len(csv)
    werr,       \* the writer's _error is set
    manifest,   \* artifacts.json: [status, frames]
    outcome,    \* how run() ended: returned ("completed") or raised
    upsets

mdVars == <<pc, step, unsafe, cause, backstop>>
wVars  == <<wpc, item, traj, csv, werr>>
chan   == <<submitted, queue, sealed>>
ends   == <<manifest, outcome>>
vars   == <<mdVars, cancel, chan, wVars, ends, upsets>>

Init ==
    /\ pc = "start" /\ step = 0 /\ unsafe = FALSE /\ cause = "completed"
    /\ backstop = FALSE /\ cancel = FALSE
    /\ submitted = <<>> /\ queue = <<>> /\ sealed = FALSE
    /\ wpc = "none" /\ item = 0 /\ traj = <<>> /\ csv = <<>> /\ werr = FALSE
    /\ manifest \in {[status |-> s, frames |-> 0] : s \in {"none", "earlier"}}
    /\ outcome = "none" /\ upsets = 0

\* Faulty variant of Room: the queue is not bounded.
NoLimit == TRUE

Room == Len(queue) < QueueMax

Goto(p) == pc' = p /\ UNCHANGED <<step, unsafe, cause, backstop>>

\* Control passes to the except clause for c.
Handle(c) ==
    /\ pc' = "handler" /\ cause' = c
    /\ UNCHANGED <<step, unsafe, backstop>>

Over(o) == Goto("over") /\ outcome' = o

Publish(s) == manifest' = [status |-> s, frames |-> Len(csv)]

-------------------------------------------------------------------------------
(* The MD thread *)

Construct ==
    /\ pc = "start"
    /\ Goto("between") /\ wpc' = "open"
    /\ UNCHANGED <<cancel, chan, item, traj, csv, werr, ends, upsets>>

EnterTry ==
    /\ pc = "between"
    /\ Goto("observe")
    /\ UNCHANGED <<cancel, chan, wVars, ends, upsets>>

\* print_progress: a failed writer and a cancellation end the run.
Observe ==
    /\ pc = "observe"
    /\ IF werr THEN Handle("failed")
       ELSE IF cancel THEN Handle("cancelled")
       ELSE Goto("compute")
    /\ UNCHANGED <<cancel, chan, wVars, ends, upsets>>

\* The model's energy and forces, and the safety threshold.
Compute(exceeded) ==
    /\ pc = "compute"
    /\ unsafe' = exceeded
    /\ pc' = IF exceeded \/ step % SaveInterval = 0 THEN "submit" ELSE "advance"
    /\ UNCHANGED <<step, cause, backstop, cancel, chan, wVars, ends, upsets>>

ComputeFails ==
    /\ pc = "compute"
    /\ Handle("failed")
    /\ UNCHANGED <<cancel, chan, wVars, ends, upsets>>

\* Faulty variant of Submit: the writer's failure is not looked at.
SubmitBlindly ==
    /\ pc = "submit"
    /\ Goto("put")
    /\ UNCHANGED <<cancel, chan, wVars, ends, upsets>>

Submit ==
    /\ pc = "submit"
    /\ IF werr THEN Handle("failed") ELSE Goto("put")
    /\ UNCHANGED <<cancel, chan, wVars, ends, upsets>>

Put ==
    /\ pc = "put" /\ Room
    /\ submitted' = Append(submitted, step) /\ queue' = Append(queue, step)
    /\ Goto("advance")
    /\ UNCHANGED <<cancel, sealed, wVars, ends, upsets>>

\* Faulty variant of PutFull: a frame that finds the queue full is dropped.
PutDrops ==
    /\ pc = "put" /\ ~Room
    /\ submitted' = Append(submitted, step)
    /\ Goto("advance")
    /\ UNCHANGED <<cancel, queue, sealed, wVars, ends, upsets>>

\* The put times out after 0.1 s.
PutFull ==
    /\ pc = "put" /\ ~Room
    /\ Goto("submit")
    /\ UNCHANGED <<cancel, chan, wVars, ends, upsets>>

Advance ==
    /\ pc = "advance"
    /\ \/ unsafe /\ Handle("aborted")
       \/ ~unsafe /\ step = TotalSteps /\ Goto("finished")
       \/ /\ ~unsafe /\ step < TotalSteps
          /\ pc' = "observe" /\ step' = step + 1
          /\ UNCHANGED <<unsafe, cause, backstop>>
    /\ UNCHANGED <<cancel, chan, wVars, ends, upsets>>

\* close_output_stream sets output_closed and calls close; an earlier failure
\* goes straight to the join.
BeginClose ==
    /\ pc \in {"finished", "handler", "backstop"}
    /\ Goto(IF werr THEN "join" ELSE "seal")
    /\ UNCHANGED <<cancel, chan, wVars, ends, upsets>>

Seal ==
    /\ pc = "seal"
    /\ Goto(IF werr THEN "broken" ELSE "putSentinel")
    /\ UNCHANGED <<cancel, chan, wVars, ends, upsets>>

PutSentinel ==
    /\ pc = "putSentinel" /\ Room
    /\ sealed' = TRUE /\ Goto("join")
    /\ UNCHANGED <<cancel, submitted, queue, wVars, ends, upsets>>

SentinelFull ==
    /\ pc = "putSentinel" /\ ~Room
    /\ Goto("seal")
    /\ UNCHANGED <<cancel, chan, wVars, ends, upsets>>

\* Faulty variant of Join: the wait for the writer is bounded.
JoinBriefly ==
    /\ pc = "join"
    /\ Goto(IF werr THEN "broken" ELSE "drained")
    /\ UNCHANGED <<cancel, chan, wVars, ends, upsets>>

\* Faulty variant of Join: the writer's failure is not raised again.
JoinOnly ==
    /\ pc = "join" /\ wpc = "dead"
    /\ Goto("drained")
    /\ UNCHANGED <<cancel, chan, wVars, ends, upsets>>

Join ==
    /\ pc = "join" /\ wpc = "dead"
    /\ Goto(IF werr THEN "broken" ELSE "drained")
    /\ UNCHANGED <<cancel, chan, wVars, ends, upsets>>

\* close raised: OUTCAR and manifest end as failed, and so does the run, but
\* the finally block swallows the exception.
Broken ==
    /\ pc = "broken"
    /\ Publish("failed")
    /\ IF backstop THEN Goto("drained") /\ UNCHANGED outcome ELSE Over("failed")
    /\ UNCHANGED <<cancel, chan, wVars, upsets>>

\* The end of an except clause, or of the finally block.
Report ==
    /\ pc = "drained" /\ cause # "completed"
    /\ Publish(cause) /\ Over(cause)
    /\ UNCHANGED <<cancel, chan, wVars, upsets>>

\* The final structure is evaluated; results, then the manifest are written.
Complete ==
    /\ pc = "drained" /\ cause = "completed"
    /\ Publish("completed") /\ Goto("summary")
    /\ UNCHANGED <<cancel, chan, wVars, outcome, upsets>>

\* CONTCAR, OUTCAR, results or manifest cannot be written, or the final state
\* is refused.  The finally block suppresses a manifest that cannot be written.
CompleteFails ==
    /\ pc = "drained"
    /\ \/ Over("failed")
       \/ backstop /\ Over(cause)
    /\ UNCHANGED <<cancel, chan, wVars, manifest, upsets>>

Return ==
    /\ pc = "summary"
    /\ Over("completed")
    /\ UNCHANGED <<cancel, chan, wVars, manifest, upsets>>

-------------------------------------------------------------------------------
(* Ctrl-C ("cancelled") and messages that raise ("failed") *)

InTry   == {"observe", "compute", "submit", "put", "advance"}
Outside == {"between", "finished", "backstop", "seal", "putSentinel", "join",
            "broken", "drained", "summary"}
Loud    == {"between", "backstop", "broken", "summary"} \* where messages are sent

\* In the try an except clause is entered; in an except clause that has not
\* closed the output the finally block closes it, and goes on when reporting
\* the writer's failure fails; nothing guards the rest.
Upset(kind) ==
    /\ upsets < MaxUpsets /\ upsets' = upsets + 1
    /\ \/ pc \in InTry /\ Handle(kind) /\ UNCHANGED outcome
       \/ /\ pc = "handler"
          /\ pc' = "backstop" /\ cause' = kind /\ backstop' = TRUE
          /\ UNCHANGED <<step, unsafe, outcome>>
       \/ /\ pc = "broken" /\ backstop /\ kind = "failed"
          /\ Goto("drained") /\ UNCHANGED outcome
       \/ /\ pc \in Outside /\ (kind = "failed" => pc \in Loud)
          /\ ~(pc = "broken" /\ backstop /\ kind = "failed")
          /\ Over(kind)
    /\ UNCHANGED <<cancel, chan, wVars, manifest>>

Cancel ==
    /\ ~cancel /\ pc # "over"
    /\ cancel' = TRUE
    /\ UNCHANGED <<mdVars, chan, wVars, ends, upsets>>

-------------------------------------------------------------------------------
(* The writer thread *)

OpenFiles ==
    /\ wpc = "open"
    /\ wpc' = "get"
    /\ UNCHANGED <<mdVars, cancel, chan, item, traj, csv, werr, ends, upsets>>

Take ==
    /\ wpc = "get" /\ queue # <<>>
    /\ item' = Head(queue) /\ queue' = Tail(queue)
    /\ wpc' = "traj"
    /\ UNCHANGED <<mdVars, cancel, submitted, sealed, traj, csv, werr, ends, upsets>>

TakeSentinel ==
    /\ wpc = "get" /\ queue = <<>> /\ sealed
    /\ wpc' = "close"
    /\ UNCHANGED <<mdVars, cancel, chan, item, traj, csv, werr, ends, upsets>>

WriteFrame ==
    /\ wpc = "traj"
    /\ traj' = Append(traj, item)
    /\ wpc' = "row"
    /\ UNCHANGED <<mdVars, cancel, chan, item, csv, werr, ends, upsets>>

WriteRow ==
    /\ wpc = "row"
    /\ csv' = Append(csv, item)
    /\ wpc' = "text"
    /\ UNCHANGED <<mdVars, cancel, chan, item, traj, werr, ends, upsets>>

\* XDATCAR, OUTCAR and the periodic flush.
WriteText ==
    /\ wpc = "text"
    /\ wpc' = "get"
    /\ UNCHANGED <<mdVars, cancel, chan, item, traj, csv, werr, ends, upsets>>

\* Any exception is kept for the MD thread.
WriterFails ==
    /\ wpc \in {"open", "traj", "row", "text"}
    /\ werr' = TRUE /\ wpc' = "close"
    /\ UNCHANGED <<mdVars, cancel, chan, item, traj, csv, ends, upsets>>

\* The finally block closes every file; closing may fail too.
CloseFiles(fails) ==
    /\ wpc = "close"
    /\ wpc' = "dead" /\ werr' = (werr \/ fails)
    /\ UNCHANGED <<mdVars, cancel, chan, item, traj, csv, ends, upsets>>

MDStep ==
    \/ Construct \/ EnterTry \/ Observe \/ ComputeFails
    \/ (\E b \in BOOLEAN : Compute(b))
    \/ Submit \/ Put \/ PutFull \/ Advance
    \/ BeginClose \/ Seal \/ PutSentinel \/ SentinelFull \/ Join \/ Broken
    \/ Report \/ Complete \/ CompleteFails \/ Return

WriterStep ==
    \/ OpenFiles \/ Take \/ TakeSentinel \/ WriteFrame \/ WriteRow \/ WriteText
    \/ WriterFails \/ (\E b \in BOOLEAN : CloseFiles(b))

Next ==
    \/ MDStep \/ WriterStep \/ Cancel
    \/ \E kind \in {"cancelled", "failed"} : Upset(kind)

Spec == Init /\ [][Next]_vars

\* Both threads run.
FairSpec == Spec /\ WF_vars(MDStep) /\ WF_vars(WriterStep)

-------------------------------------------------------------------------------
(* Properties *)

Causes == {"completed", "aborted", "cancelled", "failed"}

\* Type invariant.
TypeOK ==
    /\ pc \in {"start", "handler", "over"} \cup InTry \cup Outside
    /\ step \in Frames /\ unsafe \in BOOLEAN /\ cause \in Causes
    /\ backstop \in BOOLEAN /\ cancel \in BOOLEAN
    /\ submitted \in Seq(Frames) /\ queue \in Seq(Frames)
    /\ Len(queue) <= QueueMax /\ sealed \in BOOLEAN
    /\ wpc \in {"none", "open", "get", "traj", "row", "text", "close", "dead"}
    /\ item \in Frames /\ traj \in Seq(Frames) /\ csv \in Seq(Frames)
    /\ werr \in BOOLEAN
    /\ manifest \in [status : Causes \cup {"none", "earlier"}, frames : Nat]
    /\ outcome \in Causes \cup {"none"}
    /\ upsets \in 0..MaxUpsets

\* The frame the writer has taken but not yet written to a file.
Held(places) == IF wpc \in places THEN <<item>> ELSE <<>>

\* Until the writer fails, every frame that was submitted is in the file, in
\* the writer's hand or in the queue, once and in order.
NothingDropped ==
    ~werr => /\ csv \o Held({"traj", "row"}) \o queue = submitted
             /\ traj \o Held({"traj"}) \o queue = submitted

\* The frames of a run that was not cut short.
AllFrames ==
    [i \in 1..((TotalSteps \div SaveInterval) + 1) |-> (i - 1) * SaveInterval]

\* A run that returns, or says completed in its manifest, has written every
\* frame to both files, and they are closed without an error.
CompletedIsComplete ==
    (outcome = "completed" \/ manifest.status = "completed") =>
        /\ traj = AllFrames /\ csv = AllFrames
        /\ wpc = "dead" /\ ~werr

\* The number of frames a manifest gives is the number of rows in md.csv, and
\* stays it: nothing is written after the run was reported.
ManifestCountsFrames ==
    manifest.status \in Causes => manifest.frames = Len(csv)

\* Whatever fails, the MD thread and the writer thread both end; a failed or
\* slow writer never blocks the MD thread for ever (for a run that no Ctrl-C and
\* no failed message upsets; AlwaysDrained is about those).
EveryoneEnds == [](upsets = 0) => <>[](pc = "over" /\ wpc = "dead")

\* runners/md.py: "the non-daemon writer thread must always be drained".  When
\* a run that entered an except clause is over, the writer has ended or will.
AlwaysDrained ==
    (pc = "over" /\ cause # "completed") => sealed \/ wpc \in {"close", "dead"}
===============================================================================
