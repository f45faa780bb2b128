-------------------------------- MODULE RunScreen --------------------------------
(***************************************************************************)
(* The run screen of the terminal interface (tui/run_screen.py): it queues *)
(* one job and follows it with a timer of half a second, over the record   *)
(* that scheduler, worker and other commands change meanwhile, and, for an *)
(* NEB job, over the artifacts.json of the engine.                         *)
(*                                                                         *)
(* What the others may do to the record is the projection of JobQueue to   *)
(* one job.                                                                *)
(***************************************************************************)
EXTENDS Naturals

CONSTANT MaxOpened    \* bound on the lines of the log

ASSUME ScreenAssumption == MaxOpened \in Nat

Settled == {"done", "not_converged", "failed", "cancelled"}

VARIABLES
    kind,        \* "plain" or "neb"
    job,         \* the status of the record; "none" before, "gone" after
    engine,      \* the status in artifacts.json; "none" without one
    logged,      \* the number of lines of the job's log
    mounted,     \* the screen is on display
    timer,       \* the refresh timer is running
    cancelOn,    \* the Cancel button is enabled
    text,        \* the status line
    displayed    \* the number of lines on display

screenVars == <<kind, job, engine, logged, mounted, timer, cancelOn, text, displayed>>
widgets == <<mounted, timer, cancelOn, text, displayed>>
outside == <<job, engine, logged>>

ScreenTypeOK ==
    /\ kind \in {"plain", "neb"}
    /\ job \in {"none", "pending", "paused", "claimed", "running", "gone"} \union Settled
    /\ engine \in {"none", "running", "completed", "not_converged", "failed", "cancelled"}
    /\ logged \in 0..MaxOpened /\ displayed \in 0..MaxOpened
    /\ mounted \in BOOLEAN /\ timer \in BOOLEAN /\ cancelOn \in BOOLEAN
    /\ text \in {"", "queued", "unqueued", "pending", "stage", "converged",
                 "finished"} \union Settled

ScreenInit ==
    /\ kind = "plain" /\ job = "none" /\ engine = "none" /\ logged = 0
    /\ mounted = FALSE /\ timer = FALSE /\ cancelOn = TRUE /\ text = "" /\ displayed = 0

-------------------------------------------------------------------------------
(* Scheduler, worker, engine and other commands *)

JobMoves ==
    /\ \E move \in {<<"pending", "claimed">>, <<"claimed", "running">>,
                    <<"claimed", "pending">>, <<"pending", "paused">>,
                    <<"paused", "pending">>} :
         job = move[1] /\ job' = move[2]
    /\ UNCHANGED <<kind, engine, logged, widgets>>

Failing == {"pending", "claimed", "running"}
Live == {"pending", "paused", "claimed", "running"}

\* The engine's verdict precedes the exit code; a killed engine leaves none.
JobEnds ==
    /\ \/ /\ job = "running"
          /\ job' \in IF kind = "plain" THEN Settled
                      ELSE CASE engine = "completed" -> {"done", "failed"}
                             [] engine \in Settled -> {engine, "failed"}
                             [] OTHER -> {"failed"}
       \/ job \in Failing /\ job' = "failed"
       \/ job \in Live /\ job' = "cancelled"
    /\ UNCHANGED <<kind, engine, logged, widgets>>

\* clean removes what has ended, delete_job whatever is not active.
JobRemoved ==
    /\ job \in Settled \union {"pending", "paused"}
    /\ job' = "gone" /\ logged' = 0
    /\ UNCHANGED <<kind, engine, widgets>>

\* An attempt may fail before it is announced, and a Ctrl-C after its last
\* write turns the verdict into a cancellation.
EngineMoves ==
    /\ kind = "neb" /\ job = "running"
    /\ \/ engine = "none" /\ engine' \in {"running", "failed", "cancelled"}
       \/ engine = "running"
          /\ engine' \in {"completed", "not_converged", "failed", "cancelled"}
       \/ engine \in {"completed", "not_converged"} /\ engine' = "cancelled"
    /\ UNCHANGED <<kind, job, logged, widgets>>

LogGrows ==
    /\ job = "running" /\ logged < MaxOpened
    /\ logged' = logged + 1
    /\ UNCHANGED <<kind, job, engine, widgets>>

-------------------------------------------------------------------------------
(* The screen *)

\* on_mount of a new screen: the structure is read, the command built and the
\* job enqueued; any exception leaves the screen without a job.
Mount ==
    /\ job = "none" /\ ~mounted
    /\ mounted' = TRUE /\ displayed' = 0
    /\ kind' \in {"plain", "neb"}
    /\ \/ job' = "pending" /\ text' = "queued" /\ timer' = TRUE /\ cancelOn' = TRUE
       \/ job' = "none" /\ text' = "unqueued" /\ timer' = FALSE /\ cancelOn' = FALSE
    /\ UNCHANGED <<engine, logged>>

\* _neb_result_summary
Summary ==
    CASE engine = "completed" -> "converged"
      [] engine \in Settled -> engine
      [] OTHER -> "finished"

\* A bug that EndsWatch must not have: a job that left the queue is over.
EndsEarly(status) == status \notin {"pending", "running", "not_converged"}

\* The statuses at which the timer is stopped.
EndsWatch(status) == status \in {"done", "failed", "cancelled"}

\* The status line after _refresh_job and, for an NEB job, _refresh_neb_status.
Line ==
    LET base == CASE job = "pending" -> "pending"
                  [] EndsWatch(job) -> IF job \in Settled THEN job ELSE "finished"
                  [] OTHER -> text
    IN  IF kind = "plain" \/ job = "pending" \/ engine = "none" THEN base
        ELSE IF job \in Settled THEN Summary ELSE "stage"

\* A bug that Refresh must not have: a failed job is only shown.
RefreshForgets ==
    /\ timer /\ displayed' = logged
    /\ IF job = "gone" THEN UNCHANGED <<timer, cancelOn, text>>
       ELSE /\ text' = Line
            /\ timer' = ~(job \in {"done", "cancelled"})
            /\ cancelOn' = (cancelOn /\ job \notin {"done", "cancelled"})
    /\ UNCHANGED <<kind, outside, mounted>>

\* _refresh_job, twice a second.
Refresh ==
    /\ timer /\ displayed' = logged
    /\ IF job = "gone" THEN UNCHANGED <<timer, cancelOn, text>>
       ELSE /\ text' = Line
            /\ timer' = ~EndsWatch(job)
            /\ cancelOn' = (cancelOn /\ ~EndsWatch(job))
    /\ UNCHANGED <<kind, outside, mounted>>

\* kill_job refuses when the job is over, and also when the PID of a running
\* one cannot be tied to its worker.
PressCancel ==
    /\ mounted /\ cancelOn /\ job # "none"
    /\ \/ /\ job \in Live /\ job' = "cancelled"
          /\ text' = "cancelled" /\ cancelOn' = FALSE
       \/ job \notin Live \ {"running"} /\ UNCHANGED <<job, text, cancelOn>>
    /\ UNCHANGED <<kind, engine, logged, mounted, timer, displayed>>

\* Back: the timer stops, the job goes on.
LeaveScreen ==
    /\ mounted
    /\ mounted' = FALSE /\ timer' = FALSE
    /\ UNCHANGED <<kind, outside, cancelOn, text, displayed>>

ScreenNext ==
    \/ JobMoves \/ JobEnds \/ JobRemoved \/ EngineMoves \/ LogGrows
    \/ Mount \/ Refresh \/ PressCancel \/ LeaveScreen

ScreenSpec == ScreenInit /\ [][ScreenNext]_screenVars

\* The timer of the interface fires; nothing else has to happen.
FairScreenSpec == ScreenSpec /\ WF_screenVars(Refresh)

-------------------------------------------------------------------------------
(* Properties *)

\* A screen that has stopped following its job shows how the job ended, until
\* the record is removed.
LastWordIsTrue ==
    mounted /\ ~timer /\ kind = "plain" /\ job \notin {"none", "gone"} => text = job

\* The screen of a job that has ended says so and stops polling.  A job that
\* did not converge is the exception: no branch of the code handles it.
ScreenSettles ==
    (timer /\ job \in {"done", "failed", "cancelled"}) ~> (~timer \/ job = "gone")

\* A docstring of run_status.py: every frontend must resolve a finished
\* calculation to exactly one outcome; the exception is not made.
EveryEndIsShown == (timer /\ job \in Settled) ~> (~timer \/ job = "gone")

===============================================================================
