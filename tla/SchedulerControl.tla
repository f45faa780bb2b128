--------------------------- MODULE SchedulerControl ---------------------------
(***************************************************************************)
(* How a queue scheduler is started, stopped and asked about: the advisory *)
(* lock scheduler.lock, the PID written into it, the file scheduler.pid,   *)
(* and the processes that use them (queue.py, queue_daemon.py, the queue   *)
(* commands of cli.py, the jobs screen).                                   *)
(*                                                                         *)
(* flock belongs to an open file description.  A starter passes its        *)
(* description to the daemon, so both hold the same lock: lockHolders is   *)
(* the set of processes that have the locked description open.  LOCK_UN    *)
(* by any of them frees the lock; a close only removes the closer.         *)
(*                                                                         *)
(* A process is named by its PID; PIDs are handed out in increasing order  *)
(* and not reused.  What a scheduler does inside run_once is JobQueue.      *)
(***************************************************************************)
EXTENDS Naturals, FiniteSets

CONSTANTS
    Proc,       \* PIDs of the commands and of the daemons they spawn
    NoProc,     \* no PID: an empty lock file, a missing PID file
    MaxFaults   \* bound on exceptions of control-file writes and on kills

ASSUME ControlAssumption ==
    /\ Proc \subseteq Nat
    /\ NoProc \notin Proc
    /\ MaxFaults \in Nat

VARIABLES
    lockHolders,    \* the processes with the locked description open
    lockText,       \* the PID written in scheduler.lock
    pidFile,        \* the PID in scheduler.pid
    ctl,            \* ctl[p]: where process p is
    child,          \* child[p]: the daemon that starter p has spawned
    told,           \* schedulers whose stop flag SIGTERM or Ctrl-C has set
    seen,           \* seen[p]: the PID that p has read from scheduler.pid
    answer,         \* answer[p]: the PID that a status command reports
    faults

controlVars == <<lockHolders, lockText, pidFile, ctl, child, told, seen, answer, faults>>

StarterSteps == {"spawn", "truncate", "text", "publish", "handOver", "wait"}
ForegroundSteps == {"fgTruncate", "fgText", "fgPublish", "fgLoop", "fgClean", "fgUnlock"}
StopSteps == {"stopRelease", "sweep", "stopRead", "stopCheck", "unlink", "signal"}
StatusSteps == {"askRelease", "askRead", "askCheck", "askAlive"}
DaemonSteps == {"boot", "loop"}
Ended == {"unused", "refused", "failed", "done", "dead"}

ControlTypeOK ==
    /\ lockHolders \subseteq Proc
    /\ lockText \in Proc \union {NoProc}
    /\ pidFile \in Proc \union {NoProc}
    /\ ctl \in [Proc -> StarterSteps \union ForegroundSteps \union StopSteps
                            \union StatusSteps \union DaemonSteps \union Ended]
    /\ child \in [Proc -> Proc \union {NoProc}]
    /\ told \subseteq Proc
    /\ seen \in [Proc -> Proc \union {NoProc}]
    /\ answer \in [Proc -> Proc \union {NoProc}]
    /\ faults \in 0..MaxFaults

ControlInit ==
    /\ lockHolders = {}
    /\ lockText = NoProc
    /\ pidFile = NoProc
    /\ ctl = [p \in Proc |-> "unused"]
    /\ child = [p \in Proc |-> NoProc]
    /\ told = {}
    /\ seen = [p \in Proc |-> NoProc]
    /\ answer = [p \in Proc |-> NoProc]
    /\ faults = 0

Alive(p) == ctl[p] \notin Ended

\* The processes that may dispatch jobs.
Schedulers == {p \in Proc : ctl[p] \in {"loop", "fgLoop"}}

\* The next process that can be created.
NextPid(p) ==
    /\ ctl[p] = "unused"
    /\ \A q \in Proc : ctl[q] = "unused" => p <= q

GoTo(p, where) == ctl' = [ctl EXCEPT ![p] = where]

Fault == /\ faults < MaxFaults
         /\ faults' = faults + 1

-------------------------------------------------------------------------------
(* start_scheduler: lock, spawn, write both PIDs, close the own descriptor. *)

StartTry(p) ==
    /\ NextPid(p)
    /\ IF lockHolders = {}
       THEN GoTo(p, "spawn") /\ lockHolders' = {p}
       ELSE GoTo(p, "refused") /\ UNCHANGED lockHolders
    /\ UNCHANGED <<lockText, pidFile, child, told, seen, answer, faults>>

\* The daemon inherits the locked description before it has run a line.
SpawnDaemon(p) ==
    /\ ctl[p] = "spawn"
    /\ \E d \in Proc :
         /\ NextPid(d)
         /\ ctl' = [ctl EXCEPT ![p] = "truncate", ![d] = "boot"]
         /\ child' = [child EXCEPT ![p] = d]
         /\ lockHolders' = lockHolders \union {d}
    /\ UNCHANGED <<lockText, pidFile, told, seen, answer, faults>>

Truncate(p) ==
    /\ \/ ctl[p] = "truncate" /\ GoTo(p, "text")
       \/ ctl[p] = "fgTruncate" /\ GoTo(p, "fgText")
    /\ lockText' = NoProc
    /\ UNCHANGED <<lockHolders, pidFile, child, told, seen, answer, faults>>

WriteLockText(p) ==
    /\ \/ ctl[p] = "text" /\ GoTo(p, "publish") /\ lockText' = child[p]
       \/ ctl[p] = "fgText" /\ GoTo(p, "fgPublish") /\ lockText' = p
    /\ UNCHANGED <<lockHolders, pidFile, child, told, seen, answer, faults>>

\* _atomic_write_text.
PublishPid(p) ==
    /\ \/ ctl[p] = "publish" /\ GoTo(p, "handOver") /\ pidFile' = child[p]
       \/ ctl[p] = "fgPublish" /\ GoTo(p, "fgLoop") /\ pidFile' = p
    /\ UNCHANGED <<lockHolders, lockText, child, told, seen, answer, faults>>

\* A bug that HandOver must not have: unlock instead of close.
UnlockInstead(p) ==
    /\ ctl[p] = "handOver"
    /\ GoTo(p, "done")
    /\ lockHolders' = {}
    /\ UNCHANGED <<lockText, pidFile, child, told, seen, answer, faults>>

\* lock_handle.close(): the daemon keeps the lock.
HandOver(p) ==
    /\ ctl[p] = "handOver"
    /\ GoTo(p, "done")
    /\ lockHolders' = lockHolders \ {p}
    /\ UNCHANGED <<lockText, pidFile, child, told, seen, answer, faults>>

\* SIGTERM: the default action until the daemon has installed its handler and
\* in a foreground scheduler, a stop flag afterwards, nothing for a process
\* that is gone.
Terminate(x) ==
    CASE x \in Proc /\ ctl[x] = "loop" -> told' = told \union {x}
      [] OTHER -> UNCHANGED told

\* A bug that DiesOfTerm must not have: SIGTERM is blocked while Python boots.
DiesWhenReady(x) == ctl[x] \in ForegroundSteps

DiesOfTerm(x) == ctl[x] \in {"boot"} \union ForegroundSteps

\* A control file could not be written (or the spawn failed): stop the child.
StartError(p) ==
    /\ Fault
    /\ \/ /\ ctl[p] = "spawn"
          /\ GoTo(p, "failed")
          /\ lockHolders' = {}
          /\ UNCHANGED told
       \/ /\ ctl[p] \in {"truncate", "text", "publish", "handOver"}
          /\ LET d == child[p]
                 killed == IF DiesOfTerm(d) THEN {d} ELSE {}
             IN  /\ Terminate(d)
                 /\ ctl' = [x \in Proc |-> CASE x = p -> "wait"
                                             [] x \in killed -> "dead"
                                             [] OTHER -> ctl[x]]
                 /\ lockHolders' = lockHolders \ killed
    /\ UNCHANGED <<lockText, pidFile, child, seen, answer>>

\* A bug that WaitForChild must not have: give up after the first five seconds.
WaitOnce(p) ==
    /\ ctl[p] = "wait"
    /\ GoTo(p, "failed")
    /\ lockHolders' = {}
    /\ UNCHANGED <<lockText, pidFile, child, told, seen, answer, faults>>

\* Five seconds for the SIGTERM, then SIGKILL; the lock is freed afterwards.
WaitForChild(p) ==
    /\ ctl[p] = "wait"
    /\ ctl' = [ctl EXCEPT ![p] = "failed", ![child[p]] = "dead"]
    /\ lockHolders' = {}
    /\ UNCHANGED <<lockText, pidFile, child, told, seen, answer, faults>>

-------------------------------------------------------------------------------
(* The daemon (queue_daemon.main) and the foreground scheduler (run_forever). *)

InstallHandlers(d) ==
    /\ ctl[d] = "boot"
    /\ GoTo(d, "loop")
    /\ UNCHANGED <<lockHolders, lockText, pidFile, child, told, seen, answer, faults>>

\* The loop sees its stop flag; main closes the inherited descriptor.
LoopEnds(d) ==
    /\ ctl[d] = "loop"
    /\ d \in told
    /\ GoTo(d, "dead")
    /\ lockHolders' = lockHolders \ {d}
    /\ UNCHANGED <<lockText, pidFile, child, told, seen, answer, faults>>

ForegroundTry(p) ==
    /\ NextPid(p)
    /\ IF lockHolders = {}
       THEN GoTo(p, "fgTruncate") /\ lockHolders' = {p}
       ELSE GoTo(p, "refused") /\ UNCHANGED lockHolders
    /\ UNCHANGED <<lockText, pidFile, child, told, seen, answer, faults>>

\* Ctrl-C in the loop; an exception in the loop or in the writes before it.
ForegroundEnds(p) ==
    /\ \/ ctl[p] = "fgLoop" /\ UNCHANGED faults
       \/ ctl[p] \in {"fgTruncate", "fgText", "fgPublish"} /\ Fault
    /\ GoTo(p, "fgClean")
    /\ UNCHANGED <<lockHolders, lockText, pidFile, child, told, seen, answer>>

ForegroundCleans(p) ==
    /\ \/ ctl[p] = "fgClean" /\ GoTo(p, "fgUnlock") /\ UNCHANGED lockHolders
          /\ pidFile' = IF lockText = p THEN NoProc ELSE pidFile
       \/ ctl[p] = "fgUnlock" /\ GoTo(p, "dead") /\ lockHolders' = {}
          /\ UNCHANGED pidFile
    /\ UNCHANGED <<lockText, child, told, seen, answer, faults>>

\* SIGKILL, a power cycle of one process, or an exception that ends the daemon.
Killed(p) ==
    /\ Alive(p)
    /\ Fault
    /\ GoTo(p, "dead")
    /\ lockHolders' = lockHolders \ {p}
    /\ UNCHANGED <<lockText, pidFile, child, told, seen, answer>>

-------------------------------------------------------------------------------
(* stop_scheduler and scheduler_status.                                     *)

\* _scheduler_lock_held takes the lock when it is free; Release gives it back.
Probe(p) ==
    /\ NextPid(p)
    /\ \E free \in {"stopRelease", "askRelease"} :
         IF lockHolders = {}
         THEN GoTo(p, free) /\ lockHolders' = {p}
         ELSE /\ GoTo(p, IF free = "stopRelease" THEN "stopRead" ELSE "askRead")
              /\ UNCHANGED lockHolders
    /\ UNCHANGED <<lockText, pidFile, child, told, seen, answer, faults>>

Release(p) ==
    /\ \/ ctl[p] = "stopRelease" /\ GoTo(p, "sweep")
       \/ ctl[p] = "askRelease" /\ GoTo(p, "done")
    /\ lockHolders' = {}
    /\ UNCHANGED <<lockText, pidFile, child, told, seen, answer, faults>>

\* stop found the lock free: whatever PID file there is now is removed.
Sweep(p) ==
    /\ ctl[p] = "sweep"
    /\ GoTo(p, "done")
    /\ pidFile' = NoProc
    /\ UNCHANGED <<lockHolders, lockText, child, told, seen, answer, faults>>

ReadPid(p) ==
    /\ \E move \in {<<"stopRead", "stopCheck">>, <<"askRead", "askCheck">>} :
         /\ ctl[p] = move[1]
         /\ GoTo(p, IF pidFile = NoProc THEN "done" ELSE move[2])
    /\ seen' = [seen EXCEPT ![p] = pidFile]
    /\ UNCHANGED <<lockHolders, lockText, pidFile, child, told, answer, faults>>

\* _scheduler_lock_owner
CheckOwner(p) ==
    /\ \E move \in {<<"stopCheck", "unlink">>, <<"askCheck", "askAlive">>} :
         /\ ctl[p] = move[1]
         /\ GoTo(p, IF lockText = seen[p] THEN move[2] ELSE "done")
    /\ UNCHANGED <<lockHolders, lockText, pidFile, child, told, seen, answer, faults>>

UnlinkPid(p) ==
    /\ ctl[p] = "unlink"
    /\ GoTo(p, "signal")
    /\ pidFile' = NoProc
    /\ UNCHANGED <<lockHolders, lockText, child, told, seen, answer, faults>>

SignalScheduler(p) ==
    /\ ctl[p] = "signal"
    /\ LET x == seen[p]
           killed == IF DiesOfTerm(x) THEN {x} ELSE {}
       IN  /\ Terminate(x)
           /\ ctl' = [q \in Proc |-> CASE q = p -> "done"
                                       [] q \in killed -> "dead"
                                       [] OTHER -> ctl[q]]
           /\ lockHolders' = lockHolders \ killed
    /\ UNCHANGED <<lockText, pidFile, child, seen, answer, faults>>

\* A bug that AnswerStatus must not have: the PIDs agree, so it must be alive.
AnswerUnseen(p) ==
    /\ ctl[p] = "askAlive"
    /\ GoTo(p, "done")
    /\ answer' = [answer EXCEPT ![p] = seen[p]]
    /\ UNCHANGED <<lockHolders, lockText, pidFile, child, told, seen, faults>>

\* _pid_alive, and the answer of scheduler_status.
AnswerStatus(p) ==
    /\ ctl[p] = "askAlive"
    /\ GoTo(p, "done")
    /\ answer' = [answer EXCEPT ![p] = IF Alive(seen[p]) THEN seen[p] ELSE NoProc]
    /\ UNCHANGED <<lockHolders, lockText, pidFile, child, told, seen, faults>>

-------------------------------------------------------------------------------
\* What mliport queue start, stop and status begin with.
QueueCommand(p) == StartTry(p) \/ ForegroundTry(p) \/ Probe(p)

StartStep(p) ==
    \/ SpawnDaemon(p) \/ Truncate(p) \/ WriteLockText(p) \/ PublishPid(p)
    \/ HandOver(p) \/ WaitForChild(p)

ReaderStep(p) ==
    \/ Release(p) \/ Sweep(p) \/ ReadPid(p) \/ CheckOwner(p) \/ UnlinkPid(p)
    \/ SignalScheduler(p) \/ AnswerStatus(p)

SchedulerStep(p) == InstallHandlers(p) \/ LoopEnds(p)

ControlNext ==
    \E p \in Proc :
        \/ QueueCommand(p) \/ StartStep(p) \/ ReaderStep(p) \/ SchedulerStep(p)
        \/ StartError(p) \/ ForegroundEnds(p) \/ ForegroundCleans(p) \/ Killed(p)

ControlSpec == ControlInit /\ [][ControlNext]_controlVars

\* Commands and daemons are scheduled by the operating system; nothing makes a
\* command begin, fail or be interrupted.
ControlFairness ==
    \A p \in Proc :
        WF_controlVars(Alive(p) /\ (StartStep(p) \/ ReaderStep(p) \/ SchedulerStep(p)))

FairControlSpec == ControlSpec /\ ControlFairness

-------------------------------------------------------------------------------
(* Properties *)

\* Two schedulers never dispatch at the same time, whatever commands, failed
\* starts and kills come in between (the singleton lock of queue.py).
SingleScheduler ==
    \A p, q \in Schedulers : p = q

\* A start that reports an error leaves no daemon behind.
FailedStartIsGone ==
    \A p \in Proc :
        ctl[p] = "failed" /\ child[p] # NoProc => ctl[child[p]] = "dead"

\* When status answers with a PID, that process is alive at that moment, it
\* holds the lock, and no other process is the scheduler.
AnswersAreAlive ==
    [][\A p \in Proc :
         LET x == answer'[p]
         IN  x # answer[p] => x \in lockHolders /\ Schedulers \subseteq {x}]_controlVars

\* A stop command that has found its scheduler ends it, also when the daemon
\* has not yet installed its handlers, unless the command itself is killed.
StopStops ==
    \A p \in Proc :
        (ctl[p] = "signal")
            ~> (ctl[p] = "dead" \/ \E x \in Proc : x = seen[p] /\ ctl[x] = "dead")

\* With no command under way and nothing ever failed, the scheduler that runs
\* is the one that stop and status would find.  The docstring of
\* scheduler_status promises to say whether a scheduler is alive.
Findable ==
    (faults = 0 /\ \A p \in Proc : ctl[p] \in Ended \union {"loop", "fgLoop"})
        => \A x \in Schedulers : x \in told \/ pidFile = x

=============================================================================
