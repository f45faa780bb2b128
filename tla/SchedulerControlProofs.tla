------------------------ MODULE SchedulerControlProofs ------------------------
(***************************************************************************)
(* One scheduler at most, no daemon after a failed start, and a status     *)
(* that names a live scheduler, for any number of commands, exceptions and *)
(* kills.                                                                  *)
(*                                                                         *)
(* The argument: where a process is tells whether it holds the lock, and   *)
(* two holders are a starter and the daemon it has spawned, which is no    *)
(* scheduler's rival.  A PID that was ever published belongs to a process  *)
(* that was to be a scheduler: it is dead or holds the lock.               *)
(***************************************************************************)
EXTENDS SchedulerControl, TLAPS

Parents == {"truncate", "text", "publish", "handOver", "wait"}
Holding == StarterSteps \union ForegroundSteps \union DaemonSteps \union {"stopRelease", "askRelease"}
PidReaders == {"stopCheck", "unlink", "signal", "askCheck", "askAlive"}
Daemons == {"boot", "loop", "dead"}

\* Where a process is tells whether it has the locked description open.
HoldersTrue == lockHolders = {p \in Proc : ctl[p] \in Holding}

\* Only a starter and its child have it open together.
MatesOnly ==
    \A p, q \in Proc : ctl[p] \in Holding /\ ctl[q] \in Holding /\ p # q =>
        (ctl[p] \in Parents /\ child[p] = q) \/ (ctl[q] \in Parents /\ child[q] = p)

ChildrenTrue ==
    \A p \in Proc :
        /\ ctl[p] \in {"unused", "spawn"} => child[p] = NoProc
        /\ ctl[p] \in Parents => child[p] # NoProc
        /\ child[p] # NoProc => ctl[child[p]] \in Daemons

\* What the PID file says, and what was read from it, was to be a scheduler.
Published(x) == ctl[x] \in Daemons \union ForegroundSteps
PublishedTrue ==
    /\ pidFile # NoProc => Published(pidFile)
    /\ \A p \in Proc : seen[p] # NoProc => Published(seen[p])
    /\ \A p \in Proc : ctl[p] \in PidReaders => seen[p] # NoProc

\* Who has answered is through.
AnsweredIsDone == \A p \in Proc : answer[p] # NoProc => ctl[p] = "done"

Bookkeeping == HoldersTrue /\ MatesOnly /\ ChildrenTrue /\ PublishedTrue /\ FailedStartIsGone

ControlInv == ControlTypeOK /\ Bookkeeping /\ AnsweredIsDone

Steps == StarterSteps \union ForegroundSteps \union StopSteps \union StatusSteps \union DaemonSteps \union Ended

-------------------------------------------------------------------------------

\* Process p alone moves on, keeps or drops what it holds, and stays what it is.
Moves(p, to) ==
    /\ ctl' = [ctl EXCEPT ![p] = to]
    /\ ctl[p] # "unused"
    /\ to \notin {"unused", "spawn"}
    /\ to \in Holding => ctl[p] \in Holding
    /\ to \in Parents => ctl[p] \in Parents
    /\ ctl[p] \in Parents /\ to \in Holding => to \in Parents
    /\ ctl[p] \in Daemons => to \in Daemons
    /\ ctl[p] # "dead"
    /\ ctl[p] \in ForegroundSteps => to \in ForegroundSteps \union {"dead"}
    /\ to \in PidReaders => seen'[p] # NoProc
    /\ to # "failed"
    /\ lockHolders' = {q \in Proc : q \in lockHolders /\ (q = p => to \in Holding)}
    /\ child' = child
    /\ pidFile' \in {pidFile, NoProc} \/ (pidFile' \in Proc /\ Published(pidFile)')
    /\ seen' = seen \/ seen' = [seen EXCEPT ![p] = pidFile]

\* Whoever moves so keeps the books in order.
LEMMA MoveKeeps ==
    ASSUME ControlInv, NEW p \in Proc, NEW to \in Steps, Moves(p, to)
    PROVE  Bookkeeping'
<1> USE DEF ControlInv, Bookkeeping, Moves
<1>1. /\ \A q \in Proc : q # p => ctl'[q] = ctl[q]
      /\ ctl'[p] = to
  BY DEF ControlTypeOK
<1>2. HoldersTrue'
  BY <1>1 DEF HoldersTrue
<1>3. MatesOnly'
  BY <1>1 DEF MatesOnly
<1>4. \A x \in Proc : ctl[x] \in Daemons => ctl'[x] \in Daemons
  BY <1>1
<1>5. ChildrenTrue'
  BY <1>1, <1>4 DEF ChildrenTrue, ControlTypeOK
<1>6. \A x \in Proc : Published(x) => Published(x)'
  BY <1>1 DEF Published, Daemons
<1>7. PublishedTrue'
  <2>1. pidFile' # NoProc => Published(pidFile)'
    BY <1>6 DEF PublishedTrue, ControlTypeOK
  <2>2. seen' \in [Proc -> Proc \union {NoProc}] /\ \A q \in Proc : q # p => seen'[q] = seen[q]
    BY DEF ControlTypeOK
  <2>3. seen'[p] \in {seen[p], pidFile}
    BY DEF ControlTypeOK
  <2>4. ASSUME NEW q \in Proc, seen'[q] # NoProc  PROVE Published(seen[q])'
    <3>1. \E x \in Proc : x = seen'[q] /\ Published(x)
      BY <2>2, <2>3, <2>4 DEF PublishedTrue, ControlTypeOK
    <3> QED
      BY <3>1, <1>6
  <2>5. \A q \in Proc : ctl'[q] \in PidReaders => seen'[q] # NoProc
    BY <1>1, <2>2 DEF PublishedTrue
  <2> QED
    BY <2>1, <2>4, <2>5 DEF PublishedTrue
<1>8. FailedStartIsGone'
  <2>1. \A q \in Proc : ctl'[q] = "failed" => ctl[q] = "failed"
    BY <1>1
  <2>2. \A x \in Proc : ctl[x] = "dead" => ctl'[x] = "dead"
    BY <1>1 DEF Daemons
  <2> QED
    BY <2>1, <2>2 DEF FailedStartIsGone, ControlTypeOK
<1> QED
  BY <1>2, <1>3, <1>5, <1>7, <1>8

\* Whoever holds the lock and has no child to share it with holds it alone.
LEMMA Alone ==
    ASSUME ControlInv, NEW p \in Proc, ctl[p] \in Holding, ctl[p] \notin Parents, ctl[p] \notin Daemons
    PROVE  lockHolders = {p}
BY DEF ControlInv, Bookkeeping, HoldersTrue, MatesOnly, ChildrenTrue

\* A starter shares it with its child at most.
LEMMA Mates ==
    ASSUME ControlInv, NEW p \in Proc, ctl[p] \in Parents
    PROVE  /\ child[p] \in Proc /\ child[p] # p
           /\ ctl[child[p]] \in Daemons
           /\ lockHolders \subseteq {p, child[p]}
<1>1. Parents \cap Daemons = {} /\ Parents \subseteq Holding
  BY DEF Parents, Daemons, Holding, StarterSteps
<1> QED
  BY <1>1 DEF ControlInv, Bookkeeping, HoldersTrue, MatesOnly, ChildrenTrue, ControlTypeOK

\* A new process begins, with the lock when it is free.
LEMMA BeginKeeps ==
    ASSUME ControlInv, NEW p \in Proc, NEW to \in Steps,
           ctl[p] = "unused", ctl' = [ctl EXCEPT ![p] = to],
           to \notin Parents \union PidReaders \union {"failed", "unused"},
           \/ to \in Holding /\ lockHolders = {} /\ lockHolders' = {p}
           \/ to \notin Holding /\ lockHolders' = lockHolders,
           UNCHANGED <<child, pidFile, seen>>
    PROVE  Bookkeeping'
<1> USE DEF ControlInv, Bookkeeping
<1>1. (\A q \in Proc : q # p => ctl'[q] = ctl[q]) /\ ctl'[p] = to
  BY DEF ControlTypeOK
<1>2. "unused" \notin Holding \union Daemons \union ForegroundSteps \union Parents
  BY DEF Holding, Daemons, ForegroundSteps, Parents, StarterSteps, DaemonSteps
<1>3. HoldersTrue'
  BY <1>1, <1>2 DEF HoldersTrue
<1>4. MatesOnly'
  BY <1>1, <1>2 DEF HoldersTrue, MatesOnly
<1>5. ChildrenTrue'
  BY <1>1, <1>2 DEF ChildrenTrue, ControlTypeOK
<1>6. \A x \in Proc : Published(x) => Published(x)'
  BY <1>1, <1>2 DEF Published
<1>7. PublishedTrue'
  BY <1>1, <1>6 DEF PublishedTrue, ControlTypeOK
<1>8. FailedStartIsGone'
  BY <1>1 DEF FailedStartIsGone, ControlTypeOK
<1> QED
  BY <1>3, <1>4, <1>5, <1>7, <1>8

\* A command moves on and a scheduler, or what was to be one, dies of it or not.
LEMMA DeathKeeps ==
    ASSUME ControlInv, NEW p \in Proc, NEW x \in Proc, NEW to \in {"wait", "failed", "done"},
           p # x, Published(x), ctl[p] \notin Daemons \union ForegroundSteps \union {"unused"},
           NEW K \in SUBSET {x},
           ctl' = [q \in Proc |-> IF q = p THEN to ELSE IF q \in K THEN "dead" ELSE ctl[q]],
           to \in Holding <=> ctl[p] \in Holding /\ to # "failed",
           to \in Holding <=> ctl[p] \in Parents /\ to # "failed",
           to = "failed" /\ child[p] # NoProc => child[p] = x /\ x \in K,
           \/ to # "failed" /\ lockHolders' = lockHolders \ K
           \/ to = "failed" /\ lockHolders \subseteq {p, x} /\ x \in K /\ lockHolders' = {},
           UNCHANGED <<child, pidFile, seen>>
    PROVE  Bookkeeping'
<1> USE DEF ControlInv, Bookkeeping
<1>1. /\ \A q \in Proc : q # p /\ q \notin K => ctl'[q] = ctl[q]
      /\ \A q \in K : ctl'[q] = "dead"
      /\ ctl'[p] = to
  OBVIOUS
<1>2. /\ "dead" \notin Holding \union Parents \union PidReaders \union {"failed", "unused", "spawn"}
      /\ "dead" \in Daemons
      /\ to \notin PidReaders \union {"unused", "spawn"}
      /\ to = "wait" => to \in Parents \cap Holding
      /\ to \in {"failed", "done"} => to \notin Parents \union Holding
  BY DEF Holding, Daemons, ForegroundSteps, Parents, StarterSteps, DaemonSteps, PidReaders
<1>3. HoldersTrue'
  BY <1>1, <1>2 DEF HoldersTrue
<1>4. MatesOnly'
  BY <1>1, <1>2 DEF MatesOnly
<1>5. \A y \in Proc : ctl[y] \in Daemons => ctl'[y] \in Daemons
  BY <1>1, <1>2
<1>6. ChildrenTrue'
  <2>1. \A q \in Proc : ctl'[q] \notin {"unused", "spawn"} \/ ctl'[q] = ctl[q]
    BY <1>1, <1>2
  <2>2. \A q \in Proc : ctl'[q] \in Parents => ctl[q] \in Parents
    <3>1. to \in Parents => ctl[p] \in Parents
      BY <1>2
    <3> QED
      BY <1>1, <1>2, <3>1
  <2> QED
    BY <1>5, <2>1, <2>2 DEF ChildrenTrue, ControlTypeOK
<1>7. \A y \in Proc : Published(y) => Published(y)'
  BY <1>1, <1>2 DEF Published
<1>8. PublishedTrue'
  BY <1>1, <1>2, <1>7 DEF PublishedTrue, ControlTypeOK
<1>9. FailedStartIsGone'
  <2>1. \A q \in Proc : ctl'[q] = "failed" => ctl[q] = "failed" \/ (q = p /\ to = "failed")
    BY <1>1, <1>2
  <2>2. \A y \in Proc : y # p /\ ctl[y] = "dead" => ctl'[y] = "dead"
    BY <1>1
  <2>3. ctl[p] # "dead"
    BY <1>2
  <2> QED
    BY <1>1, <2>1, <2>2, <2>3 DEF FailedStartIsGone, ControlTypeOK
<1> QED
  BY <1>3, <1>4, <1>6, <1>8, <1>9

-------------------------------------------------------------------------------

\* Every action keeps the types.
LEMMA ControlTypeStep ==
    ASSUME ControlTypeOK, NEW p \in Proc,
           \/ QueueCommand(p) \/ StartStep(p) \/ ReaderStep(p) \/ SchedulerStep(p)
           \/ StartError(p) \/ ForegroundEnds(p) \/ ForegroundCleans(p) \/ Killed(p)
    PROVE  ControlTypeOK'
<1> USE ControlAssumption DEF ControlTypeOK, GoTo, Steps, StarterSteps, ForegroundSteps,
        StopSteps, StatusSteps, DaemonSteps, Ended
<1>1. CASE StartTry(p)
  BY <1>1 DEF StartTry
<1>2. CASE ForegroundTry(p)
  BY <1>2 DEF ForegroundTry
<1>3. CASE Probe(p)
  BY <1>3 DEF Probe
<1>4. CASE SpawnDaemon(p)
  BY <1>4 DEF SpawnDaemon
<1>5. CASE Truncate(p)
  BY <1>5 DEF Truncate
<1>6. CASE WriteLockText(p)
  BY <1>6 DEF WriteLockText
<1>7. CASE PublishPid(p)
  BY <1>7 DEF PublishPid
<1>8. CASE HandOver(p)
  BY <1>8 DEF HandOver
<1>9. CASE WaitForChild(p)
  BY <1>9 DEF WaitForChild
<1>10. CASE Release(p)
  BY <1>10 DEF Release
<1>11. CASE Sweep(p)
  BY <1>11 DEF Sweep
<1>12. CASE ReadPid(p)
  BY <1>12 DEF ReadPid
<1>13. CASE CheckOwner(p)
  BY <1>13 DEF CheckOwner
<1>14. CASE UnlinkPid(p)
  BY <1>14 DEF UnlinkPid
<1>15. CASE SignalScheduler(p)
  BY <1>15 DEF SignalScheduler, Terminate, DiesOfTerm
<1>16. CASE AnswerStatus(p)
  BY <1>16 DEF AnswerStatus
<1>17. CASE InstallHandlers(p)
  BY <1>17 DEF InstallHandlers
<1>18. CASE LoopEnds(p)
  BY <1>18 DEF LoopEnds
<1>19. CASE StartError(p)
  BY <1>19 DEF StartError, Fault, Terminate, DiesOfTerm
<1>20. CASE ForegroundEnds(p)
  BY <1>20 DEF ForegroundEnds, Fault
<1>21. CASE ForegroundCleans(p)
  BY <1>21 DEF ForegroundCleans
<1>22. CASE Killed(p)
  BY <1>22 DEF Killed, Fault
<1> QED
  BY <1>1, <1>2, <1>3, <1>4, <1>5, <1>6, <1>7, <1>8, <1>9, <1>10, <1>11, <1>12, <1>13, <1>14, <1>15, <1>16, <1>17, <1>18, <1>19, <1>20, <1>21, <1>22
     DEF QueueCommand, StartStep, ReaderStep, SchedulerStep

\* The steps of one process alone: along its own path.
LEMMA MoveSteps ==
    ASSUME ControlInv, NEW p \in Proc,
           \/ Truncate(p) \/ WriteLockText(p) \/ PublishPid(p) \/ HandOver(p)
           \/ InstallHandlers(p) \/ LoopEnds(p) \/ ForegroundEnds(p) \/ ForegroundCleans(p)
           \/ Killed(p) \/ Release(p) \/ Sweep(p) \/ ReadPid(p) \/ CheckOwner(p)
           \/ UnlinkPid(p) \/ AnswerStatus(p)
    PROVE  \E to \in Steps : Moves(p, to)
<1> USE DEF ControlInv, Bookkeeping, ControlTypeOK, GoTo, Moves, Steps, Holding, Parents, PidReaders,
        Daemons, StarterSteps, ForegroundSteps, StopSteps, StatusSteps, DaemonSteps, Ended
<1>1. CASE Truncate(p)
  <2>1. CASE ctl[p] = "truncate"
    <3>1. Moves(p, "text")
      BY <1>1, <2>1 DEF Truncate
    <3> QED
      BY <3>1
  <2>2. CASE ctl[p] = "fgTruncate"
    <3>1. Moves(p, "fgText")
      BY <1>1, <2>2 DEF Truncate
    <3> QED
      BY <3>1
  <2> QED
    BY <1>1, <2>1, <2>2 DEF Truncate
<1>2. CASE WriteLockText(p)
  <2>1. CASE ctl[p] = "text"
    <3>1. Moves(p, "publish")
      BY <1>2, <2>1 DEF WriteLockText
    <3> QED
      BY <3>1
  <2>2. CASE ctl[p] = "fgText"
    <3>1. Moves(p, "fgPublish")
      BY <1>2, <2>2 DEF WriteLockText
    <3> QED
      BY <3>1
  <2> QED
    BY <1>2, <2>1, <2>2 DEF WriteLockText
<1>3. CASE PublishPid(p)
  <2>1. CASE ctl[p] = "publish"
    <3>1. Moves(p, "handOver")
      BY <1>3, <2>1 DEF PublishPid, ChildrenTrue, Published
    <3> QED
      BY <3>1
  <2>2. CASE ctl[p] = "fgPublish"
    <3>1. Moves(p, "fgLoop")
      BY <1>3, <2>2 DEF PublishPid, ChildrenTrue, Published
    <3> QED
      BY <3>1
  <2> QED
    BY <1>3, <2>1, <2>2 DEF PublishPid
<1>4. CASE HandOver(p)
  <2>1. Moves(p, "done")
    BY <1>4 DEF HandOver
  <2> QED
    BY <2>1
<1>5. CASE InstallHandlers(p)
  <2>1. Moves(p, "loop")
    BY <1>5 DEF InstallHandlers
  <2> QED
    BY <2>1
<1>6. CASE LoopEnds(p)
  <2>1. Moves(p, "dead")
    BY <1>6 DEF LoopEnds
  <2> QED
    BY <2>1
<1>7. CASE ForegroundEnds(p)
  <2>1. Moves(p, "fgClean")
    BY <1>7 DEF ForegroundEnds
  <2> QED
    BY <2>1
<1>8. CASE ForegroundCleans(p)
  <2>1. CASE ctl[p] = "fgClean"
    <3>1. Moves(p, "fgUnlock")
      BY <1>8, <2>1, Alone DEF ForegroundCleans
    <3> QED
      BY <3>1
  <2>2. CASE ctl[p] = "fgUnlock"
    <3>1. Moves(p, "dead")
      BY <1>8, <2>2, Alone DEF ForegroundCleans
    <3> QED
      BY <3>1
  <2> QED
    BY <1>8, <2>1, <2>2 DEF ForegroundCleans
<1>9. CASE Killed(p)
  <2>1. Moves(p, "dead")
    BY <1>9 DEF Killed, Alive
  <2> QED
    BY <2>1
<1>10. CASE Release(p)
  <2>1. CASE ctl[p] = "stopRelease"
    <3>1. Moves(p, "sweep")
      BY <1>10, <2>1, Alone DEF Release
    <3> QED
      BY <3>1
  <2>2. CASE ctl[p] = "askRelease"
    <3>1. Moves(p, "done")
      BY <1>10, <2>2, Alone DEF Release
    <3> QED
      BY <3>1
  <2> QED
    BY <1>10, <2>1, <2>2 DEF Release
<1>11. CASE Sweep(p)
  <2>1. Moves(p, "done")
    BY <1>11 DEF Sweep, HoldersTrue
  <2> QED
    BY <2>1
<1>12. CASE ReadPid(p)
  <2>1. \E to \in {"stopCheck", "askCheck"} :
          /\ ctl[p] = IF to = "stopCheck" THEN "stopRead" ELSE "askRead"
          /\ ctl' = [ctl EXCEPT ![p] = IF pidFile = NoProc THEN "done" ELSE to]
    <3>1. PICK move \in {<<"stopRead", "stopCheck">>, <<"askRead", "askCheck">>} :
            /\ ctl[p] = move[1]
            /\ ctl' = [ctl EXCEPT ![p] = IF pidFile = NoProc THEN "done" ELSE move[2]]
      BY <1>12 DEF ReadPid
    <3>2. CASE move = <<"stopRead", "stopCheck">>
      BY <3>1, <3>2
    <3>3. CASE move = <<"askRead", "askCheck">>
      BY <3>1, <3>3
    <3> QED
      BY <3>1, <3>2, <3>3
  <2>2. /\ seen' = [seen EXCEPT ![p] = pidFile]
        /\ UNCHANGED <<lockHolders, pidFile, child>>
    BY <1>12 DEF ReadPid
  <2>3. p \notin lockHolders
    BY <2>1 DEF HoldersTrue
  <2>4. CASE pidFile = NoProc
    <3>1. Moves(p, "done")
      BY <2>1, <2>2, <2>3, <2>4
    <3> QED
      BY <3>1
  <2>5. CASE pidFile # NoProc
    <3>1. PICK to \in {"stopCheck", "askCheck"} :
            /\ ctl[p] \in {"stopRead", "askRead"}
            /\ ctl' = [ctl EXCEPT ![p] = to]
      BY <2>1, <2>5
    <3>2. Moves(p, to)
      BY <2>2, <2>3, <2>5, <3>1
    <3> QED
      BY <3>2
  <2> QED
    BY <2>4, <2>5
<1>13. CASE CheckOwner(p)
  <2>1. \E to \in {"unlink", "askAlive"} :
          /\ ctl[p] = IF to = "unlink" THEN "stopCheck" ELSE "askCheck"
          /\ ctl' = [ctl EXCEPT ![p] = IF lockText = seen[p] THEN to ELSE "done"]
    <3>1. PICK move \in {<<"stopCheck", "unlink">>, <<"askCheck", "askAlive">>} :
            /\ ctl[p] = move[1]
            /\ ctl' = [ctl EXCEPT ![p] = IF lockText = seen[p] THEN move[2] ELSE "done"]
      BY <1>13 DEF CheckOwner
    <3>2. CASE move = <<"stopCheck", "unlink">>
      BY <3>1, <3>2
    <3>3. CASE move = <<"askCheck", "askAlive">>
      BY <3>1, <3>3
    <3> QED
      BY <3>1, <3>2, <3>3
  <2>2. UNCHANGED <<lockHolders, pidFile, child, seen>>
    BY <1>13 DEF CheckOwner
  <2>3. p \notin lockHolders /\ seen[p] # NoProc
    BY <2>1 DEF HoldersTrue, PublishedTrue
  <2>4. PICK to \in {"unlink", "askAlive", "done"} :
          /\ ctl[p] \in {"stopCheck", "askCheck"}
          /\ ctl' = [ctl EXCEPT ![p] = to]
    BY <2>1
  <2>5. Moves(p, to)
    BY <2>2, <2>3, <2>4
  <2> QED
    BY <2>5
<1>14. CASE UnlinkPid(p)
  <2>1. Moves(p, "signal")
    BY <1>14 DEF UnlinkPid, HoldersTrue, PublishedTrue
  <2> QED
    BY <2>1
<1>15. CASE AnswerStatus(p)
  <2>1. Moves(p, "done")
    BY <1>15 DEF AnswerStatus, HoldersTrue
  <2> QED
    BY <2>1
<1> QED
  BY <1>1, <1>2, <1>3, <1>4, <1>5, <1>6, <1>7, <1>8, <1>9, <1>10, <1>11, <1>12, <1>13, <1>14, <1>15

\* start, foreground start, stop and status begin.
LEMMA CommandStep ==
    ASSUME ControlInv, NEW p \in Proc, StartTry(p) \/ ForegroundTry(p) \/ Probe(p)
    PROVE  Bookkeeping'
<1> USE DEF Holding, Parents, PidReaders, Steps, StarterSteps, ForegroundSteps, StopSteps,
        StatusSteps, DaemonSteps, Ended, GoTo, NextPid
<1>1. \E to \in Steps \ (Parents \union PidReaders \union {"failed", "unused"}) :
        /\ ctl' = [ctl EXCEPT ![p] = to]
        /\ \/ to \in Holding /\ lockHolders = {} /\ lockHolders' = {p}
           \/ to \notin Holding /\ lockHolders' = lockHolders
  <2>1. CASE StartTry(p)
    BY <2>1 DEF StartTry
  <2>2. CASE ForegroundTry(p)
    BY <2>2 DEF ForegroundTry
  <2>3. CASE Probe(p)
    BY <2>3 DEF Probe
  <2> QED
    BY <2>1, <2>2, <2>3
<1>2. ctl[p] = "unused" /\ UNCHANGED <<child, pidFile, seen>>
  BY DEF StartTry, ForegroundTry, Probe
<1> QED
  BY <1>1, <1>2, BeginKeeps

\* The starter alone holds the lock when it spawns; then the two do.
LEMMA SpawnStep ==
    ASSUME ControlInv, NEW p \in Proc, SpawnDaemon(p)
    PROVE  Bookkeeping'
<1>1. PICK d \in Proc :
        /\ ctl[d] = "unused"
        /\ ctl' = [ctl EXCEPT ![p] = "truncate", ![d] = "boot"]
        /\ child' = [child EXCEPT ![p] = d]
        /\ lockHolders' = lockHolders \union {d}
  BY DEF SpawnDaemon, NextPid
<1>2. ctl[p] = "spawn" /\ p # d /\ UNCHANGED <<pidFile, seen>>
  BY <1>1 DEF SpawnDaemon
<1>3. /\ "spawn" \in Holding \ (Parents \union Daemons) /\ "truncate" \in Parents \cap Holding
      /\ "boot" \in (Daemons \cap Holding) \ (Parents \union PidReaders)
      /\ "truncate" \notin Daemons \union PidReaders \union ForegroundSteps
      /\ "unused" \notin Daemons \union ForegroundSteps \union Holding
      /\ "spawn" \notin ForegroundSteps
  BY DEF Holding, Parents, PidReaders, Daemons, StarterSteps, ForegroundSteps, DaemonSteps
<1>4. lockHolders = {p}
  BY <1>2, <1>3, Alone
<1> USE DEF ControlInv, Bookkeeping
<1>5. /\ \A q \in Proc : q # p /\ q # d => ctl'[q] = ctl[q] /\ child'[q] = child[q]
      /\ ctl'[p] = "truncate" /\ ctl'[d] = "boot"
      /\ child'[p] = d /\ child'[d] = child[d]
  BY <1>1, <1>2 DEF ControlTypeOK
<1>6. HoldersTrue'
  BY <1>1, <1>3, <1>4, <1>5 DEF HoldersTrue
<1>7. MatesOnly'
  <2>1. \A q \in Proc : ctl'[q] \in Holding => q \in {p, d}
    BY <1>1, <1>4, <1>6 DEF HoldersTrue
  <2> QED
    BY <1>3, <1>5, <2>1 DEF MatesOnly
<1>8. \A q \in Proc : ctl[q] \in Daemons => ctl'[q] \in Daemons
  BY <1>2, <1>3, <1>5
<1>9. ChildrenTrue'
  <2>1. \A q \in Proc : ctl'[q] \in {"unused", "spawn"} => q # p /\ q # d
    BY <1>5
  <2>2. \A q \in Proc : ctl'[q] \in Parents => q = p \/ (q # d /\ ctl[q] \in Parents)
    BY <1>3, <1>5
  <2>3. d # NoProc
    BY ControlAssumption
  <2>4. ASSUME NEW q \in Proc, child'[q] # NoProc  PROVE ctl'[child'[q]] \in Daemons
    <3>1. CASE q = p
      BY <1>3, <1>5, <3>1
    <3>2. CASE q # p
      BY <1>5, <1>8, <2>4, <3>2 DEF ChildrenTrue, ControlTypeOK
    <3> QED
      BY <3>1, <3>2
  <2> QED
    BY <1>5, <2>1, <2>2, <2>3, <2>4 DEF ChildrenTrue
<1>10. \A q \in Proc : Published(q) => Published(q)'
  BY <1>1, <1>2, <1>3, <1>5 DEF Published
<1>11. PublishedTrue'
  BY <1>2, <1>3, <1>5, <1>10 DEF PublishedTrue, ControlTypeOK
<1>12. FailedStartIsGone'
  BY <1>1, <1>2, <1>5 DEF FailedStartIsGone, ControlTypeOK
<1> QED
  BY <1>6, <1>7, <1>9, <1>11, <1>12

\* A start that fails and a stop: the daemon dies, or is told to end.
LEMMA DeathSteps ==
    ASSUME ControlInv, NEW p \in Proc, StartError(p) \/ WaitForChild(p) \/ SignalScheduler(p)
    PROVE  Bookkeeping'
<1> USE DEF Holding, Parents, Daemons, StarterSteps, ForegroundSteps, DaemonSteps
<1>1. CASE StartError(p) /\ ctl[p] = "spawn"
  <2>1. lockHolders = {p} /\ child[p] = NoProc
    BY <1>1, Alone DEF ControlInv, Bookkeeping, ChildrenTrue
  <2>2. /\ ctl' = [ctl EXCEPT ![p] = "failed"] /\ lockHolders' = {}
        /\ UNCHANGED <<child, pidFile, seen>>
    BY <1>1 DEF StartError, GoTo
  <2> USE DEF ControlInv, Bookkeeping
  <2>3. (\A q \in Proc : q # p => ctl'[q] = ctl[q]) /\ ctl'[p] = "failed"
    BY <2>2 DEF ControlTypeOK
  <2>4. HoldersTrue' /\ MatesOnly'
    BY <2>1, <2>2, <2>3 DEF HoldersTrue, MatesOnly
  <2>5. ChildrenTrue'
    BY <1>1, <2>1, <2>2, <2>3 DEF ChildrenTrue, ControlTypeOK
  <2>6. \A q \in Proc : Published(q) => Published(q)'
    BY <1>1, <2>3 DEF Published
  <2>7. PublishedTrue'
    BY <2>2, <2>3, <2>6 DEF PublishedTrue, ControlTypeOK, PidReaders
  <2>8. FailedStartIsGone'
    BY <1>1, <2>1, <2>2, <2>3 DEF FailedStartIsGone, ControlTypeOK
  <2> QED
    BY <2>4, <2>5, <2>7, <2>8
<1>2. CASE StartError(p) /\ ctl[p] # "spawn"
  <2>1. ctl[p] \in {"truncate", "text", "publish", "handOver"}
    BY <1>2 DEF StartError
  <2> DEFINE d == child[p]
             K == IF DiesOfTerm(d) THEN {d} ELSE {}
  <2>2. d \in Proc /\ d # p /\ Published(d)
    BY <2>1, Mates DEF Published
  <2>3. ctl' = [q \in Proc |-> IF q = p THEN "wait" ELSE IF q \in K THEN "dead" ELSE ctl[q]]
    BY <1>2, <2>1, <2>2 DEF StartError
  <2>4. lockHolders' = lockHolders \ K /\ UNCHANGED <<child, pidFile, seen>>
    BY <1>2, <2>1 DEF StartError
  <2>5. K \in SUBSET {d}
    OBVIOUS
  <2> HIDE DEF d, K
  <2> QED
    BY <2>1, <2>2, <2>3, <2>4, <2>5, DeathKeeps
<1>3. CASE WaitForChild(p)
  <2> DEFINE d == child[p]
             K == {d}
             to == "failed"
  <2>1. ctl[p] = "wait" /\ d \in Proc /\ d # p /\ Published(d) /\ lockHolders \subseteq {p, d}
    BY <1>3, Mates DEF WaitForChild, Published
  <2>2. ctl' = [q \in Proc |-> IF q = p THEN to ELSE IF q \in K THEN "dead" ELSE ctl[q]]
    BY <1>3, <2>1 DEF WaitForChild, ControlInv, ControlTypeOK
  <2>3. lockHolders' = {} /\ UNCHANGED <<child, pidFile, seen>>
    BY <1>3 DEF WaitForChild
  <2>4. child[p] = d /\ K \in SUBSET {d} /\ d \in K
    OBVIOUS
  <2>5. /\ ctl[p] \notin Daemons \union ForegroundSteps \union {"unused"}
        /\ to = "failed" /\ to \in {"wait", "failed", "done"} /\ to \notin Holding
    BY <2>1
  <2> HIDE DEF d, K, to
  <2> QED
    BY <2>1, <2>2, <2>3, <2>4, <2>5, DeathKeeps
<1>4. CASE SignalScheduler(p)
  <2> DEFINE x == seen[p]
             K == IF DiesOfTerm(x) THEN {x} ELSE {}
  <2>1. ctl[p] = "signal"
    BY <1>4 DEF SignalScheduler
  <2>2. x \in Proc /\ Published(x)
    BY <2>1 DEF ControlInv, Bookkeeping, PublishedTrue, PidReaders, ControlTypeOK
  <2>3. x # p
    BY <2>1, <2>2 DEF Published
  <2>4. ctl' = [q \in Proc |-> IF q = p THEN "done" ELSE IF q \in K THEN "dead" ELSE ctl[q]]
    BY <1>4, <2>3 DEF SignalScheduler
  <2>5. lockHolders' = lockHolders \ K /\ UNCHANGED <<child, pidFile, seen>>
    BY <1>4 DEF SignalScheduler
  <2>6. K \in SUBSET {x}
    OBVIOUS
  <2> HIDE DEF x, K
  <2> QED
    BY <2>1, <2>2, <2>3, <2>4, <2>5, <2>6, DeathKeeps
<1> QED
  BY <1>1, <1>2, <1>3, <1>4

\* Nobody leaves "done", and only AnswerStatus, which ends there, answers.
LEMMA AnsweredStep ==
    ASSUME ControlInv, NEW p \in Proc,
           \/ QueueCommand(p) \/ StartStep(p) \/ ReaderStep(p) \/ SchedulerStep(p)
           \/ StartError(p) \/ ForegroundEnds(p) \/ ForegroundCleans(p) \/ Killed(p)
    PROVE  AnsweredIsDone'
<1> USE DEF Steps, ControlInv
<1>1. AnswerStatus(p) => AnsweredIsDone'
  BY DEF AnswerStatus, GoTo, ControlTypeOK, AnsweredIsDone
<1>2. ASSUME ~AnswerStatus(p)  PROVE answer' = answer
  BY <1>2 DEF QueueCommand, StartStep, ReaderStep, SchedulerStep, StartTry, ForegroundTry, Probe,
     SpawnDaemon, Truncate, WriteLockText, PublishPid, HandOver, WaitForChild, Release, Sweep,
     ReadPid, CheckOwner, UnlinkPid, SignalScheduler, InstallHandlers, LoopEnds, StartError,
     ForegroundEnds, ForegroundCleans, Killed
<1>3. ASSUME ~AnswerStatus(p), NEW q \in Proc, ctl[q] = "done"  PROVE ctl'[q] = "done"
  <2>1. CASE StartStep(p) \/ SchedulerStep(p)
    <3>1. ctl[p] = "wait" => child[p] \in Proc /\ ctl[child[p]] \in {"boot", "loop", "dead"}
      BY Mates DEF Parents, Daemons
    <3> QED
      BY <1>3, <2>1, <3>1 DEF ControlTypeOK, GoTo, NextPid, StartStep, SchedulerStep, SpawnDaemon,
         Truncate, WriteLockText, PublishPid, HandOver, WaitForChild, InstallHandlers, LoopEnds
  <2>2. CASE ReaderStep(p) \/ QueueCommand(p)
    BY <1>3, <2>2 DEF ControlTypeOK, GoTo, NextPid, ReaderStep, QueueCommand, StartTry,
       ForegroundTry, Probe, Release, Sweep, ReadPid, CheckOwner, UnlinkPid, SignalScheduler,
       DiesOfTerm, ForegroundSteps
  <2>3. CASE StartError(p) \/ ForegroundEnds(p) \/ ForegroundCleans(p) \/ Killed(p)
    BY <1>3, <2>3 DEF ControlTypeOK, GoTo, Alive, Ended, StartError, ForegroundEnds,
       ForegroundCleans, Killed, DiesOfTerm, ForegroundSteps
  <2> QED
    BY <2>1, <2>2, <2>3
<1> QED
  BY <1>1, <1>2, <1>3 DEF AnsweredIsDone

\* Every step keeps the invariant.
LEMMA ControlInvStep ==
    ASSUME ControlInv, [ControlNext]_controlVars
    PROVE  ControlInv'
<1>1. CASE UNCHANGED controlVars
  BY <1>1 DEF ControlInv, Bookkeeping, controlVars, ControlTypeOK, HoldersTrue, MatesOnly, ChildrenTrue,
     PublishedTrue, Published, FailedStartIsGone, AnsweredIsDone
<1>2. CASE ControlNext
  <2>1. PICK p \in Proc :
          \/ QueueCommand(p) \/ StartStep(p) \/ ReaderStep(p) \/ SchedulerStep(p)
          \/ StartError(p) \/ ForegroundEnds(p) \/ ForegroundCleans(p) \/ Killed(p)
    BY <1>2 DEF ControlNext
  <2>2. ControlTypeOK' /\ AnsweredIsDone'
    BY <2>1, ControlTypeStep, AnsweredStep DEF ControlInv
  <2>3. Bookkeeping'
    <3>1. CASE StartTry(p) \/ ForegroundTry(p) \/ Probe(p)
      BY <3>1, CommandStep
    <3>2. CASE SpawnDaemon(p)
      BY <3>2, SpawnStep
    <3>3. CASE StartError(p) \/ WaitForChild(p) \/ SignalScheduler(p)
      BY <3>3, DeathSteps
    <3>4. CASE \/ Truncate(p) \/ WriteLockText(p) \/ PublishPid(p) \/ HandOver(p)
               \/ InstallHandlers(p) \/ LoopEnds(p) \/ ForegroundEnds(p) \/ ForegroundCleans(p)
               \/ Killed(p) \/ Release(p) \/ Sweep(p) \/ ReadPid(p) \/ CheckOwner(p)
               \/ UnlinkPid(p) \/ AnswerStatus(p)
      BY <3>4, MoveSteps, MoveKeeps
    <3> QED
      BY <2>1, <3>1, <3>2, <3>3, <3>4 DEF QueueCommand, StartStep, ReaderStep, SchedulerStep
  <2> QED
    BY <2>2, <2>3 DEF ControlInv
<1> QED
  BY <1>1, <1>2

\* The books are kept in every state that commands, daemons, exceptions and
\* kills can reach (queue.py, queue_daemon.py).
THEOREM ControlInvariant == ControlSpec => []ControlInv
<1>1. ControlInit => ControlInv
  BY ControlAssumption DEF ControlInit, ControlInv, Bookkeeping, ControlTypeOK, HoldersTrue, MatesOnly,
     ChildrenTrue, PublishedTrue, FailedStartIsGone, AnsweredIsDone, Holding, Parents, PidReaders,
     Daemons, StarterSteps, ForegroundSteps, DaemonSteps, Ended
<1> QED
  BY <1>1, ControlInvStep, PTL DEF ControlSpec

\* Two schedulers never dispatch at the same time, whatever starts, stops,
\* failures and kills there were (start_scheduler, run_forever).
THEOREM OneScheduler == ControlSpec => []SingleScheduler
<1>1. ControlInv => SingleScheduler
  BY DEF ControlInv, Bookkeeping, MatesOnly, SingleScheduler, Schedulers, Holding, Parents, StarterSteps,
     ForegroundSteps, DaemonSteps
<1> QED
  BY <1>1, ControlInvariant, PTL

\* A start that reports an error leaves no daemon (start_scheduler).
THEOREM NoDaemonAfterFailure == ControlSpec => []FailedStartIsGone
<1>1. ControlInv => FailedStartIsGone
  BY DEF ControlInv, Bookkeeping
<1> QED
  BY <1>1, ControlInvariant, PTL

\* A PID that status reports is that of a live process that holds the lock, and
\* there is no other scheduler (scheduler_status).
THEOREM StatusIsTrue == ControlSpec => AnswersAreAlive
<1>1. ASSUME ControlInv, [ControlNext]_controlVars, NEW p \in Proc, answer'[p] # answer[p]
      PROVE  answer'[p] \in lockHolders /\ Schedulers \subseteq {answer'[p]}
  <2>1. AnswerStatus(p)
    <3>1. PICK q \in Proc : AnswerStatus(q)
      BY <1>1 DEF controlVars, ControlNext, QueueCommand, StartStep, ReaderStep, SchedulerStep,
         StartTry, ForegroundTry, Probe, SpawnDaemon, Truncate, WriteLockText, PublishPid, HandOver,
         WaitForChild, Release, Sweep, ReadPid, CheckOwner, UnlinkPid, SignalScheduler,
         InstallHandlers, LoopEnds, StartError, ForegroundEnds, ForegroundCleans, Killed
    <3> QED
      BY <1>1, <3>1 DEF AnswerStatus, ControlInv, ControlTypeOK
  <2> DEFINE x == seen[p]
  <2>2. ctl[p] = "askAlive" /\ answer[p] = NoProc
    BY <1>1, <2>1 DEF AnswerStatus, ControlInv, AnsweredIsDone
  <2>3. answer'[p] = x /\ Alive(x)
    BY <1>1, <2>1, <2>2 DEF AnswerStatus, ControlInv, ControlTypeOK
  <2>4. x \in Proc /\ Published(x)
    BY <1>1, <2>2 DEF ControlInv, Bookkeeping, ControlTypeOK, PublishedTrue, PidReaders
  <2>5. ctl[x] \in ForegroundSteps \union DaemonSteps
    BY <2>3, <2>4 DEF Alive, Published, Daemons, DaemonSteps, Ended
  <2>6. x \in lockHolders
    BY <1>1, <2>4, <2>5 DEF ControlInv, Bookkeeping, HoldersTrue, Holding
  <2>7. ASSUME NEW s \in Schedulers, s # x  PROVE FALSE
    <3>1. s \in Proc /\ ctl[s] \in Holding /\ ctl[x] \in Holding
      BY <2>5 DEF Schedulers, Holding, ForegroundSteps, DaemonSteps
    <3>2. ctl[s] \notin Parents /\ ctl[x] \notin Parents
      BY <2>5 DEF Schedulers, Parents, ForegroundSteps, DaemonSteps
    <3> QED
      BY <1>1, <2>4, <2>7, <3>1, <3>2 DEF ControlInv, Bookkeeping, MatesOnly
  <2> QED
    BY <2>3, <2>6, <2>7
<1>2. ControlInv /\ [ControlNext]_controlVars =>
        [\A p \in Proc :
           LET x == answer'[p]
           IN  x # answer[p] => x \in lockHolders /\ Schedulers \subseteq {x}]_controlVars
  BY <1>1
<1> QED
  BY <1>2, ControlInvariant, PTL DEF ControlSpec, AnswersAreAlive

===============================================================================
