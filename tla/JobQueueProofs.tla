---------------------------- MODULE JobQueueProofs ----------------------------
(***************************************************************************)
(* The theorems about JobQueue.  First what every move of a record or of a *)
(* worker leaves alone; then each part of the inductive invariant IInv is  *)
(* kept by those moves; the invariants and the action properties the runs  *)
(* check follow for every number of jobs, GPUs, schedulers, submitting     *)
(* processes, claims, crashes and commands.                                *)
(***************************************************************************)
EXTENDS JobQueueInvariant, FiniteSetTheorems, TLAPS

-------------------------------------------------------------------------------
(* Types: the inductive invariant is needed where an action uses the claim a *)
(* dispatcher carries, the target of a submitting process or the pid of a    *)
(* running record.                                                           *)

\* update_status either leaves the record alone, or all its guards held.
LEMMA UpdateStatusEffect ==
    ASSUME NEW r \in Record, NEW to \in Stored, NEW expected,
           NEW pid, NEW token
    PROVE  /\ UpdateStatus(r, to, expected, pid, token) \in Record
           /\ \/ UpdateStatus(r, to, expected, pid, token) = r
              \/ /\ r.status \in expected
                 /\ r.status \in {"pending", "paused", "claimed", "running"}
                 /\ to \in Allowed(r.status)
                 /\ pid = 0 \/ r.pid = pid
                 /\ token = 0 \/ r.token = token
                 /\ UpdateStatus(r, to, expected, pid, token) =
                      IF to \in {"pending", "paused"} THEN Unclaimed(to)
                      ELSE [r EXCEPT !.status = to]
BY DEF UpdateStatus, Accepts, Allowed, Unclaimed, Record, Status, Stored,
       Terminal, ActiveLease

\* The records the commands write are records.
LEMMA RecordUpdates ==
    /\ \A s \in Status : Unclaimed(s) \in Record
    /\ \A r \in Record, s \in Status : [r EXCEPT !.status = s] \in Record
BY DEF Unclaimed, Record

\* A change of phase keeps a worker a worker.
LEMMA PhaseUpdate ==
    ASSUME NEW w \in Worker, NEW p \in Phases
    PROVE  [w EXCEPT !.phase = p] \in Worker
BY DEF Worker

\* A worker that ends is a zombie or gone.
LEMMA EndedPhase == \A c : Ended(c) \in {"zombie", "gone"}
BY DEF Ended

\* Signalling a worker and its calculation keeps it a worker.
LEMMA SignalledType ==
    ASSUME TypeOK, NEW c \in Claims PROVE Signalled(c) \in Worker
<1> DEFINE p == IF WorkerUp(c) THEN Ended(c) ELSE work[c].phase
           q == IF work[c].calc = "live" THEN "stopping" ELSE work[c].calc
<1>1. p \in Phases
  BY DEF TypeOK, Ended, Phases, Worker
<1>2. q \in {"none", "live", "stopping", "ended"}
  BY DEF TypeOK, Worker
<1>3. Signalled(c) = [work[c] EXCEPT !.phase = p, !.calc = q]
  BY DEF Signalled
<1>4. work[c] \in Worker
  BY DEF TypeOK
<1> HIDE DEF p, q
<1> QED BY <1>1, <1>2, <1>3, <1>4 DEF Worker

\* The slots run_once counts are a natural number.
LEMMA SmallCount == \A S : Cardinality(InStatus(S)) \in Nat
<1>1. IsFiniteSet(Jobs)
  BY FS_Interval, ConstantsAssumption DEF Jobs
<1> QED BY <1>1, FS_Subset, FS_CardinalityType DEF InStatus

\* Granting a claim keeps the types.
LEMMA GrantType ==
    ASSUME TypeOK, NEW d \in Dispatchers, NEW j \in Jobs, Grant(d, j)
    PROVE  /\ rec' \in [Jobs -> Record] /\ work' \in [Claims -> Worker]
           /\ claims' \in 0..MaxClaims /\ held' \in [Dispatchers -> {0} \cup Claims]
           /\ pc' \in [Dispatchers -> PcValues]
<1> USE ConstantsAssumption
<1>1. claims + 1 \in Claims /\ claims' = claims + 1
  BY DEF TypeOK, Grant, Claims
<1>2. Claimed(claims + 1, d, Device[j]) \in Record
  BY <1>1 DEF Claimed, Record, Status, Stored, ActiveLease
<1>3. [work[claims + 1] EXCEPT !.job = j, !.parent = d] \in Worker
  BY <1>1, ZenonT(60) DEF TypeOK, Worker
<1>4. work' \in [Claims -> Worker]
  BY <1>1, <1>3 DEF Grant, TypeOK
<1>5. rec' \in [Jobs -> Record]
  BY <1>2 DEF Grant, TypeOK
<1> QED BY <1>1, <1>4, <1>5 DEF Grant, TypeOK, PcValues, Claims

\* A step keeps every variable in its type.
LEMMA TypeInvariant ==
    ASSUME IInv, [Next]_vars PROVE TypeOK'
<1> TypeOK BY DEF IInv
<1> USE ConstantsAssumption DEF TypeOK
<1>1. ASSUME NEW j \in Jobs, Enqueue(j) PROVE TypeOK'
  BY <1>1, RecordUpdates DEF Enqueue, Status, Stored, dispVars, procVars, auxVars
<1>2. ASSUME NEW j \in Jobs, PausePending(j) PROVE TypeOK'
  <2>1. UpdateStatus(rec[j], "paused", {"pending"}, 0, 0) \in Record
    BY UpdateStatusEffect DEF Stored
  <2>2. rec' \in [Jobs -> Record]
    BY <2>1, <1>2 DEF PausePending
  <2>3. userOps' \in 0..MaxUserOps
    BY <1>2 DEF PausePending, Command
  <2> QED BY <2>2, <2>3, <1>2 DEF PausePending, dispVars, procVars
<1>3. ASSUME NEW j \in Jobs, ResumePaused(j) PROVE TypeOK'
  <2>1. UpdateStatus(rec[j], "pending", {"paused"}, 0, 0) \in Record
    BY UpdateStatusEffect DEF Stored
  <2>2. rec' \in [Jobs -> Record]
    BY <2>1, <1>3 DEF ResumePaused
  <2> QED BY <2>2, <1>3 DEF ResumePaused, dispVars, procVars, auxVars
<1>4. ASSUME NEW j \in Jobs, KillJob(j) PROVE TypeOK'
  <2>1. rec' \in [Jobs -> Record]
    BY <1>4, RecordUpdates DEF KillJob, Status, Stored, Terminal
  <2>2. kills' \in SUBSET Claims
    BY <1>4 DEF KillJob, IInv, RecordShape, Record, procVars
  <2>3. userOps' \in 0..MaxUserOps
    BY <1>4 DEF KillJob, Command
  <2> QED BY <2>1, <2>2, <2>3, <1>4 DEF KillJob, dispVars
<1>5. ASSUME NEW j \in Jobs, DeleteJob(j) PROVE TypeOK'
  <2>1. rec' \in [Jobs -> Record]
    BY <1>5, RecordUpdates DEF DeleteJob, Status
  <2>2. userOps' \in 0..MaxUserOps
    BY <1>5 DEF DeleteJob, Command
  <2> QED BY <2>1, <2>2, <1>5 DEF DeleteJob, dispVars, procVars
<1>6. CASE Clean
  <2>1. rec' \in [Jobs -> Record]
    BY <1>6, RecordUpdates DEF Clean, Status
  <2>2. userOps' \in 0..MaxUserOps
    BY <1>6 DEF Clean, Command
  <2> QED BY <2>1, <2>2, <1>6 DEF Clean, dispVars, procVars
<1>7. CASE PauseQueue
  <2>1. userOps' \in 0..MaxUserOps
    BY <1>7 DEF PauseQueue, Command
  <2> QED BY <2>1, <1>7 DEF PauseQueue, dispVars, procVars
<1>8. CASE ResumeQueue
  BY <1>8 DEF ResumeQueue, dispVars, procVars, auxVars
<1>9. ASSUME NEW c \in Claims, DeliverKill(c) PROVE TypeOK'
  <2>1. work' \in [Claims -> Worker]
    BY SignalledType, <1>9 DEF DeliverKill
  <2>2. kills' \in SUBSET Claims
    BY <1>9 DEF DeliverKill
  <2> QED BY <2>1, <2>2, <1>9 DEF DeliverKill, dispVars, auxVars
<1>10. ASSUME NEW s \in Schedulers, Start(s) PROVE TypeOK'
  BY <1>10 DEF Start, PcValues, locals, procVars, auxVars
<1>11. ASSUME NEW s \in Schedulers, Recover(s) PROVE TypeOK'
  <2>1. rec' \in [Jobs -> Record]
    BY <1>11, RecordUpdates DEF Recover, Status, Stored
  <2>2. pc' \in [Dispatchers -> PcValues]
    BY <1>11 DEF Recover, PcValues
  <2> QED BY <2>1, <2>2, <1>11 DEF Recover, locals, procVars, auxVars
<1>12. ASSUME NEW s \in Schedulers, NEW c \in Claims, ReapChild(s, c) PROVE TypeOK'
  <2>1. \A j \in Jobs : UpdateStatus(rec[j], "failed", {"running"}, c, 0) \in Record
    BY UpdateStatusEffect DEF Stored, Terminal
  <2>2. rec' \in [Jobs -> Record]
    BY <2>1, <1>12 DEF ReapChild
  <2>3. work' \in [Claims -> Worker]
    BY <1>12, PhaseUpdate DEF ReapChild, Phases
  <2> QED BY <2>2, <2>3, <1>12 DEF ReapChild, dispVars, auxVars
<1>13. ASSUME NEW s \in Schedulers, ReapGone(s) PROVE TypeOK'
  <2>1. \A j \in Jobs : UpdateStatus(rec[j], "failed", {"running"}, rec[j].pid, 0) \in Record
    <3> TAKE j \in Jobs
    <3>1. rec[j] \in Record /\ "failed" \in Stored
      BY DEF Stored, Terminal
    <3> QED BY <3>1, UpdateStatusEffect
  <2>2. rec' \in [Jobs -> Record]
    BY <2>1, <1>13 DEF ReapGone
  <2>3. pc' \in [Dispatchers -> PcValues]
    BY <1>13 DEF ReapGone, PcValues
  <2> QED BY <2>2, <2>3, <1>13 DEF ReapGone, locals, procVars, auxVars
<1>14. ASSUME NEW s \in Schedulers, CountRunning(s) PROVE TypeOK'
  <2>1. active' \in Nat /\ pc' \in [Dispatchers -> PcValues]
    BY <1>14, SmallCount DEF CountRunning, PcValues
  <2> QED BY <2>1, <1>14 DEF CountRunning, procVars, auxVars
<1>15. ASSUME NEW s \in Schedulers, CountClaimed(s) PROVE TypeOK'
  <2>1. Cardinality(InStatus({"claimed"})) \in Nat
    BY SmallCount
  <2>2. active' \in Nat
    BY <2>1, <1>15 DEF CountClaimed
  <2>3. pc' \in [Dispatchers -> PcValues]
    BY <1>15 DEF CountClaimed, PcValues
  <2> QED BY <2>2, <2>3, <1>15 DEF CountClaimed, procVars, auxVars
<1>16. ASSUME NEW s \in Schedulers, Scan(s) PROVE TypeOK'
  <2>1. cand' \in SUBSET Jobs /\ pc' \in [Dispatchers -> PcValues]
    BY <1>16 DEF Scan, InStatus, PcValues
  <2> QED BY <2>1, <1>16 DEF Scan, procVars, auxVars
<1>17. ASSUME NEW s \in Schedulers, NEW j \in Jobs, Reject(s, j) PROVE TypeOK'
  <2>1. UpdateStatus(rec[j], "failed", {"pending"}, 0, 0) \in Record
    BY UpdateStatusEffect DEF Stored, Terminal
  <2>2. rec' \in [Jobs -> Record]
    BY <2>1, <1>17 DEF Reject
  <2> QED BY <2>2, <1>17 DEF Reject, procVars, auxVars
<1>18. ASSUME NEW s \in Schedulers, NEW j \in Jobs, Claim(s, j) PROVE TypeOK'
  BY <1>18, GrantType DEF Claim, Dispatchers
<1>19. ASSUME NEW s \in Schedulers, NEW j \in Jobs, PassOver(s, j) PROVE TypeOK'
  BY <1>19 DEF PassOver, procVars, auxVars
<1>20. ASSUME NEW s \in Schedulers, NothingToClaim(s) PROVE TypeOK'
  BY <1>20 DEF NothingToClaim, PcValues, locals, procVars, auxVars
<1>21. ASSUME NEW s \in Schedulers, Wake(s) PROVE TypeOK'
  BY <1>21 DEF Wake, PcValues, procVars, auxVars
<1>22. ASSUME NEW d \in Submitters, NEW j \in Jobs, SubmitEnqueue(d, j) PROVE TypeOK'
  <2>1. rec' \in [Jobs -> Record]
    BY <1>22, RecordUpdates DEF SubmitEnqueue, Status, Stored
  <2> QED BY <2>1, <1>22 DEF SubmitEnqueue, PcValues, locals, procVars, auxVars
<1>23. ASSUME NEW d \in Submitters, SubmitClaim(d) PROVE TypeOK'
  <2>1. target[d] \in Jobs
    BY <1>23 DEF IInv, SubmitterHasTarget, SubmitClaim
  <2> QED BY <2>1, <1>23, GrantType DEF SubmitClaim, Dispatchers, locals, auxVars
<1>24. ASSUME NEW d \in Submitters, SubmitRefused(d) PROVE TypeOK'
  BY <1>24 DEF SubmitRefused, PcValues, locals, procVars, auxVars
<1>25. ASSUME NEW d \in Dispatchers, Spawn(d) PROVE TypeOK'
  <2>1. work' \in [Claims -> Worker]
    BY <1>25, PhaseUpdate DEF Spawn, Phases
  <2> QED BY <2>1, <1>25 DEF Spawn, PcValues, locals, auxVars
<1>26. ASSUME NEW d \in Dispatchers, FailClaim(d) PROVE rec' \in [Jobs -> Record]
  <2>1. \A j \in Jobs : UpdateStatus(rec[j], "failed", {"claimed"}, 0, held[d]) \in Record
    BY UpdateStatusEffect DEF Stored, Terminal
  <2> QED BY <2>1, <1>26 DEF FailClaim
<1>27. ASSUME NEW d \in Dispatchers, SpawnFails(d) PROVE TypeOK'
  BY <1>26, <1>27 DEF SpawnFails, After, PcValues, locals, procVars, auxVars
<1>28. ASSUME NEW d \in Dispatchers, Mark(d) PROVE TypeOK'
  <2> DEFINE j == work[held[d]].job
  <2>1. ASSUME j \in Jobs
        PROVE  [rec[j] EXCEPT !.status = "running", !.pid = held[d]] \in Record
    <3>1. rec[j] \in Record /\ held[d] \in {0} \cup Claims /\ "running" \in Status
      BY <2>1 DEF Status, Stored, ActiveLease
    <3> HIDE DEF j
    <3> QED BY <3>1 DEF Record
  <2>2. rec' \in [Jobs -> Record]
    BY <2>1, <1>28 DEF Mark, MarkRunning
  <2>3. active' \in Nat
    BY <1>28 DEF Mark
  <2> QED BY <2>2, <2>3, <1>28 DEF Mark, After, PcValues, procVars, auxVars
<1>29. ASSUME NEW d \in Dispatchers, MarkFails(d) PROVE TypeOK'
  <2>1. work' \in [Claims -> Worker]
    BY <1>29, SignalledType DEF MarkFails
  <2> QED BY <2>1, <1>29 DEF MarkFails, PcValues, locals, auxVars
<1>30. ASSUME NEW d \in Dispatchers, GiveUp(d) PROVE TypeOK'
  BY <1>26, <1>30 DEF GiveUp, After, PcValues, locals, procVars, auxVars
<1>31. ASSUME NEW d \in Dispatchers, Leave(d) PROVE
          /\ rec' = rec /\ pc' \in [Dispatchers -> PcValues]
          /\ held' \in [Dispatchers -> {0} \cup Claims]
          /\ work' \in [Claims -> Worker]
  <2>1. work' \in [Claims -> Worker]
    BY <1>31, PhaseUpdate DEF Leave, Orphaned, Phases
  <2> QED BY <2>1, <1>31 DEF Leave, PcValues
<1>32. ASSUME NEW d \in Dispatchers, Stop(d) PROVE TypeOK'
  <2>1. userOps' \in 0..MaxUserOps
    BY <1>32 DEF Stop, Command
  <2>2. Leave(d) /\ UNCHANGED crashes
    BY <1>32 DEF Stop
  <2> QED BY <2>1, <2>2, <1>31 DEF Leave, locals
<1>33. ASSUME NEW d \in Dispatchers, Crash(d) PROVE TypeOK'
  <2>1. crashes' \in 0..MaxCrashes
    BY <1>33 DEF Crash
  <2>2. Leave(d) /\ UNCHANGED userOps
    BY <1>33 DEF Crash
  <2> QED BY <2>1, <2>2, <1>31 DEF Leave, locals
<1>34. ASSUME NEW c \in Claims, HandshakeOk(c) PROVE TypeOK'
  <2>1. work' \in [Claims -> Worker]
    BY <1>34, PhaseUpdate DEF HandshakeOk, Phases
  <2> QED BY <2>1, <1>34 DEF HandshakeOk, dispVars, auxVars
<1>35. ASSUME NEW c \in Claims, CalcStarts(c) PROVE TypeOK'
  <2>1. work' \in [Claims -> Worker]
    <3>1. work[c] \in Worker /\ "computing" \in Phases
      BY DEF Phases
    <3>2. [work[c] EXCEPT !.phase = "computing", !.calc = "live"] \in Worker
      BY <3>1 DEF Worker
    <3> QED BY <3>2, <1>35 DEF CalcStarts
  <2> QED BY <2>1, <1>35 DEF CalcStarts, dispVars, auxVars
<1>36. ASSUME NEW c \in Claims, CalcCannotStart(c) PROVE TypeOK'
  <2>1. \A j \in Jobs : UpdateStatus(rec[j], "failed", {"running"}, c, c) \in Record
    BY UpdateStatusEffect DEF Stored, Terminal
  <2>2. rec' \in [Jobs -> Record]
    BY <2>1, <1>36 DEF CalcCannotStart
  <2>3. work' \in [Claims -> Worker]
    BY <1>36, PhaseUpdate, EndedPhase DEF CalcCannotStart, Phases
  <2> QED BY <2>2, <2>3, <1>36 DEF CalcCannotStart, dispVars, auxVars
<1>37. ASSUME NEW c \in Claims, HandshakeTimeout(c) PROVE TypeOK'
  <2>1. \A j \in Jobs : UpdateStatus(rec[j], "failed", ActiveLease, 0, c) \in Record
    BY UpdateStatusEffect DEF Stored, Terminal
  <2>2. rec' \in [Jobs -> Record]
    BY <2>1, <1>37 DEF HandshakeTimeout
  <2>3. work' \in [Claims -> Worker]
    BY <1>37, PhaseUpdate, EndedPhase DEF HandshakeTimeout, Phases
  <2> QED BY <2>2, <2>3, <1>37 DEF HandshakeTimeout, dispVars, auxVars
<1>38. ASSUME NEW c \in Claims, NEW o \in Outcomes, CalcExits(c, o) PROVE TypeOK'
  <2> DEFINE e == IF work[c].phase = "computing" THEN o ELSE work[c].exit
             p == IF work[c].phase = "computing" THEN "publishing" ELSE work[c].phase
  <2>1. p \in Phases /\ e \in {"none"} \cup Outcomes /\ work[c] \in Worker
    BY DEF Phases, Worker
  <2>2. [work[c] EXCEPT !.calc = "ended", !.exit = e, !.phase = p] \in Worker
    BY <2>1 DEF Worker
  <2>3. work' \in [Claims -> Worker]
    BY <2>2, <1>38 DEF CalcExits
  <2> QED BY <2>3, <1>38 DEF CalcExits, dispVars, auxVars
<1>39. ASSUME NEW c \in Claims, Publish(c) PROVE TypeOK'
  <2>1. work[c].exit \in Stored
    BY <1>39 DEF IInv, CalcFollowsWorker, Publish, Worker, Stored
  <2>2. \A j \in Jobs : UpdateStatus(rec[j], work[c].exit, {"running"}, c, c) \in Record
    BY <2>1, UpdateStatusEffect
  <2>3. rec' \in [Jobs -> Record]
    BY <2>2, <1>39 DEF Publish
  <2>4. work' \in [Claims -> Worker]
    BY <1>39, PhaseUpdate, EndedPhase DEF Publish, Phases
  <2> QED BY <2>3, <2>4, <1>39 DEF Publish, dispVars, auxVars
<1>40. ASSUME NEW c \in Claims, WorkerDies(c) PROVE TypeOK'
  <2>1. work' \in [Claims -> Worker]
    BY <1>40, PhaseUpdate, EndedPhase DEF WorkerDies, Phases
  <2> QED BY <2>1, <1>40 DEF WorkerDies, dispVars
<1>41. CASE UNCHANGED vars
  BY <1>41 DEF vars, dispVars, procVars, auxVars
<1> QED
  BY <1>1, <1>2, <1>3, <1>4, <1>5, <1>6, <1>7, <1>8, <1>9, <1>10, <1>11,
     <1>12, <1>13, <1>14, <1>15, <1>16, <1>17, <1>18, <1>19, <1>20, <1>21,
     <1>22, <1>23, <1>24, <1>25, <1>27, <1>28, <1>29, <1>30, <1>32, <1>33,
     <1>34, <1>35, <1>36, <1>37, <1>38, <1>39, <1>40, <1>41
  DEF Next, UserStep, SchedulerStep, SubmitterStep, DispatchStep, WorkerStep

-------------------------------------------------------------------------------
(* Moves *)

Granted(j, d) ==
    /\ claims' = claims + 1
    /\ rec[j].status = "pending" /\ LeaseFree(j)
    /\ rec'[j] = Claimed(claims', d, Device[j])
    /\ \A o \in Jobs \ {j} : rec'[o] = rec[o]
    /\ work'[claims'] = [work[claims'] EXCEPT !.job = j, !.parent = d]

Becomes(j, status) == rec'[j] = [rec[j] EXCEPT !.status = status]

Over == {"zombie", "gone"}

\* The ways in which a step changes a record.
RecordMove(j) ==
    LET r == rec[j] IN
    \/ rec'[j] = r
    \/ r.status \in {"none", "paused", "claimed"} /\ rec'[j] = Unclaimed("pending")
    \/ r.status = "pending" /\ rec'[j] = Unclaimed("paused")
    \/ r.status \in Stored \ ActiveLease /\ rec'[j] = Unclaimed("gone")
    \/ r.status \in Stored \ Terminal /\ Becomes(j, "cancelled")
    \/ r.status \in {"pending", "claimed"} /\ Becomes(j, "failed")
    \/ r.status = "running" /\ work'[r.pid].phase \in Over /\ Becomes(j, "failed")
    \/ /\ r.status = "running" /\ work[r.pid].phase = "publishing"
       /\ work'[r.pid].phase \in Over /\ Becomes(j, work[r.pid].exit)
    \/ /\ r.status = "claimed"
       /\ rec'[j] = [r EXCEPT !.status = "running", !.pid = r.token]
    \/ \E d \in Dispatchers : Granted(j, d)

\* The ways in which a step changes a worker.
WorkerMove(c) ==
    LET w == work[c] IN
    \/ work'[c] = w
    \/ \E j \in Jobs, d \in Dispatchers : Granted(j, d) /\ c = claims'
    \/ /\ \E d \in Dispatchers : pc[d] = "spawn" /\ held[d] = c /\ pc'[d] = "mark"
       /\ work'[c] = [w EXCEPT !.phase = "handshake"]
    \/ /\ w.phase = "handshake" /\ rec[w.job].status = "running"
       /\ rec[w.job].pid = c /\ rec[w.job].token = c /\ rec' = rec
       /\ work'[c] = [w EXCEPT !.phase = "starting"]
    \/ /\ w.phase = "starting" /\ rec' = rec
       /\ \A e \in Claims \ {c} : work'[e] = work[e]
       /\ work'[c] = [w EXCEPT !.phase = "computing", !.calc = "live"]
    \/ /\ w.phase = "computing"
       /\ \E o \in Outcomes : work'[c] = [w EXCEPT !.phase = "publishing",
                                            !.calc = "ended", !.exit = o]
    \/ /\ w.phase # "computing" /\ w.calc \in {"live", "stopping"}
       /\ work'[c] = [w EXCEPT !.calc = "ended"]
    \/ \E p \in Over \cup {w.phase}, q \in {w.calc, "stopping"} :
          /\ p # w.phase => w.phase # "none"
          /\ q # w.calc => w.calc = "live"
          /\ work'[c] = [w EXCEPT !.phase = p, !.calc = q]

\* The ways in which a step changes what a dispatcher carries.
DispatcherMove(d) ==
    \/ pc'[d] \notin {"spawn", "mark", "giveUp"}
    \/ pc'[d] = pc[d] /\ held'[d] = held[d]
    \/ pc[d] = "spawn" /\ pc'[d] = "mark" /\ held'[d] = held[d]
    \/ pc[d] = "mark" /\ pc'[d] = "giveUp" /\ held'[d] = held[d]
    \/ pc'[d] = "spawn" /\ held'[d] = claims' /\ \E j \in Jobs : Granted(j, d)

Moves ==
    /\ claims' = claims \/ \E j \in Jobs, d \in Dispatchers : Granted(j, d)
    /\ \A j \in Jobs : RecordMove(j)
    /\ \A c \in Claims : WorkerMove(c)
    /\ \A d \in Dispatchers : DispatcherMove(d)

\* A worker that a step leaves alone.
LEMMA StillWorker ==
    ASSUME NEW c \in Claims, work'[c] = work[c] PROVE WorkerMove(c)
BY DEF WorkerMove

\* A record an action does not touch, and one it hands to update_status.
LEMMA UpdateStatusMove ==
    ASSUME TypeOK, NEW j \in Jobs, NEW expected, NEW pid, NEW token,
           NEW to \in Stored,
           rec'[j] = UpdateStatus(rec[j], to, expected, pid, token)
    PROVE  \/ rec'[j] = rec[j]
           \/ /\ rec[j].status \in expected \cap (Stored \ Terminal)
              /\ to \in Allowed(rec[j].status)
              /\ pid = 0 \/ rec[j].pid = pid
              /\ token = 0 \/ rec[j].token = token
              /\ rec'[j] = IF to \in {"pending", "paused"} THEN Unclaimed(to)
                           ELSE [rec[j] EXCEPT !.status = to]
<1>1. rec[j] \in Record
  BY DEF TypeOK
<1> QED BY <1>1, UpdateStatusEffect DEF Stored, Terminal, ActiveLease

\* Failing a record: it waited, was claimed or ran.
LEMMA FailMove ==
    ASSUME TypeOK, NEW j \in Jobs, NEW expected, NEW pid, NEW token,
           rec'[j] = UpdateStatus(rec[j], "failed", expected, pid, token)
    PROVE  \/ rec'[j] = rec[j]
           \/ /\ rec[j].status \in expected \cap {"pending", "claimed", "running"}
              /\ pid = 0 \/ rec[j].pid = pid
              /\ token = 0 \/ rec[j].token = token
              /\ Becomes(j, "failed")
<1>1. rec[j] \in Record
  BY DEF TypeOK
<1> QED BY <1>1 DEF UpdateStatus, Accepts, Allowed, Becomes, Stored, Terminal,
    ActiveLease

\* A step that leaves every worker alone.
LEMMA StillWorkers ==
    ASSUME work' = work PROVE \A c \in Claims : WorkerMove(c)
BY DEF WorkerMove

\* A step that leaves every record alone.
LEMMA StillRecords ==
    ASSUME rec' = rec PROVE \A j \in Jobs : RecordMove(j)
BY DEF RecordMove

\* A step that leaves every dispatcher alone.
LEMMA StillDispatchers ==
    ASSUME pc' = pc, held' = held PROVE \A d \in Dispatchers : DispatcherMove(d)
BY DEF DispatcherMove

\* A dispatcher outside the three states in which it carries a claim.
LEMMA LoopStep ==
    ASSUME TypeOK, NEW d \in Dispatchers, held' = held,
           \E p \in PcValues \ {"spawn", "mark", "giveUp"} : pc' = [pc EXCEPT ![d] = p]
    PROVE  \A e \in Dispatchers : DispatcherMove(e)
BY DEF DispatcherMove, TypeOK

\* A dispatcher that puts its claim down.
LEMMA Release ==
    ASSUME TypeOK, NEW d \in Dispatchers, held' = [held EXCEPT ![d] = 0],
           \E p \in PcValues \ {"spawn", "mark", "giveUp"} : pc' = [pc EXCEPT ![d] = p]
    PROVE  \A e \in Dispatchers : DispatcherMove(e)
BY DEF DispatcherMove, TypeOK

\* A claim granted by claim_job changes one record, one worker, one dispatcher.
LEMMA GrantMoves ==
    ASSUME IInv, NEW d \in Dispatchers, NEW j \in Jobs, Grant(d, j),
           rec[j].status = "pending", LeaseFree(j)
    PROVE  Moves
<1> TypeOK BY DEF IInv
<1>1. claims + 1 \in Claims
  BY ConstantsAssumption DEF Grant, TypeOK, Claims
<1>2. Granted(j, d)
  BY <1>1 DEF Granted, Grant, TypeOK
<1>3. \A o \in Jobs : RecordMove(o)
  BY <1>2, ZenonT(60) DEF RecordMove, Granted
<1>4. \A c \in Claims : WorkerMove(c)
  BY <1>1, <1>2 DEF WorkerMove, Grant, TypeOK
<1>5. \A e \in Dispatchers : DispatcherMove(e)
  BY <1>2 DEF DispatcherMove, Grant, TypeOK
<1> QED BY <1>2, <1>3, <1>4, <1>5 DEF Moves

\* Failing the claim a dispatcher carries.
LEMMA FailClaimMoves ==
    ASSUME IInv, NEW d \in Dispatchers, FailClaim(d),
           pc[d] \in {"spawn", "mark", "giveUp"}
    PROVE  \A j \in Jobs : RecordMove(j)
<1> TypeOK BY DEF IInv
<1> DEFINE k == work[held[d]].job
<1>1. k \in Jobs
  BY DEF IInv, CarriedClaim, ClaimsIssued, TypeOK, Worker
<1>2. rec' = [rec EXCEPT ![k] = UpdateStatus(rec[k], "failed", {"claimed"}, 0, held[d])]
  BY DEF FailClaim
<1> HIDE DEF k
<1>3. rec'[k] = UpdateStatus(rec[k], "failed", {"claimed"}, 0, held[d])
  BY <1>1, <1>2 DEF TypeOK
<1>4. RecordMove(k)
  <2>1. rec'[k] = rec[k] \/ (rec[k].status = "claimed" /\ Becomes(k, "failed"))
    <3>1. \/ rec'[k] = rec[k]
          \/ /\ rec[k].status \in {"claimed"} \cap {"pending", "claimed", "running"}
             /\ 0 = 0 \/ rec[k].pid = 0
             /\ held[d] = 0 \/ rec[k].token = held[d]
             /\ Becomes(k, "failed")
      BY <1>1, <1>3, FailMove
    <3> QED BY <3>1
  <2> QED BY <2>1 DEF RecordMove
<1>5. \A j \in Jobs \ {k} : rec'[j] = rec[j]
  BY <1>1, <1>2 DEF TypeOK
<1> QED BY <1>4, <1>5, ZenonT(60) DEF RecordMove

\* A worker that is signalled, and one that changes its phase only.
LEMMA SignalMove ==
    ASSUME TypeOK, NEW c \in Claims, work' = [work EXCEPT ![c] = Signalled(c)]
    PROVE  \A e \in Claims : WorkerMove(e)
<1> DEFINE p == IF WorkerUp(c) THEN Ended(c) ELSE work[c].phase
           q == IF work[c].calc = "live" THEN "stopping" ELSE work[c].calc
<1>1. work'[c] = [work[c] EXCEPT !.phase = p, !.calc = q]
  BY DEF Signalled, TypeOK
<1>2. p \in Over \cup {work[c].phase} /\ q \in {work[c].calc, "stopping"}
  BY EndedPhase DEF Over
<1>3. (p # work[c].phase => work[c].phase # "none") /\ (q # work[c].calc => work[c].calc = "live")
  BY DEF WorkerUp
<1> HIDE DEF p, q
<1>4. WorkerMove(c)
  <2>1. \E u \in Over \cup {work[c].phase}, v \in {work[c].calc, "stopping"} :
          /\ u # work[c].phase => work[c].phase # "none"
          /\ v # work[c].calc => work[c].calc = "live"
          /\ work'[c] = [work[c] EXCEPT !.phase = u, !.calc = v]
    BY <1>1, <1>2, <1>3
  <2> QED BY <2>1 DEF WorkerMove
<1>5. \A e \in Claims \ {c} : work'[e] = work[e]
  BY DEF TypeOK
<1>6. \A e \in Claims \ {c} : WorkerMove(e)
  BY <1>5 DEF WorkerMove
<1> QED BY <1>4, <1>6

\* A worker that ends, or is waited for.
LEMMA WorkerOver ==
    ASSUME TypeOK, NEW c \in Claims, NEW p \in Over,
           work[c].phase # "none", work'[c] = [work[c] EXCEPT !.phase = p]
    PROVE  WorkerMove(c)
<1>1. work'[c] = [work[c] EXCEPT !.phase = p, !.calc = work[c].calc]
  BY DEF TypeOK, Worker
<1> QED BY <1>1 DEF WorkerMove

\* Every step is made of the moves above.
LEMMA StepMoves ==
    ASSUME IInv, [Next]_vars PROVE Moves
<1> TypeOK BY DEF IInv
<1> USE ConstantsAssumption DEF TypeOK
<1>1. ASSUME NEW j \in Jobs, Enqueue(j) PROVE Moves
  <2>1. \A o \in Jobs : RecordMove(o)
    BY <1>1 DEF Enqueue, RecordMove
  <2> QED BY <2>1, <1>1, StillWorkers, StillDispatchers DEF Moves, Enqueue, dispVars, procVars
<1>2. ASSUME NEW j \in Jobs, PausePending(j) PROVE Moves
  <2>1. rec[j].status = "pending" /\ rec'[j] = UpdateStatus(rec[j], "paused", {"pending"}, 0, 0)
    BY <1>2 DEF PausePending
  <2>2. RecordMove(j)
    <3>1. rec'[j] = rec[j] \/ rec'[j] = Unclaimed("paused")
      BY <2>1 DEF UpdateStatus
    <3> QED BY <2>1, <3>1 DEF RecordMove
  <2>3. \A o \in Jobs : RecordMove(o)
    BY <1>2, <2>2 DEF PausePending, RecordMove
  <2> QED BY <2>3, <1>2, StillWorkers, StillDispatchers DEF Moves, PausePending, dispVars, procVars
<1>3. ASSUME NEW j \in Jobs, ResumePaused(j) PROVE Moves
  <2>1. rec[j].status = "paused" /\ rec'[j] = UpdateStatus(rec[j], "pending", {"paused"}, 0, 0)
    BY <1>3 DEF ResumePaused
  <2>2. RecordMove(j)
    <3>1. rec'[j] = rec[j] \/ rec'[j] = Unclaimed("pending")
      BY <2>1 DEF UpdateStatus
    <3> QED BY <2>1, <3>1 DEF RecordMove
  <2>3. \A o \in Jobs : RecordMove(o)
    BY <1>3, <2>2 DEF ResumePaused, RecordMove
  <2> QED BY <2>3, <1>3, StillWorkers, StillDispatchers DEF Moves, ResumePaused, dispVars, procVars
<1>4. ASSUME NEW j \in Jobs, KillJob(j) PROVE Moves
  <2>1. \A o \in Jobs : RecordMove(o)
    BY <1>4 DEF KillJob, RecordMove, Becomes, Stored, ActiveLease, Terminal
  <2> QED BY <2>1, <1>4, StillWorkers, StillDispatchers DEF Moves, KillJob, dispVars
<1>5. ASSUME NEW j \in Jobs, DeleteJob(j) PROVE Moves
  <2>1. \A o \in Jobs : RecordMove(o)
    BY <1>5 DEF DeleteJob, RecordMove
  <2> QED BY <2>1, <1>5, StillWorkers, StillDispatchers DEF Moves, DeleteJob, dispVars, procVars
<1>6. CASE Clean
  <2>1. \A o \in Jobs : RecordMove(o)
    BY <1>6 DEF Clean, RecordMove, Stored, Terminal, ActiveLease
  <2> QED BY <2>1, <1>6, StillWorkers, StillDispatchers DEF Moves, Clean, dispVars, procVars
<1>7. CASE PauseQueue \/ ResumeQueue \/ UNCHANGED vars
  <2>1. UNCHANGED <<rec, dispVars, procVars>>
    BY <1>7 DEF PauseQueue, ResumeQueue, vars
  <2> QED BY <2>1, StillRecords, StillWorkers, StillDispatchers DEF Moves, dispVars, procVars
<1>8. ASSUME NEW c \in Claims, DeliverKill(c) PROVE Moves
  BY <1>8, SignalMove, StillRecords, StillDispatchers DEF Moves, DeliverKill, dispVars
<1>9. ASSUME NEW s \in Schedulers,
             Start(s) \/ CountRunning(s) \/ CountClaimed(s) \/ Scan(s) \/ NothingToClaim(s) \/ Wake(s)
      PROVE  Moves
  <2>1. UNCHANGED <<rec, held, procVars>>
    BY <1>9 DEF Start, CountRunning, CountClaimed, Scan, NothingToClaim, Wake
  <2>2. \E p \in PcValues \ {"spawn", "mark", "giveUp"} : pc' = [pc EXCEPT ![s] = p]
    BY <1>9 DEF Start, CountRunning, CountClaimed, Scan, NothingToClaim, Wake, PcValues
  <2> QED BY <2>1, <2>2, LoopStep, StillRecords, StillWorkers DEF Moves, procVars, Dispatchers
<1>10. ASSUME NEW s \in Schedulers, Recover(s) PROVE Moves
  <2>1. \A o \in Jobs : RecordMove(o)
    BY <1>10 DEF Recover, RecordMove
  <2>2. \E p \in PcValues \ {"spawn", "mark", "giveUp"} : pc' = [pc EXCEPT ![s] = p]
    BY <1>10 DEF Recover, PcValues
  <2> QED BY <2>1, <2>2, <1>10, LoopStep, StillWorkers DEF Moves, Recover, procVars, Dispatchers
<1>11. ASSUME NEW s \in Schedulers, NEW c \in Claims, ReapChild(s, c) PROVE Moves
  <2>1. work'[c] = [work[c] EXCEPT !.phase = "gone"] /\ work[c].phase = "zombie"
    BY <1>11 DEF ReapChild
  <2>2. \A e \in Claims : WorkerMove(e)
    <3>1. WorkerMove(c)
      BY <2>1, WorkerOver DEF Over
    <3> QED BY <3>1, <1>11, ZenonT(60) DEF ReapChild, WorkerMove
  <2>3. ASSUME NEW j \in Jobs PROVE RecordMove(j)
    <3>1. CASE rec[j].pid # c
      BY <3>1, <1>11 DEF ReapChild, RecordMove
    <3>2. CASE rec[j].pid = c
      <4>1. rec'[j] = UpdateStatus(rec[j], "failed", {"running"}, c, 0)
        BY <3>2, <1>11 DEF ReapChild
      <4> QED BY <4>1, <3>2, <2>1, FailMove DEF RecordMove, Over, Worker
    <3> QED BY <3>1, <3>2
  <2> QED BY <2>2, <2>3, <1>11, StillDispatchers DEF Moves, ReapChild, dispVars
<1>12. ASSUME NEW s \in Schedulers, ReapGone(s) PROVE Moves
  <2>1. ASSUME NEW j \in Jobs PROVE RecordMove(j)
    <3>1. CASE rec[j].status = "running" /\ work[rec[j].pid].phase = "gone"
      <4>1. rec'[j] = UpdateStatus(rec[j], "failed", {"running"}, rec[j].pid, 0)
        BY <3>1, <1>12 DEF ReapGone
      <4>2. work'[rec[j].pid].phase \in Over
        BY <3>1, <1>12 DEF ReapGone, procVars, Over
      <4> QED BY <4>1, <4>2, FailMove DEF RecordMove
    <3>2. CASE ~(rec[j].status = "running" /\ work[rec[j].pid].phase = "gone")
      BY <3>2, <1>12 DEF ReapGone, RecordMove
    <3> QED BY <3>1, <3>2
  <2>2. \E p \in PcValues \ {"spawn", "mark", "giveUp"} : pc' = [pc EXCEPT ![s] = p]
    BY <1>12 DEF ReapGone, PcValues
  <2> QED BY <2>1, <2>2, <1>12, LoopStep, StillWorkers DEF Moves, ReapGone, procVars, Dispatchers
<1>13. ASSUME NEW s \in Schedulers, NEW j \in Jobs, Reject(s, j) PROVE Moves
  <2>1. rec'[j] = UpdateStatus(rec[j], "failed", {"pending"}, 0, 0)
    BY <1>13 DEF Reject
  <2>2. RecordMove(j)
    BY <2>1, FailMove DEF RecordMove
  <2>3. \A o \in Jobs : RecordMove(o)
    BY <1>13, <2>2, ZenonT(60) DEF Reject, RecordMove
  <2> QED BY <2>3, <1>13, StillWorkers, StillDispatchers DEF Moves, Reject, procVars
<1>14. ASSUME NEW s \in Schedulers, NEW j \in Jobs, Claim(s, j) PROVE Moves
  BY <1>14, GrantMoves DEF Claim, Dispatchers
<1>15. ASSUME NEW s \in Schedulers, NEW j \in Jobs, PassOver(s, j) PROVE Moves
  BY <1>15, StillRecords, StillWorkers, StillDispatchers DEF Moves, PassOver, procVars
<1>16. ASSUME NEW d \in Submitters, NEW j \in Jobs, SubmitEnqueue(d, j) PROVE Moves
  <2>1. \A o \in Jobs : RecordMove(o)
    BY <1>16 DEF SubmitEnqueue, RecordMove
  <2>2. \E p \in PcValues \ {"spawn", "mark", "giveUp"} : pc' = [pc EXCEPT ![d] = p]
    BY <1>16 DEF SubmitEnqueue, PcValues
  <2> QED BY <2>1, <2>2, <1>16, LoopStep, StillWorkers DEF Moves, SubmitEnqueue, procVars, Dispatchers
<1>17. ASSUME NEW d \in Submitters, SubmitClaim(d) PROVE Moves
  <2>1. target[d] \in Jobs
    BY <1>17 DEF IInv, SubmitterHasTarget, SubmitClaim
  <2> QED BY <2>1, <1>17, GrantMoves DEF SubmitClaim, Dispatchers
<1>18. ASSUME NEW d \in Submitters, SubmitRefused(d) PROVE Moves
  <2>1. \E p \in PcValues \ {"spawn", "mark", "giveUp"} : pc' = [pc EXCEPT ![d] = p]
    BY <1>18 DEF SubmitRefused, PcValues
  <2> QED BY <2>1, <1>18, LoopStep, StillRecords, StillWorkers DEF Moves, SubmitRefused, procVars, Dispatchers
<1>19. ASSUME NEW d \in Dispatchers, Spawn(d) PROVE Moves
  <2>1. \A c \in Claims : WorkerMove(c)
    BY <1>19 DEF Spawn, WorkerMove
  <2>2. \A e \in Dispatchers : DispatcherMove(e)
    BY <1>19 DEF Spawn, DispatcherMove
  <2> QED BY <2>1, <2>2, <1>19, StillRecords DEF Moves, Spawn
<1>20. ASSUME NEW d \in Dispatchers, SpawnFails(d) \/ GiveUp(d) PROVE Moves
  <2>1. \A j \in Jobs : RecordMove(j)
    BY <1>20, FailClaimMoves DEF SpawnFails, GiveUp
  <2>2. \E p \in PcValues \ {"spawn", "mark", "giveUp"} : pc' = [pc EXCEPT ![d] = p]
    BY <1>20 DEF SpawnFails, GiveUp, After, PcValues
  <2>3. held' = [held EXCEPT ![d] = 0] /\ UNCHANGED procVars
    BY <1>20 DEF SpawnFails, GiveUp
  <2> QED BY <2>1, <2>2, <2>3, Release, StillWorkers DEF Moves, procVars
<1>21. ASSUME NEW d \in Dispatchers, Mark(d) PROVE Moves
  <2> DEFINE k == work[held[d]].job
  <2>1. /\ k \in Jobs /\ held[d] # 0
    BY <1>21 DEF IInv, CarriedClaim, ClaimsIssued, Worker, Mark, Claims
  <2>2. /\ rec[k].status = "claimed" /\ rec[k].token = held[d]
        /\ rec' = [rec EXCEPT ![k].status = "running", ![k].pid = held[d]]
    BY <1>21, <2>1 DEF Mark, MarkRunning, Accepts
  <2> HIDE DEF k
  <2>3. \A j \in Jobs : RecordMove(j)
    <3>1. rec'[k] = [rec[k] EXCEPT !.status = "running", !.pid = rec[k].token]
      BY <2>1, <2>2
    <3>2. \A j \in Jobs \ {k} : rec'[j] = rec[j]
      BY <2>1, <2>2
    <3>3. RecordMove(k)
      BY <2>2, <3>1 DEF RecordMove
    <3> QED BY <3>2, <3>3, ZenonT(60) DEF RecordMove
  <2>4. \E p \in PcValues \ {"spawn", "mark", "giveUp"} : pc' = [pc EXCEPT ![d] = p]
    <3>1. pc' = [pc EXCEPT ![d] = After(d)]
      BY <1>21 DEF Mark
    <3>2. After(d) \in PcValues \ {"spawn", "mark", "giveUp"}
      BY DEF After, PcValues
    <3> QED BY <3>1, <3>2
  <2> QED BY <2>3, <2>4, <1>21, Release, StillWorkers DEF Moves, Mark, procVars
<1>22. ASSUME NEW d \in Dispatchers, MarkFails(d) PROVE Moves
  <2>1. held[d] \in Claims
    BY <1>22 DEF IInv, CarriedClaim, MarkFails
  <2>2. \A c \in Claims : WorkerMove(c)
    BY <1>22, <2>1, SignalMove DEF MarkFails
  <2>3. \A e \in Dispatchers : DispatcherMove(e)
    BY <1>22 DEF MarkFails, DispatcherMove
  <2> QED BY <2>2, <2>3, <1>22, StillRecords DEF Moves, MarkFails
<1>23. ASSUME NEW d \in Dispatchers, Stop(d) \/ Crash(d) PROVE Moves
  <2>1. Leave(d)
    BY <1>23 DEF Stop, Crash
  <2>2. ASSUME NEW c \in Claims PROVE WorkerMove(c)
    <3>1. CASE work[c].parent = d /\ work[c].phase = "zombie"
      BY <3>1, <2>1, WorkerOver DEF Leave, Orphaned, Over
    <3>2. CASE ~(work[c].parent = d /\ work[c].phase = "zombie")
      BY <3>2, <2>1 DEF Leave, Orphaned, WorkerMove
    <3> QED BY <3>1, <3>2
  <2>3. \A e \in Dispatchers : DispatcherMove(e)
    BY <2>1, Release DEF Leave, PcValues
  <2> QED BY <2>1, <2>2, <2>3, StillRecords DEF Moves, Leave
<1>24. ASSUME NEW c \in Claims, HandshakeOk(c) PROVE Moves
  <2>1. \A e \in Claims : WorkerMove(e)
    BY <1>24 DEF HandshakeOk, WorkerMove
  <2> QED BY <2>1, <1>24, StillRecords, StillDispatchers DEF Moves, HandshakeOk, dispVars
<1>25. ASSUME NEW c \in Claims, CalcStarts(c) PROVE Moves
  <2>1. work'[c] = [work[c] EXCEPT !.phase = "computing", !.calc = "live"]
    BY <1>25 DEF CalcStarts
  <2>2. \A e \in Claims : WorkerMove(e)
    <3>1. \A e \in Claims \ {c} : work'[e] = work[e]
      BY <1>25 DEF CalcStarts
    <3>2. WorkerMove(c)
      BY <1>25, <2>1, <3>1 DEF CalcStarts, WorkerMove
    <3> QED BY <3>1, <3>2, StillWorker
  <2> QED BY <2>2, <1>25, StillRecords, StillDispatchers DEF Moves, CalcStarts, dispVars
<1>26. ASSUME NEW c \in Claims, CalcCannotStart(c) \/ HandshakeTimeout(c) \/ Publish(c)
       PROVE  Moves
  <2> DEFINE k == work[c].job
  <2>1. work' = [work EXCEPT ![c].phase = Ended(c)] /\ work[c].phase # "none"
    BY <1>26 DEF CalcCannotStart, HandshakeTimeout, Publish
  <2>2. work'[c] = [work[c] EXCEPT !.phase = Ended(c)] /\ Ended(c) \in Over
    BY <2>1, EndedPhase DEF Over
  <2>3. \A e \in Claims : WorkerMove(e)
    <3>1. WorkerMove(c)
      BY <2>1, <2>2, WorkerOver
    <3>2. \A e \in Claims \ {c} : work'[e] = work[e]
      BY <2>1
    <3> QED BY <3>1, <3>2, StillWorker
  <2>4. k \in Jobs
    BY <2>1 DEF IInv, ClaimsIssued, Worker, Claims
  <2>5. \A j \in Jobs \ {k} : rec'[j] = rec[j]
    BY <1>26, <2>4 DEF CalcCannotStart, HandshakeTimeout, Publish
  <2>6. RecordMove(k)
    <3>1. CASE CalcCannotStart(c)
      <4>1. rec'[k] = UpdateStatus(rec[k], "failed", {"running"}, c, c)
        BY <3>1, <2>4 DEF CalcCannotStart
      <4> QED BY <4>1, <2>2, <2>4, FailMove DEF RecordMove, Worker, Claims
    <3>2. CASE HandshakeTimeout(c)
      <4>1. rec'[k] = UpdateStatus(rec[k], "failed", ActiveLease, 0, c)
        BY <3>2, <2>4 DEF HandshakeTimeout
      <4>2. rec[k].status = "running" /\ rec[k].token = c => rec[k].pid = c
        BY <2>4 DEF IInv, RecordShape
      <4>3. work'[c].phase \in Over
        BY <2>2 DEF Worker
      <4>4. \/ rec'[k] = rec[k]
            \/ /\ rec[k].status \in ActiveLease /\ rec[k].token = c
               /\ Becomes(k, "failed")
        BY <4>1, <2>4, FailMove DEF Claims
      <4> QED BY <4>2, <4>3, <4>4 DEF RecordMove, ActiveLease
    <3>3. CASE Publish(c)
      <4>1. rec'[k] = UpdateStatus(rec[k], work[c].exit, {"running"}, c, c)
        BY <3>3, <2>4 DEF Publish
      <4>2. work[c].exit \in Terminal /\ work[c].phase = "publishing"
        BY <3>3 DEF IInv, CalcFollowsWorker, Publish, Worker
      <4>3. work[c].exit \in Stored /\ work[c].exit \notin {"pending", "paused"}
        BY <4>2 DEF Stored, Terminal
      <4>4. work'[c].phase \in Over
        BY <2>2 DEF Worker
      <4>5. \/ rec'[k] = rec[k]
            \/ /\ rec[k].status = "running" /\ rec[k].pid = c
               /\ Becomes(k, work[c].exit)
        BY <4>1, <4>3, <2>4, UpdateStatusMove DEF Claims, Becomes
      <4> QED BY <4>2, <4>4, <4>5 DEF RecordMove
    <3> QED BY <3>1, <3>2, <3>3, <1>26
  <2>7. \A j \in Jobs : RecordMove(j)
    BY <2>5, <2>6, ZenonT(60) DEF RecordMove
  <2>8. UNCHANGED <<claims, pc, held>>
    BY <1>26 DEF CalcCannotStart, HandshakeTimeout, Publish, dispVars
  <2> QED BY <2>3, <2>7, <2>8, StillDispatchers DEF Moves
<1>27. ASSUME NEW c \in Claims, NEW o \in Outcomes, CalcExits(c, o) PROVE Moves
  <2>1. \A e \in Claims \ {c} : work'[e] = work[e]
    BY <1>27 DEF CalcExits
  <2>2. WorkerMove(c)
    <3>1. CASE work[c].phase = "computing"
      <4>1. work'[c] = [work[c] EXCEPT !.phase = "publishing", !.calc = "ended", !.exit = o]
        BY <3>1, <1>27 DEF CalcExits, Worker
      <4> QED BY <4>1, <3>1 DEF WorkerMove
    <3>2. CASE work[c].phase # "computing"
      <4>1. work'[c] = [work[c] EXCEPT !.calc = "ended"]
        BY <3>2, <1>27 DEF CalcExits, Worker
      <4> QED BY <4>1, <3>2, <1>27 DEF WorkerMove, CalcExits
    <3> QED BY <3>1, <3>2
  <2>3. \A e \in Claims : WorkerMove(e)
    BY <2>1, <2>2, StillWorker
  <2> QED BY <2>3, <1>27, StillRecords, StillDispatchers DEF Moves, CalcExits, dispVars
<1>28. ASSUME NEW c \in Claims, WorkerDies(c) PROVE Moves
  <2>1. work'[c] = [work[c] EXCEPT !.phase = Ended(c)] /\ work[c].phase # "none" /\ Ended(c) \in Over
    BY <1>28, EndedPhase DEF WorkerDies, WorkerUp, Over
  <2>2. WorkerMove(c)
    BY <2>1, WorkerOver
  <2>3. \A e \in Claims : WorkerMove(e)
    <3>1. \A e \in Claims \ {c} : work'[e] = work[e]
      BY <1>28 DEF WorkerDies
    <3> QED BY <2>2, <3>1, StillWorker
  <2> QED BY <2>3, <1>28, StillRecords, StillDispatchers DEF Moves, WorkerDies, dispVars
<1> QED
  BY <1>1, <1>2, <1>3, <1>4, <1>5, <1>6, <1>7, <1>8, <1>9, <1>10, <1>11,
     <1>12, <1>13, <1>14, <1>15, <1>16, <1>17, <1>18, <1>19, <1>20, <1>21,
     <1>22, <1>23, <1>24, <1>25, <1>26, <1>27, <1>28
  DEF Next, UserStep, SchedulerStep, SubmitterStep, DispatchStep, WorkerStep
-------------------------------------------------------------------------------

\* The claim made in a step is the next number; every claim made before
\* keeps its job and its dispatcher.
LEMMA ClaimsKept ==
    ASSUME IInv, Moves
    PROVE  /\ claims' = claims \/ claims' = claims + 1
           /\ \A c \in Claims : c <= claims =>
                 /\ work'[c].job = work[c].job
                 /\ work'[c].parent = work[c].parent
<1> TypeOK BY DEF IInv
<1>1. claims' = claims \/ claims' = claims + 1
  BY DEF Moves, Granted
<1>2. ASSUME NEW c \in Claims, c <= claims
      PROVE  work'[c].job = work[c].job /\ work'[c].parent = work[c].parent
  <2>1. work[c] \in Worker /\ c \in Nat /\ claims \in Nat
    BY ConstantsAssumption DEF TypeOK, Claims
  <2>2. ~ \E j \in Jobs, d \in Dispatchers : Granted(j, d) /\ c = claims'
    <3> SUFFICES ASSUME NEW j \in Jobs, NEW d \in Dispatchers, Granted(j, d), c = claims'
                 PROVE  FALSE
      OBVIOUS
    <3>1. claims' = claims + 1
      BY DEF Granted
    <3> QED BY <1>2, <2>1, <3>1
  <2>3. WorkerMove(c)
    BY DEF Moves
  <2> QED BY <2>1, <2>2, <2>3 DEF WorkerMove, Worker
<1> QED BY <1>1, <1>2


\* What a record can be after a step: the same; empty again; ended, with the
\* claim it had; running with the pid of its token; or newly claimed.
LEMMA RecordAfter ==
    ASSUME IInv, Moves, NEW j \in Jobs
    PROVE  \/ rec'[j] = rec[j]
           \/ /\ rec[j].status \in {"none", "paused", "claimed"}
              /\ rec'[j] = Unclaimed("pending")
           \/ rec[j].status = "pending" /\ rec'[j] = Unclaimed("paused")
           \/ /\ rec[j].status \in {"pending", "paused"} \cup Terminal
              /\ rec'[j] = Unclaimed("gone")
           \/ /\ rec[j].status \in {"pending", "paused", "claimed", "running"}
              /\ rec'[j].status \in Terminal
              /\ rec'[j].pid = rec[j].pid /\ rec'[j].token = rec[j].token
              /\ \/ rec'[j].status = "cancelled"
                 \/ rec'[j].status = "failed" /\ rec[j].status \in {"pending", "claimed"}
                 \/ /\ rec[j].status = "running"
                    /\ work'[rec[j].pid].phase \in Over
                    /\ \/ rec'[j].status = "failed"
                       \/ /\ work[rec[j].pid].phase = "publishing"
                          /\ rec'[j].status = work[rec[j].pid].exit
           \/ /\ rec[j].status = "claimed" /\ rec'[j].status = "running"
              /\ rec'[j].pid = rec[j].token /\ rec'[j].token = rec[j].token
              /\ rec'[j].gpu = rec[j].gpu
           \/ \E d \in Dispatchers : Granted(j, d)
<1> TypeOK BY DEF IInv
<1>1. RecordMove(j) /\ rec[j] \in Record
  BY DEF Moves, TypeOK
<1>2. ASSUME NEW s, Becomes(j, s)
      PROVE  rec'[j].status = s /\ rec'[j].pid = rec[j].pid /\ rec'[j].token = rec[j].token
  BY <1>1, <1>2 DEF Becomes, Record
<1>3. ASSUME rec[j].status = "running", work[rec[j].pid].phase = "publishing"
      PROVE  work[rec[j].pid].exit \in Terminal
  <2>1. rec[j].pid \in Claims
    BY <1>1, <1>3 DEF IInv, RecordShape, Record
  <2> QED BY <1>3, <2>1, ConstantsAssumption
          DEF IInv, CalcFollowsWorker, TypeOK, Worker
<1>4. CASE rec[j].status \in Stored \ Terminal /\ Becomes(j, "cancelled")
  BY <1>2, <1>4 DEF Stored, ActiveLease, Terminal
<1>5. CASE rec[j].status \in {"pending", "claimed"} /\ Becomes(j, "failed")
  BY <1>2, <1>5 DEF Terminal
<1>6. CASE rec[j].status = "running" /\ work'[rec[j].pid].phase \in Over /\ Becomes(j, "failed")
  BY <1>2, <1>6 DEF Terminal
<1>7. CASE /\ rec[j].status = "running" /\ work[rec[j].pid].phase = "publishing"
           /\ work'[rec[j].pid].phase \in Over /\ Becomes(j, work[rec[j].pid].exit)
  BY <1>2, <1>3, <1>7
<1>8. CASE /\ rec[j].status = "claimed"
           /\ rec'[j] = [rec[j] EXCEPT !.status = "running", !.pid = rec[j].token]
  BY <1>1, <1>8 DEF Record
<1>9. CASE rec[j].status \in Stored \ ActiveLease /\ rec'[j] = Unclaimed("gone")
  BY <1>9 DEF Stored, ActiveLease
<1> QED BY <1>1, <1>4, <1>5, <1>6, <1>7, <1>8, <1>9 DEF RecordMove

\* What a newly claimed record looks like.
LEMMA GrantedShape ==
    ASSUME IInv, NEW j \in Jobs, NEW d \in Dispatchers, Granted(j, d)
    PROVE  /\ claims' = claims + 1 /\ claims' # 0
           /\ rec[j].status = "pending" /\ rec'[j].status = "claimed"
           /\ rec'[j].token = claims' /\ rec'[j].pid = 0
           /\ rec'[j].gpu = Device[j]
BY DEF Granted, Claimed, IInv, TypeOK

\* The shape of a record survives every move.
LEMMA ShapeKept ==
    ASSUME IInv, Moves PROVE RecordShape'
<1> TypeOK BY DEF IInv
<1> SUFFICES ASSUME NEW j \in Jobs
             PROVE  /\ rec'[j].status \in {"none", "pending", "paused", "gone"} =>
                          rec'[j] = Unclaimed(rec'[j].status)
                    /\ rec'[j].status = "claimed" => rec'[j].token # 0 /\ rec'[j].pid = 0
                    /\ rec'[j].status = "running" =>
                          rec'[j].token # 0 /\ rec'[j].pid = rec'[j].token
                    /\ rec'[j].status \in ActiveLease => rec'[j].gpu = Device[j]
                    /\ rec'[j].pid # 0 => rec'[j].pid = rec'[j].token
  BY DEF RecordShape, Unclaimed
<1>1. /\ rec[j].status \in {"none", "pending", "paused", "gone"} =>
            rec[j] = Unclaimed(rec[j].status)
      /\ rec[j].status = "claimed" => rec[j].token # 0 /\ rec[j].pid = 0
      /\ rec[j].status = "running" => rec[j].token # 0 /\ rec[j].pid = rec[j].token
      /\ rec[j].status \in ActiveLease => rec[j].gpu = Device[j]
      /\ rec[j].pid # 0 => rec[j].pid = rec[j].token
  BY DEF IInv, RecordShape
<1>2. CASE \E s \in {"pending", "paused", "gone"} : rec'[j] = Unclaimed(s)
  BY <1>2 DEF Unclaimed, ActiveLease
<1>3. CASE /\ rec'[j].status \in Terminal
           /\ rec'[j].pid = rec[j].pid /\ rec'[j].token = rec[j].token
  BY <1>1, <1>3 DEF Terminal, ActiveLease
<1>4. CASE /\ rec[j].status = "claimed" /\ rec'[j].status = "running"
           /\ rec'[j].pid = rec[j].token /\ rec'[j].token = rec[j].token
           /\ rec'[j].gpu = rec[j].gpu
  BY <1>1, <1>4 DEF ActiveLease
<1>5. CASE \E d \in Dispatchers : Granted(j, d)
  BY <1>5, GrantedShape DEF ActiveLease
<1>6. CASE rec'[j] = rec[j]
  BY <1>1, <1>6
<1> QED BY <1>2, <1>3, <1>4, <1>5, <1>6, RecordAfter

\* Every token on a record is the number of a claim made for its job.
LEMMA TokensKept ==
    ASSUME IInv, Moves, TypeOK' PROVE TokensIssued'
<1> TypeOK BY DEF IInv
<1> SUFFICES ASSUME NEW j \in Jobs, rec'[j].token # 0
             PROVE  rec'[j].token <= claims' /\ work'[rec'[j].token].job = j
  BY DEF TokensIssued
<1>1. ASSUME rec'[j].token = rec[j].token
      PROVE  rec'[j].token <= claims' /\ work'[rec'[j].token].job = j
  <2>1. rec[j].token \in Claims /\ rec[j].token <= claims /\ work[rec[j].token].job = j
    BY <1>1 DEF IInv, TokensIssued, TypeOK, Record
  <2>2. claims \in Nat /\ claims' \in Nat /\ rec[j].token \in Nat
    BY <2>1, ConstantsAssumption DEF TypeOK, Claims
  <2> QED BY <1>1, <2>1, <2>2, ClaimsKept
<1>2. ASSUME NEW d \in Dispatchers, Granted(j, d)
      PROVE  rec'[j].token <= claims' /\ work'[rec'[j].token].job = j
  <2>1. rec'[j].token = claims' /\ claims' \in Claims
    BY <1>2, GrantedShape, ConstantsAssumption DEF TypeOK, Claims
  <2>2. work[claims'] \in Worker /\ claims' \in Nat
    BY <2>1 DEF TypeOK, Claims
  <2>3. work'[claims'] = [work[claims'] EXCEPT !.job = j, !.parent = d]
    BY <1>2 DEF Granted
  <2>4. work'[claims'].job = j
    BY <2>2, <2>3 DEF Worker
  <2> QED BY <2>1, <2>2, <2>4
<1>3. ASSUME NEW s, rec'[j] = Unclaimed(s) PROVE FALSE
  BY <1>3 DEF Unclaimed
<1> QED BY <1>1, <1>2, <1>3, RecordAfter

\* A newly granted claim gets its job and dispatcher, nothing else.
LEMMA GrantedWorker ==
    ASSUME TypeOK, NEW c \in Claims, NEW j \in Jobs, NEW d \in Dispatchers,
           Granted(j, d), c = claims'
    PROVE  /\ work'[c].job = j /\ work'[c].parent = d
           /\ work'[c].phase = work[c].phase /\ work'[c].calc = work[c].calc
           /\ work'[c].exit = work[c].exit
<1>1. work[c] \in Worker
  BY DEF TypeOK
<1>2. work'[c] = [work[c] EXCEPT !.job = j, !.parent = d]
  BY DEF Granted
<1> QED BY <1>1, <1>2 DEF Worker

\* A claim whose worker nobody spawns or grants in a step has none after it.
LEMMA UnspawnedStays ==
    ASSUME TypeOK, NEW c \in Claims, WorkerMove(c),
           work[c].phase = "none", work[c].calc = "none",
           ~ \E d \in Dispatchers : pc[d] = "spawn" /\ held[d] = c /\ pc'[d] = "mark",
           ~ \E j \in Jobs, d \in Dispatchers : Granted(j, d) /\ c = claims'
    PROVE  work'[c].phase = "none" /\ work'[c].calc = "none"
<1>1. work[c] \in Worker
  BY DEF TypeOK
<1>2. \/ work'[c] = work[c]
      \/ \E p \in Over \cup {"none"}, q \in {"none", "stopping"} :
            /\ p # "none" => work[c].phase # "none"
            /\ q # "none" => work[c].calc = "live"
            /\ work'[c] = [work[c] EXCEPT !.phase = p, !.calc = q]
  BY DEF WorkerMove
<1>3. \/ work'[c] = work[c]
      \/ work'[c] = [work[c] EXCEPT !.phase = "none", !.calc = "none"]
  BY <1>2
<1> QED BY <1>1, <1>3 DEF Worker

\* Claims made have a job and a dispatcher, the others have no worker.
LEMMA ClaimsIssuedKept ==
    ASSUME IInv, Moves, TypeOK' PROVE ClaimsIssued'
<1> TypeOK BY DEF IInv
<1> SUFFICES ASSUME NEW c \in Claims
             PROVE  /\ c <= claims' => work'[c].job # 0 /\ work'[c].parent # 0
                    /\ c > claims' => work'[c].phase = "none" /\ work'[c].calc = "none"
  BY DEF ClaimsIssued
<1>1. c \in Nat /\ claims \in Nat /\ claims' \in Nat /\ work[c] \in Worker
  BY ConstantsAssumption DEF TypeOK, Claims
<1>2. CASE c <= claims
  <2>1. work[c].job # 0 /\ work[c].parent # 0
    BY <1>2 DEF IInv, ClaimsIssued
  <2>2. work'[c].job = work[c].job /\ work'[c].parent = work[c].parent
    BY <1>2, ClaimsKept
  <2>3. c <= claims'
    BY <1>1, <1>2, ClaimsKept
  <2> QED BY <1>1, <2>1, <2>2, <2>3
<1>3. CASE c > claims
  <2>1. work[c].phase = "none" /\ work[c].calc = "none"
    BY <1>3 DEF IInv, ClaimsIssued
  <2>2. CASE \E j \in Jobs, d \in Dispatchers : Granted(j, d) /\ c = claims'
    <3>1. PICK j \in Jobs, d \in Dispatchers : Granted(j, d) /\ c = claims'
      BY <2>2
    <3>2. work'[c].job = j /\ work'[c].parent = d
      BY <1>1, <3>1 DEF Granted, Worker
    <3> QED BY <1>1, <3>1, <3>2, ConstantsAssumption DEF Jobs, Dispatchers
  <2>3. CASE ~ \E j \in Jobs, d \in Dispatchers : Granted(j, d) /\ c = claims'
    <3>1. c # claims'
      BY <1>1, <1>3, <2>3 DEF Moves
    <3>2. c > claims'
      BY <1>1, <1>3, <3>1, ClaimsKept
    <3>3. \A d \in Dispatchers : ~(pc[d] = "spawn" /\ held[d] = c)
      BY <1>1, <1>3 DEF IInv, CarriedClaim
    <3>4. WorkerMove(c)
      BY DEF Moves
    <3>5. work'[c].phase = "none" /\ work'[c].calc = "none"
      BY <2>1, <2>3, <3>3, <3>4, UnspawnedStays
    <3> QED BY <1>1, <3>2, <3>5
  <2> QED BY <2>2, <2>3
<1> QED BY <1>1, <1>2, <1>3

\* What a dispatcher carries stays its own until it puts it down.
LEMMA CarriedKept ==
    ASSUME IInv, Moves, TypeOK' PROVE CarriedClaim'
<1> TypeOK BY DEF IInv
<1> SUFFICES ASSUME NEW d \in Dispatchers, pc'[d] \in {"spawn", "mark", "giveUp"}
             PROVE  /\ held'[d] \in Claims /\ held'[d] <= claims'
                    /\ work'[held'[d]].parent = d
                    /\ pc'[d] = "spawn" => work'[held'[d]].phase = "none"
  BY DEF CarriedClaim
<1>1. DispatcherMove(d)
  BY DEF Moves
<1>2. CASE pc[d] \in {"spawn", "mark", "giveUp"} /\ held'[d] = held[d]
           /\ (pc'[d] = "spawn" => pc[d] = "spawn")
  <2>1. /\ held[d] \in Claims /\ held[d] <= claims /\ work[held[d]].parent = d
        /\ pc[d] = "spawn" => work[held[d]].phase = "none"
    BY <1>2 DEF IInv, CarriedClaim
  <2>2. held[d] \in Nat /\ claims \in Nat /\ claims' \in Nat /\ work[held[d]] \in Worker
    BY <2>1, ConstantsAssumption DEF TypeOK, Claims
  <2>3. held[d] <= claims' /\ work'[held[d]].parent = d
    BY <2>1, <2>2, ClaimsKept
  <2>4. ASSUME pc'[d] = "spawn" PROVE work'[held[d]].phase = "none"
    <3>1. pc[d] = "spawn" /\ work[held[d]].phase = "none" /\ work[held[d]].calc = "none"
      BY <1>2, <2>1, <2>4 DEF IInv, CalcFollowsWorker
    <3>2. ~ \E e \in Dispatchers : pc[e] = "spawn" /\ held[e] = held[d] /\ pc'[e] = "mark"
      BY <2>1, <2>4, <3>1 DEF IInv, CarriedClaim
    <3>3. ~ \E j \in Jobs, e \in Dispatchers : Granted(j, e) /\ held[d] = claims'
      <4> SUFFICES ASSUME NEW j \in Jobs, NEW e \in Dispatchers,
                          Granted(j, e), held[d] = claims'
                   PROVE  FALSE
        OBVIOUS
      <4>1. claims' = claims + 1
        BY DEF Granted
      <4> QED BY <2>1, <2>2, <4>1
    <3>4. WorkerMove(held[d])
      BY <2>1 DEF Moves
    <3> QED BY <2>1, <3>1, <3>2, <3>3, <3>4, UnspawnedStays
  <2> QED BY <1>2, <2>1, <2>3, <2>4
<1>3. CASE /\ pc'[d] = "spawn" /\ held'[d] = claims'
           /\ \E j \in Jobs : Granted(j, d)
  <2>1. PICK j \in Jobs : Granted(j, d)
    BY <1>3
  <2>2. claims' = claims + 1 /\ claims' \in Claims /\ claims \in Nat
    BY <2>1, ConstantsAssumption DEF Granted, TypeOK, Claims
  <2>3. work[claims'] \in Worker /\ work[claims'].phase = "none"
    BY <2>2 DEF IInv, ClaimsIssued, TypeOK, Claims
  <2>4. work'[claims'].parent = d /\ work'[claims'].phase = "none"
    BY <2>1, <2>3 DEF Granted, Worker
  <2> QED BY <1>3, <2>2, <2>4
<1> QED BY <1>1, <1>2, <1>3 DEF DispatcherMove

\* A begun worker keeps its record from everyone else.
LEMMA BegunKept ==
    ASSUME IInv, Moves, TypeOK' PROVE BegunOwnsRecord' /\ BegunOnce'
<1> TypeOK BY DEF IInv
<1> DEFINE Owns(c) == /\ c <= claims
                      /\ \/ rec[work[c].job].status = "gone"
                         \/ /\ rec[work[c].job].status \in {"running"} \cup Terminal
                            /\ rec[work[c].job].token = c
                            /\ rec[work[c].job].pid = c
           Begins(c) == /\ work[c].phase = "handshake" /\ rec' = rec
                        /\ rec[work[c].job].status = "running"
                        /\ rec[work[c].job].token = c
                        /\ rec[work[c].job].pid = c
<1>1. ASSUME NEW c \in Claims, Begun(c) PROVE Owns(c) /\ work[c].job \in Jobs
  BY <1>1 DEF IInv, BegunOwnsRecord, ClaimsIssued, TypeOK, Worker
<1>2. ASSUME NEW c \in Claims, Begins(c) PROVE Owns(c) /\ work[c].job \in Jobs
  <2>1. work[c].job \in Jobs
    <3>1. c <= claims
      BY <1>2, ConstantsAssumption DEF IInv, ClaimsIssued, TypeOK, Claims
    <3> QED BY <3>1 DEF IInv, ClaimsIssued, TypeOK, Worker
  <2>2. c <= claims
    BY <1>2, <2>1 DEF IInv, TokensIssued, Claims
  <2> QED BY <1>2, <2>1, <2>2
<1>3. ASSUME NEW c \in Claims, Begun(c)' PROVE Begun(c) \/ Begins(c)
  <2>1. WorkerMove(c) /\ work[c] \in Worker
    BY DEF Moves, TypeOK
  <2>2. CASE \E j \in Jobs, d \in Dispatchers : Granted(j, d) /\ c = claims'
    <3>1. work'[c].phase = work[c].phase /\ work'[c].calc = work[c].calc
      BY <2>2, GrantedWorker
    <3> QED BY <1>3, <3>1 DEF Begun
  <2>3. CASE work'[c] = [work[c] EXCEPT !.phase = "handshake"]
    BY <1>3, <2>1, <2>3 DEF Begun, Worker
  <2>4. CASE \E p \in Over \cup {work[c].phase}, q \in {work[c].calc, "stopping"} :
                /\ p # work[c].phase => work[c].phase # "none"
                /\ q # work[c].calc => work[c].calc = "live"
                /\ work'[c] = [work[c] EXCEPT !.phase = p, !.calc = q]
    BY <1>3, <2>1, <2>4 DEF Begun, Worker, Over
  <2> QED BY <1>3, <2>1, <2>2, <2>3, <2>4 DEF WorkerMove, Begun
<1>4. ASSUME NEW c \in Claims, Begun(c)' PROVE Owns(c) /\ work[c].job \in Jobs
  BY <1>1, <1>2, <1>3, <1>4
<1>5. ASSUME NEW c \in Claims, Begun(c)' PROVE work'[c].job = work[c].job
  BY <1>4, <1>5, ClaimsKept
<1>6. ASSUME NEW c \in Claims, Begun(c)' PROVE Owns(c)'
  <2> DEFINE j == work[c].job
  <2>1. j \in Jobs /\ Owns(c) /\ work'[c].job = j
    BY <1>4, <1>5, <1>6
  <2>2. c <= claims'
    BY <2>1, ClaimsKept, ConstantsAssumption DEF TypeOK, Claims
  <2>3. \/ rec'[j].status = "gone"
        \/ /\ rec'[j].status \in {"running"} \cup Terminal
           /\ rec'[j].token = c /\ rec'[j].pid = c
    <3> HIDE DEF j
    <3>1. rec[j].status \in {"running", "gone"} \cup Terminal
      BY <2>1 DEF j
    <3>2. CASE rec'[j] = Unclaimed("gone")
      BY <3>2 DEF Unclaimed
    <3>3. ~ \E d \in Dispatchers : Granted(j, d)
      BY <2>1, <3>1, GrantedShape DEF Terminal
    <3>4. \/ rec'[j] = rec[j]
          \/ rec'[j] = Unclaimed("gone")
          \/ /\ rec[j].status = "running" /\ rec'[j].status \in Terminal
             /\ rec'[j].pid = rec[j].pid /\ rec'[j].token = rec[j].token
      BY <2>1, <3>1, <3>3, RecordAfter DEF Terminal
    <3> QED BY <2>1, <3>2, <3>4 DEF j
  <2> QED BY <2>1, <2>2, <2>3
<1>7. ASSUME NEW c \in Claims, NEW e \in Claims, Begun(c)', Begun(e)',
             work'[c].job = work'[e].job
      PROVE  c = e
  <2>1. work[c].job = work[e].job
    BY <1>5, <1>7
  <2>2. CASE Begun(c) /\ Begun(e)
    BY <2>1, <2>2 DEF IInv, BegunOnce
  <2>3. CASE Begins(c) \/ Begins(e)
    BY <2>1, <2>3, <1>4, <1>7 DEF Terminal
  <2> QED BY <2>2, <2>3, <1>3, <1>7
<1> QED BY <1>6, <1>7 DEF BegunOwnsRecord, BegunOnce

\* A calculation never runs ahead of its worker's handshake.
LEMMA CalcKept ==
    ASSUME IInv, Moves, TypeOK' PROVE CalcFollowsWorker'
<1> TypeOK BY DEF IInv
<1> SUFFICES ASSUME NEW c \in Claims
             PROVE  /\ work'[c].phase \in {"none", "handshake", "starting"} =>
                          work'[c].calc = "none"
                    /\ work'[c].phase = "computing" =>
                          work'[c].calc \in {"live", "stopping"}
                    /\ work'[c].phase = "publishing" =>
                          work'[c].calc = "ended" /\ work'[c].exit # "none"
  BY DEF CalcFollowsWorker
<1>1. /\ work[c].phase \in {"none", "handshake", "starting"} => work[c].calc = "none"
      /\ work[c].phase = "computing" => work[c].calc \in {"live", "stopping"}
      /\ work[c].phase = "publishing" => work[c].calc = "ended" /\ work[c].exit # "none"
  BY DEF IInv, CalcFollowsWorker
<1>2. WorkerMove(c) /\ work[c] \in Worker
  BY DEF Moves, TypeOK
<1>3. CASE \E j \in Jobs, d \in Dispatchers : Granted(j, d) /\ c = claims'
  <2>1. work'[c].phase = work[c].phase /\ work'[c].calc = work[c].calc
        /\ work'[c].exit = work[c].exit
    BY <1>3, GrantedWorker
  <2> QED BY <1>1, <2>1
<1>4. CASE /\ \E d \in Dispatchers : pc[d] = "spawn" /\ held[d] = c /\ pc'[d] = "mark"
           /\ work'[c] = [work[c] EXCEPT !.phase = "handshake"]
  <2>1. work[c].phase = "none"
    BY <1>4 DEF IInv, CarriedClaim
  <2> QED BY <1>1, <1>2, <1>4, <2>1 DEF Worker
<1>5. CASE work[c].phase = "handshake" /\ work'[c] = [work[c] EXCEPT !.phase = "starting"]
  BY <1>1, <1>2, <1>5 DEF Worker
<1>6. CASE work'[c] = [work[c] EXCEPT !.phase = "computing", !.calc = "live"]
  BY <1>2, <1>6 DEF Worker
<1>7. CASE \E o \in Outcomes : work'[c] = [work[c] EXCEPT !.phase = "publishing",
                                             !.calc = "ended", !.exit = o]
  BY <1>2, <1>7, ConstantsAssumption DEF Worker, Terminal
<1>8. CASE /\ work[c].phase # "computing" /\ work[c].calc \in {"live", "stopping"}
           /\ work'[c] = [work[c] EXCEPT !.calc = "ended"]
  BY <1>1, <1>2, <1>8 DEF Worker
<1>9. CASE \E p \in Over \cup {work[c].phase}, q \in {work[c].calc, "stopping"} :
              /\ p # work[c].phase => work[c].phase # "none"
              /\ q # work[c].calc => work[c].calc = "live"
              /\ work'[c] = [work[c] EXCEPT !.phase = p, !.calc = q]
  BY <1>1, <1>2, <1>9 DEF Worker, Over
<1> QED BY <1>1, <1>2, <1>3, <1>4, <1>5, <1>6, <1>7, <1>8, <1>9 DEF WorkerMove

\* A lease is granted only when nobody holds the GPU.
LEMMA LeaseKept ==
    ASSUME IInv, Moves, TypeOK' PROVE LeaseExclusive'
<1> TypeOK BY DEF IInv
<1> DEFINE Holds(j) == rec[j].status \in ActiveLease
<1> SUFFICES ASSUME NEW i \in Jobs, NEW j \in Jobs, Holds(i)', Holds(j)',
                    i # j, rec'[i].gpu # NoGpu
             PROVE  rec'[i].gpu # rec'[j].gpu
  BY DEF LeaseExclusive, InStatus
<1>1. ASSUME NEW o \in Jobs, Holds(o)', ~ \E d \in Dispatchers : Granted(o, d)
      PROVE  Holds(o) /\ rec'[o].gpu = rec[o].gpu
  BY <1>1, RecordAfter DEF ActiveLease, Terminal, Unclaimed
<1>2. ASSUME NEW o \in Jobs, NEW p \in Jobs, o # p, Holds(p)',
             NEW d \in Dispatchers, Granted(o, d), rec'[o].gpu # NoGpu
      PROVE  rec'[p].gpu # rec'[o].gpu
  <2>1. rec'[p] = rec[p] /\ rec'[o].gpu = Device[o] /\ LeaseFree(o)
    BY <1>2, GrantedShape DEF Granted
  <2> QED BY <1>2, <2>1 DEF LeaseFree, InStatus
<1>3. CASE \E d \in Dispatchers : Granted(i, d)
  BY <1>2, <1>3
<1>4. CASE \E d \in Dispatchers : Granted(j, d)
  BY <1>2, <1>4
<1>5. CASE /\ ~ \E d \in Dispatchers : Granted(i, d)
           /\ ~ \E d \in Dispatchers : Granted(j, d)
  BY <1>1, <1>5 DEF IInv, LeaseExclusive, InStatus
<1> QED BY <1>3, <1>4, <1>5

\* Nobody but a user takes the job of a worker that computes.
LEMMA OwnershipKept ==
    ASSUME IInv, Moves, TypeOK', BegunOwnsRecord' PROVE ComputingWorkerOwnsJob'
<1> TypeOK BY DEF IInv
<1> DEFINE Busy(c) == work[c].phase \in {"starting", "computing", "publishing"}
<1> SUFFICES ASSUME NEW c \in Claims, Busy(c)'
             PROVE  \/ /\ rec'[work'[c].job].status = "running"
                       /\ rec'[work'[c].job].pid = c /\ rec'[work'[c].job].token = c
                    \/ rec'[work'[c].job].status \in {"cancelled", "gone"}
  BY DEF ComputingWorkerOwnsJob
<1> DEFINE j == work[c].job
<1>1. CASE Busy(c)
  <2>1. j \in Jobs /\ work'[c].job = j
    BY <1>1, ClaimsKept DEF IInv, BegunOwnsRecord, Begun, ClaimsIssued, TypeOK, Worker
  <2>2. \/ rec[j].status = "running" /\ rec[j].pid = c /\ rec[j].token = c
        \/ rec[j].status \in {"cancelled", "gone"}
    BY <1>1 DEF IInv, ComputingWorkerOwnsJob
  <2> HIDE DEF j
  <2>3. work'[c].phase \notin Over
    BY DEF Over
  <2>4. ~ \E d \in Dispatchers : Granted(j, d)
    BY <2>1, <2>2, GrantedShape
  <2>5. \/ rec'[j] = rec[j]
        \/ rec'[j] = Unclaimed("gone")
        \/ rec'[j].status = "cancelled"
    BY <2>1, <2>2, <2>3, <2>4, RecordAfter DEF Terminal
  <2> QED BY <2>1, <2>2, <2>5 DEF Unclaimed
<1>2. CASE ~Busy(c)
  <2>1. WorkerMove(c) /\ work[c] \in Worker
    BY DEF Moves, TypeOK
  <2>2. CASE /\ work[c].phase = "handshake" /\ rec[j].status = "running"
             /\ rec[j].pid = c /\ rec[j].token = c /\ rec' = rec
             /\ work'[c] = [work[c] EXCEPT !.phase = "starting"]
    BY <2>1, <2>2 DEF Worker
  <2>3. CASE \E k \in Jobs, d \in Dispatchers : Granted(k, d) /\ c = claims'
    BY <1>2, <2>3, GrantedWorker
  <2>4. CASE work'[c] = [work[c] EXCEPT !.phase = "handshake"]
    BY <2>1, <2>4 DEF Worker
  <2>5. CASE work'[c] = [work[c] EXCEPT !.calc = "ended"]
    BY <1>2, <2>1, <2>5 DEF Worker
  <2>6. CASE \E p \in Over \cup {work[c].phase}, q \in {work[c].calc, "stopping"} :
                work'[c] = [work[c] EXCEPT !.phase = p, !.calc = q]
    BY <1>2, <2>1, <2>6 DEF Worker, Over
  <2> QED BY <1>2, <2>1, <2>2, <2>3, <2>4, <2>5, <2>6 DEF WorkerMove
<1> QED BY <1>1, <1>2

\* A report is the exit of an ended calculation, and stays it.
LEMMA ReportKept ==
    ASSUME IInv, Moves, TypeOK' PROVE ReportIsTheExit' /\ ReportedHasPid'
<1> TypeOK BY DEF IInv
<1> SUFFICES ASSUME NEW j \in Jobs, rec'[j].status \in {"done", "not_converged"}
             PROVE  /\ rec'[j].pid # 0
                    /\ work'[rec'[j].pid].job = j
                    /\ work'[rec'[j].pid].calc = "ended"
                    /\ work'[rec'[j].pid].exit = rec'[j].status
  BY DEF ReportIsTheExit, ReportedHasPid, InStatus
<1> DEFINE c == rec[j].pid
<1>1. ~ \E d \in Dispatchers : Granted(j, d)
  BY GrantedShape
<1>2. \/ /\ rec'[j] = rec[j]
      \/ /\ rec[j].status = "running" /\ rec'[j].pid = c
         /\ work[c].phase = "publishing" /\ work'[c].phase \in Over
         /\ rec'[j].status = work[c].exit
  BY <1>1, RecordAfter DEF Unclaimed
<1>3. /\ rec'[j].pid = c /\ c # 0
      /\ work[c].job = j /\ work[c].calc = "ended" /\ work[c].exit = rec'[j].status
  <2>1. CASE rec'[j] = rec[j]
    <3>1. work[c].job = j /\ work[c].calc = "ended" /\ work[c].exit = rec'[j].status
      BY <2>1 DEF IInv, ReportIsTheExit, InStatus
    <3>2. c # 0
      BY <2>1 DEF IInv, ReportedHasPid, InStatus
    <3> QED BY <2>1, <3>1, <3>2
  <2>2. CASE /\ rec[j].status = "running" /\ rec'[j].pid = c
             /\ work[c].phase = "publishing" /\ rec'[j].status = work[c].exit
    <3>1. rec[j].token # 0 /\ rec[j].token = c
      BY <2>2 DEF IInv, RecordShape
    <3>2. c \in Claims
      BY <3>1 DEF TypeOK, Record
    <3>3. work[c].job = j
      BY <3>1 DEF IInv, TokensIssued
    <3> QED BY <2>2, <3>1, <3>2, <3>3 DEF IInv, CalcFollowsWorker
  <2> QED BY <1>2, <2>1, <2>2
<1>4. c \in Claims /\ c <= claims /\ work[c] \in Worker
  BY <1>3 DEF IInv, RecordShape, TokensIssued, TypeOK, Record
<1> HIDE DEF c
<1>5. work'[c].job = j
  BY <1>3, <1>4, ClaimsKept
<1>6. WorkerMove(c)
  BY <1>4 DEF Moves
<1>7. work'[c].calc = "ended" /\ work'[c].exit = work[c].exit
  <2>1. CASE \E k \in Jobs, d \in Dispatchers : Granted(k, d) /\ c = claims'
    BY <1>3, <1>4, <2>1, GrantedWorker
  <2>2. CASE work'[c] = [work[c] EXCEPT !.phase = "handshake"]
    BY <1>3, <1>4, <2>2 DEF Worker
  <2>3. CASE work'[c] = [work[c] EXCEPT !.phase = "starting"]
    BY <1>3, <1>4, <2>3 DEF Worker
  <2>4. CASE \E p \in Over \cup {work[c].phase}, q \in {work[c].calc, "stopping"} :
                /\ p # work[c].phase => work[c].phase # "none"
                /\ q # work[c].calc => work[c].calc = "live"
                /\ work'[c] = [work[c] EXCEPT !.phase = p, !.calc = q]
    <3>1. PICK p \in Over \cup {work[c].phase}, q \in {work[c].calc, "stopping"} :
                /\ q # work[c].calc => work[c].calc = "live"
                /\ work'[c] = [work[c] EXCEPT !.phase = p, !.calc = q]
      BY <2>4
    <3>2. q = "ended"
      BY <1>3, <3>1
    <3>3. work'[c] = [work[c] EXCEPT !.phase = p, !.calc = "ended"]
      BY <3>1, <3>2
    <3> QED BY <1>4, <3>3 DEF Worker
  <2>5. work[c].phase \notin {"starting", "computing"}
    BY <1>3, <1>4 DEF IInv, CalcFollowsWorker
  <2> QED BY <1>3, <1>6, <2>1, <2>2, <2>3, <2>4, <2>5 DEF WorkerMove
<1> QED BY <1>3, <1>5, <1>7

\* How a step changes the dispatchers' places and the pause.
ControlMove ==
    /\ \A d \in Submitters : pc'[d] = "try" => target'[d] # 0
    /\ \/ \A s \in Schedulers : Alive(s)' => Alive(s)
       \/ \E s \in Schedulers : \A o \in Schedulers :
              ~Alive(o) /\ (Alive(o)' => o = s)
    /\ \/ lateClaims' = 0
       \/ /\ lateClaims' = lateClaims /\ (paused' => paused)
          /\ paused => \A s \in Schedulers : pc'[s] = "try" => pc[s] = "try"
       \/ /\ paused' = paused
          /\ lateClaims' = IF paused THEN lateClaims + 1 ELSE lateClaims
          /\ \E s \in Schedulers : pc[s] = "try" /\ pc'[s] # "try" /\
                \A o \in Schedulers \ {s} : pc'[o] = pc[o]

\* A step that leaves places, targets and pause alone.
LEMMA StillControl ==
    ASSUME IInv, pc' = pc, target' = target, paused' = paused,
           lateClaims' = lateClaims
    PROVE  ControlMove
BY DEF ControlMove, Alive, IInv, SubmitterHasTarget

\* A live dispatcher that goes anywhere but to its candidates.
LEMMA PlaceStep ==
    ASSUME IInv, NEW d \in Dispatchers, Alive(d),
           \E p \in PcValues \ {"try"} : pc' = [pc EXCEPT ![d] = p],
           target' = target, paused' = paused, lateClaims' = lateClaims
    PROVE  ControlMove
<1>1. PICK p \in PcValues \ {"try"} : pc' = [pc EXCEPT ![d] = p]
  OBVIOUS
<1>2. \A e \in Dispatchers : pc'[e] = IF e = d THEN p ELSE pc[e]
  BY <1>1 DEF IInv, TypeOK
<1>3. \A e \in Submitters : pc'[e] = "try" => target'[e] # 0
  BY <1>2 DEF IInv, SubmitterHasTarget, Dispatchers
<1>4. \A s \in Schedulers : Alive(s)' => Alive(s)
  BY <1>2 DEF Alive, Dispatchers
<1>5. \A s \in Schedulers : pc'[s] = "try" => pc[s] = "try"
  BY <1>2 DEF Dispatchers
<1> QED BY <1>3, <1>4, <1>5 DEF ControlMove

\* Every step moves the dispatchers and the pause in one of these ways.
LEMMA StepControl ==
    ASSUME IInv, [Next]_vars PROVE ControlMove
<1> TypeOK BY DEF IInv
<1> USE DEF Dispatchers
<1>1. ASSUME NEW j \in Jobs, UserStep(j) PROVE ControlMove
  BY <1>1, StillControl DEF UserStep, Enqueue, PausePending, ResumePaused,
     KillJob, DeleteJob, dispVars, auxVars
<1>2. CASE Clean \/ UNCHANGED vars
  BY <1>2, StillControl DEF Clean, vars, dispVars, auxVars
<1>3. CASE PauseQueue
  <2>1. pc' = pc /\ target' = target /\ lateClaims' = 0
    BY <1>3 DEF PauseQueue, dispVars
  <2> QED BY <2>1 DEF ControlMove, Alive, IInv, SubmitterHasTarget
<1>4. CASE ResumeQueue
  <2>1. pc' = pc /\ target' = target /\ lateClaims' = lateClaims /\ ~paused'
    BY <1>4 DEF ResumeQueue, dispVars, auxVars
  <2> QED BY <2>1 DEF ControlMove, Alive, IInv, SubmitterHasTarget
<1>5. ASSUME NEW c \in Claims, DeliverKill(c) \/ WorkerStep(c) \/ WorkerDies(c)
      PROVE  ControlMove
  BY <1>5, StillControl DEF DeliverKill, WorkerStep, HandshakeOk,
     HandshakeTimeout, CalcStarts, CalcCannotStart, CalcExits, Publish,
     WorkerDies, dispVars, auxVars
<1>6. ASSUME NEW s \in Schedulers, Start(s) PROVE ControlMove
  <2>1. /\ \A e \in Dispatchers : pc'[e] = IF e = s THEN "recover" ELSE pc[e]
        /\ target' = target /\ paused' = paused /\ lateClaims' = lateClaims
    BY <1>6 DEF Start, auxVars, TypeOK
  <2>2. \A o \in Schedulers : ~Alive(o) /\ (Alive(o)' => o = s)
    BY <1>6, <2>1 DEF Start, Alive
  <2>3. \A o \in Schedulers : pc'[o] = "try" => pc[o] = "try"
    BY <2>1
  <2>4. \A e \in Submitters : pc'[e] = "try" => target'[e] # 0
    BY <2>1 DEF IInv, SubmitterHasTarget
  <2> QED BY <2>1, <2>2, <2>3, <2>4 DEF ControlMove
<1>7. ASSUME NEW s \in Schedulers, Scan(s) PROVE ControlMove
  <2>1. CASE paused \/ ~(active < MaxConcurrent)
    <3>1. \E p \in PcValues \ {"try"} : pc' = [pc EXCEPT ![s] = p]
      BY <1>7, <2>1 DEF Scan, PcValues
    <3> QED BY <1>7, <3>1, PlaceStep DEF Scan, Alive, auxVars
  <2>2. CASE ~paused /\ active < MaxConcurrent
    <3>1. /\ \A e \in Dispatchers : pc'[e] = IF e = s THEN "try" ELSE pc[e]
          /\ target' = target /\ ~paused' /\ lateClaims' = lateClaims
          /\ pc[s] = "loop"
      BY <1>7, <2>2 DEF Scan, auxVars, TypeOK
    <3>2. \A o \in Schedulers : Alive(o)' => Alive(o)
      BY <3>1 DEF Alive
    <3>3. \A e \in Submitters : pc'[e] = "try" => target'[e] # 0
      BY <3>1, ConstantsAssumption DEF IInv, SubmitterHasTarget
    <3> QED BY <2>2, <3>1, <3>2, <3>3 DEF ControlMove
  <2> QED BY <2>1, <2>2
<1>8. ASSUME NEW s \in Schedulers, NEW j \in Jobs, Claim(s, j) PROVE ControlMove
  <2>1. /\ \A e \in Dispatchers : pc'[e] = IF e = s THEN "spawn" ELSE pc[e]
        /\ pc[s] = "try" /\ target' = target /\ paused' = paused
        /\ lateClaims' = IF paused THEN lateClaims + 1 ELSE lateClaims
    BY <1>8 DEF Claim, Grant, TypeOK
  <2>2. \A o \in Schedulers : Alive(o)' => Alive(o)
    BY <2>1 DEF Alive
  <2>3. \A e \in Submitters : pc'[e] = "try" => target'[e] # 0
    BY <2>1 DEF IInv, SubmitterHasTarget
  <2> QED BY <2>1, <2>2, <2>3 DEF ControlMove
<1>9. ASSUME NEW s \in Schedulers, NEW c \in Claims, ReapChild(s, c)
      PROVE  ControlMove
  BY <1>9, StillControl DEF ReapChild, dispVars, auxVars
<1>10. ASSUME NEW s \in Schedulers, NEW j \in Jobs, Reject(s, j) \/ PassOver(s, j)
       PROVE  ControlMove
  BY <1>10, StillControl DEF Reject, PassOver, auxVars
<1>11. ASSUME NEW s \in Schedulers,
              Recover(s) \/ ReapGone(s) \/ CountRunning(s) \/ CountClaimed(s)
                \/ NothingToClaim(s) \/ Wake(s)
       PROVE  ControlMove
  <2>1. /\ \E p \in PcValues \ {"try"} : pc' = [pc EXCEPT ![s] = p]
        /\ Alive(s)
    BY <1>11 DEF Recover, ReapGone, CountRunning, CountClaimed, NothingToClaim,
       Wake, Alive, PcValues
  <2>2. target' = target /\ paused' = paused /\ lateClaims' = lateClaims
    BY <1>11 DEF Recover, ReapGone, CountRunning, CountClaimed, NothingToClaim,
       Wake, auxVars
  <2> QED BY <2>1, <2>2, PlaceStep
<1>12. ASSUME NEW d \in Submitters, NEW j \in Jobs, SubmitEnqueue(d, j)
       PROVE  ControlMove
  <2>1. /\ \A e \in Dispatchers : pc'[e] = IF e = d THEN "try" ELSE pc[e]
        /\ \A e \in Submitters : target'[e] = IF e = d THEN j ELSE target[e]
        /\ paused' = paused /\ lateClaims' = lateClaims
    BY <1>12 DEF SubmitEnqueue, auxVars, TypeOK
  <2>2. \A e \in Submitters : pc'[e] = "try" => target'[e] # 0
    BY <2>1, ConstantsAssumption DEF IInv, SubmitterHasTarget, Jobs
  <2>3. \A s \in Schedulers : pc'[s] = pc[s]
    BY <2>1, ConstantsAssumption
  <2> QED BY <2>1, <2>2, <2>3 DEF ControlMove, Alive
<1>13. ASSUME NEW d \in Submitters, SubmitClaim(d) \/ SubmitRefused(d)
       PROVE  ControlMove
  <2>1. /\ \E p \in PcValues \ {"try"} : pc' = [pc EXCEPT ![d] = p]
        /\ Alive(d)
    BY <1>13 DEF SubmitClaim, SubmitRefused, Grant, Alive, PcValues
  <2>2. target' = target /\ paused' = paused /\ lateClaims' = lateClaims
    BY <1>13 DEF SubmitClaim, SubmitRefused, auxVars
  <2> QED BY <2>1, <2>2, PlaceStep
<1>14. ASSUME NEW d \in Dispatchers, DispatchStep(d) PROVE ControlMove
  <2>1. /\ \E p \in PcValues \ {"try"} : pc' = [pc EXCEPT ![d] = p]
        /\ Alive(d)
    BY <1>14 DEF DispatchStep, Spawn, SpawnFails, Mark, MarkFails, GiveUp,
       After, Alive, PcValues
  <2>2. target' = target /\ paused' = paused /\ lateClaims' = lateClaims
    BY <1>14 DEF DispatchStep, Spawn, SpawnFails, Mark, MarkFails, GiveUp,
       auxVars
  <2> QED BY <2>1, <2>2, PlaceStep
<1>15. ASSUME NEW d \in Dispatchers, Stop(d) \/ Crash(d) PROVE ControlMove
  <2>1. /\ pc' = [pc EXCEPT ![d] = "dead"] /\ Alive(d)
        /\ target' = target /\ paused' = paused /\ lateClaims' = lateClaims
    BY <1>15 DEF Stop, Crash, Leave, Alive
  <2>2. \E p \in PcValues \ {"try"} : pc' = [pc EXCEPT ![d] = p]
    BY <2>1 DEF PcValues
  <2> QED BY <2>1, <2>2, PlaceStep
<1> QED BY <1>1, <1>2, <1>3, <1>4, <1>5, <1>6, <1>7, <1>8, <1>9, <1>10, <1>11,
           <1>12, <1>13, <1>14, <1>15 DEF Next, SchedulerStep, SubmitterStep

\* One scheduler at a time, and one launch at most after a pause.
LEMMA ControlKept ==
    ASSUME IInv, ControlMove, TypeOK'
    PROVE  /\ SubmitterHasTarget' /\ OneScheduler'
           /\ LateClaimClosesTheRound' /\ PauseLetsOneThrough'
<1> TypeOK BY DEF IInv
<1>1. SubmitterHasTarget'
  BY DEF ControlMove, SubmitterHasTarget
<1>2. OneScheduler'
  BY DEF ControlMove, OneScheduler, IInv
<1>3. lateClaims \in Nat /\ lateClaims <= 1
  BY DEF IInv, TypeOK, PauseLetsOneThrough
<1>4. CASE lateClaims' = 0
  BY <1>1, <1>2, <1>4 DEF LateClaimClosesTheRound, PauseLetsOneThrough
<1>5. CASE /\ lateClaims' = lateClaims /\ (paused' => paused)
           /\ paused => \A s \in Schedulers : pc'[s] = "try" => pc[s] = "try"
  BY <1>1, <1>2, <1>3, <1>5 DEF IInv, LateClaimClosesTheRound, PauseLetsOneThrough
<1>6. CASE /\ paused' = paused
           /\ lateClaims' = IF paused THEN lateClaims + 1 ELSE lateClaims
           /\ \E s \in Schedulers : pc[s] = "try" /\ pc'[s] # "try" /\
                 \A o \in Schedulers \ {s} : pc'[o] = pc[o]
  <2>1. PICK s \in Schedulers : pc[s] = "try" /\ pc'[s] # "try" /\
                 \A o \in Schedulers \ {s} : pc'[o] = pc[o]
    BY <1>6
  <2>2. \A o \in Schedulers : pc'[o] # "try"
    BY <2>1 DEF IInv, OneScheduler, Alive
  <2>3. paused => lateClaims = 0
    BY <1>3, <2>1 DEF IInv, LateClaimClosesTheRound
  <2>4. lateClaims' <= 1
    BY <1>3, <1>6, <2>3
  <2> QED BY <1>1, <1>2, <2>2, <2>4 DEF LateClaimClosesTheRound, PauseLetsOneThrough
<1> QED BY <1>1, <1>2, <1>4, <1>5, <1>6 DEF ControlMove

\* The invariant holds when nothing has been queued yet.
LEMMA InitInvariant == Init => IInv
<1> SUFFICES ASSUME Init PROVE IInv
  OBVIOUS
<1> USE ConstantsAssumption DEF Init
<1>1. TypeOK
  <2>1. rec \in [Jobs -> Record]
    <3>1. Unclaimed("none") \in Record
      BY DEF Unclaimed, Record, Status
    <3> QED BY <3>1
  <2>2. work \in [Claims -> Worker]
    BY DEF Worker, Phases
  <2>3. /\ pc \in [Dispatchers -> PcValues]
        /\ held \in [Dispatchers -> {0} \cup Claims]
        /\ target \in [Submitters -> {0} \cup Jobs]
    BY DEF PcValues
  <2>4. /\ paused \in BOOLEAN
        /\ cand \in SUBSET Jobs /\ kills \in SUBSET Claims
    OBVIOUS
  <2>5. /\ claims \in 0..MaxClaims /\ crashes \in 0..MaxCrashes
        /\ userOps \in 0..MaxUserOps /\ lateClaims \in Nat /\ active \in Nat
    OBVIOUS
  <2> QED BY <2>1, <2>2, <2>3, <2>4, <2>5 DEF TypeOK
<1>2. \A j \in Jobs : rec[j] = Unclaimed("none") /\ rec[j].status = "none"
                       /\ rec[j].token = 0 /\ rec[j].pid = 0
  BY DEF Unclaimed
<1>3. RecordShape /\ TokensIssued /\ ReportedHasPid /\ ReportIsTheExit /\ LeaseExclusive
  BY <1>2 DEF RecordShape, TokensIssued, ReportedHasPid, ReportIsTheExit,
     LeaseExclusive, InStatus, ActiveLease
<1>4. \A c \in Claims : work[c].phase = "none" /\ work[c].calc = "none" /\ c > 0
  BY DEF Claims
<1>5. ClaimsIssued /\ BegunOwnsRecord /\ BegunOnce /\ CalcFollowsWorker
      /\ ComputingWorkerOwnsJob
  BY <1>4 DEF ClaimsIssued, BegunOwnsRecord, BegunOnce, Begun, CalcFollowsWorker,
     ComputingWorkerOwnsJob, Claims
<1>6. CarriedClaim /\ SubmitterHasTarget /\ OneScheduler
      /\ LateClaimClosesTheRound /\ PauseLetsOneThrough
  BY DEF CarriedClaim, SubmitterHasTarget, OneScheduler, LateClaimClosesTheRound,
     PauseLetsOneThrough, Alive, Dispatchers
<1> QED BY <1>1, <1>3, <1>5, <1>6 DEF IInv

\* Every step keeps the invariant.
LEMMA StepInvariant == IInv /\ [Next]_vars => IInv'
<1> SUFFICES ASSUME IInv, [Next]_vars PROVE IInv'
  OBVIOUS
<1>1. TypeOK' /\ Moves /\ ControlMove
  BY TypeInvariant, StepMoves, StepControl
<1>2. RecordShape' /\ TokensIssued' /\ ClaimsIssued' /\ CarriedClaim'
  BY <1>1, ShapeKept, TokensKept, ClaimsIssuedKept, CarriedKept
<1>3. BegunOwnsRecord' /\ BegunOnce' /\ CalcFollowsWorker'
  BY <1>1, BegunKept, CalcKept
<1>4. LeaseExclusive' /\ ComputingWorkerOwnsJob'
  BY <1>1, <1>3, LeaseKept, OwnershipKept
<1>5. ReportIsTheExit' /\ ReportedHasPid'
  BY <1>1, ReportKept
<1>6. /\ SubmitterHasTarget' /\ OneScheduler'
      /\ LateClaimClosesTheRound' /\ PauseLetsOneThrough'
  BY <1>1, ControlKept
<1> QED BY <1>1, <1>2, <1>3, <1>4, <1>5, <1>6 DEF IInv

-------------------------------------------------------------------------------

\* The inductive invariant holds in every reachable state of the queue.
THEOREM InductiveInvariant == Spec => []IInv
BY InitInvariant, StepInvariant, PTL DEF Spec

\* Every variable of the queue keeps its type.
THEOREM TypeCorrect == Spec => []TypeOK
<1>1. IInv => TypeOK
  BY DEF IInv
<1> QED BY <1>1, InductiveInvariant, PTL

\* claim_job never leases one GPU to two jobs that are claimed or running.
THEOREM LeaseSafety == Spec => []LeaseExclusive
<1>1. IInv => LeaseExclusive
  BY DEF IInv
<1> QED BY <1>1, InductiveInvariant, PTL

\* No timeout, reaper, recovery or rival worker takes a job from a worker that
\* passed its handshake.
THEOREM OwnershipSafety == Spec => []ComputingWorkerOwnsJob
<1>1. IInv => ComputingWorkerOwnsJob
  BY DEF IInv
<1> QED BY <1>1, InductiveInvariant, PTL

\* A job's calculation is started at most once, however often it is claimed.
THEOREM AtMostOnce == Spec => []ComputedAtMostOnce
<1>1. IInv => ComputedAtMostOnce
  BY DEF IInv, BegunOnce, Begun, ComputedAtMostOnce
<1> QED BY <1>1, InductiveInvariant, PTL

\* What a job is reported as is how its calculation exited.
THEOREM HonestReport == Spec => []ReportIsTheExit
<1>1. IInv => ReportIsTheExit
  BY DEF IInv
<1> QED BY <1>1, InductiveInvariant, PTL

\* A paused queue launches at most the job whose turn had already come.
THEOREM PauseSafety == Spec => []PauseLetsOneThrough
<1>1. IInv => PauseLetsOneThrough
  BY DEF IInv
<1> QED BY <1>1, InductiveInvariant, PTL

\* A terminal record keeps its status until it is removed, for good.
THEOREM TerminalStays == Spec => TerminalIsFinal
<1> DEFINE Kept == \A j \in Jobs :
             /\ rec[j].status \in Terminal => rec'[j].status \in {rec[j].status, "gone"}
             /\ rec[j].status = "gone" => rec'[j].status = "gone"
<1>1. IInv /\ [Next]_vars => Kept
  <2> SUFFICES ASSUME IInv, [Next]_vars, NEW j \in Jobs PROVE
          /\ rec[j].status \in Terminal => rec'[j].status \in {rec[j].status, "gone"}
          /\ rec[j].status = "gone" => rec'[j].status = "gone"
    OBVIOUS
  <2>1. Moves
    BY StepMoves
  <2>2. ASSUME NEW s, rec'[j] = Unclaimed(s) PROVE rec'[j].status = s
    BY <2>2 DEF Unclaimed
  <2>3. ASSUME NEW d \in Dispatchers, Granted(j, d) PROVE rec[j].status = "pending"
    BY <2>3 DEF Granted
  <2> QED BY <2>1, <2>2, <2>3, RecordAfter DEF Terminal
<1>2. IInv /\ [Next]_vars => [Kept]_vars
  BY <1>1
<1> QED BY <1>2, InductiveInvariant, PTL DEF Spec, TerminalIsFinal

\* A claimed or running job returns to the queue only while no calculation
\* has been started for it.
THEOREM RequeueSafety == Spec => RequeuedOnlyUnstarted
<1> DEFINE Kept == \A j \in Jobs :
             (rec[j].status \in ActiveLease /\ rec'[j].status = "pending") =>
                \A c \in Claims : work[c].job = j => work[c].calc = "none"
<1>1. IInv /\ [Next]_vars => Kept
  <2> SUFFICES ASSUME IInv, [Next]_vars, NEW j \in Jobs,
                      rec[j].status \in ActiveLease, rec'[j].status = "pending",
                      NEW c \in Claims, work[c].job = j
               PROVE  work[c].calc = "none"
    OBVIOUS
  <2>1. Moves
    BY StepMoves
  <2>2. ASSUME NEW d \in Dispatchers, Granted(j, d) PROVE FALSE
    BY <2>2 DEF Granted, ActiveLease
  <2>3. rec[j].status = "claimed"
    BY <2>1, <2>2, RecordAfter DEF Terminal, ActiveLease
  <2> QED BY <2>3 DEF IInv, BegunOwnsRecord, Begun, Terminal
<1>2. IInv /\ [Next]_vars => [Kept]_vars
  BY <1>1
<1> QED BY <1>2, InductiveInvariant, PTL DEF Spec, RequeuedOnlyUnstarted

-------------------------------------------------------------------------------
(* The concurrency limit *)

\* Sets of jobs are finite and counted as one expects.
LEMMA JobSets ==
    /\ \A T \in SUBSET Jobs : IsFiniteSet(T) /\ Cardinality(T) \in Nat
    /\ \A T, U \in SUBSET Jobs : T \subseteq U => Cardinality(T) <= Cardinality(U)
    /\ \A T \in SUBSET Jobs, j \in Jobs : Cardinality(T \cup {j}) <= Cardinality(T) + 1
<1>1. IsFiniteSet(Jobs)
  BY FS_Interval, ConstantsAssumption DEF Jobs
<1>2. \A T \in SUBSET Jobs : IsFiniteSet(T) /\ Cardinality(T) \in Nat
  BY <1>1, FS_Subset, FS_CardinalityType
<1>3. \A T, U \in SUBSET Jobs : T \subseteq U => Cardinality(T) <= Cardinality(U)
  BY <1>2, FS_Subset
<1>4. ASSUME NEW T \in SUBSET Jobs, NEW j \in Jobs
      PROVE  Cardinality(T \cup {j}) <= Cardinality(T) + 1
  <2>1. IsFiniteSet(T) /\ Cardinality(T) \in Nat
    BY <1>2
  <2>2. \/ Cardinality(T \cup {j}) = Cardinality(T)
        \/ Cardinality(T \cup {j}) = Cardinality(T) + 1
    BY <2>1, FS_AddElement
  <2> QED BY <2>1, <2>2
<1> QED BY <1>2, <1>3, <1>4

\* An active record is the one of before, has been promoted, or has been claimed.
LEMMA ActiveAfter ==
    ASSUME IInv, Moves, NEW j \in Jobs, rec'[j].status \in ActiveLease
    PROVE  \/ rec'[j] = rec[j]
           \/ /\ rec[j].status = "claimed" /\ rec'[j].status = "running"
              /\ rec'[j].token = rec[j].token /\ rec'[j].owner = rec[j].owner
           \/ \E d \in Dispatchers : Granted(j, d)
<1>1. RecordMove(j) /\ rec[j] \in Record
  BY DEF Moves, IInv, TypeOK
<1>2. \A s : Unclaimed(s).status = s
  BY DEF Unclaimed
<1>3. rec'[j].status \notin Terminal \cup {"pending", "paused", "gone"}
  BY DEF ActiveLease, Terminal
<1>4. CASE /\ rec[j].status = "claimed"
           /\ rec'[j] = [rec[j] EXCEPT !.status = "running", !.pid = rec[j].token]
  BY <1>1, <1>4 DEF Record
<1>5. CASE rec'[j].status = "claimed"
  BY <1>2, <1>5, RecordAfter DEF Terminal
<1>6. CASE rec'[j].status = "running"
  <2>1. \/ rec'[j] = rec[j]
        \/ rec[j].status = "claimed"
    BY <1>2, <1>6, RecordAfter, GrantedShape DEF Terminal
  <2>2. ASSUME NEW s, Becomes(j, s) PROVE s = "running"
    BY <1>1, <1>6, <2>2 DEF Becomes, Record
  <2> QED BY <1>1, <1>2, <1>4, <1>6, <2>1, <2>2 DEF RecordMove
<1> QED BY <1>5, <1>6 DEF ActiveLease

\* Every active record is owned by the dispatcher of its claim.
LEMMA OwnerKept ==
    ASSUME IInv, Moves, TypeOK', OwnerIsParent PROVE OwnerIsParent'
<1> SUFFICES ASSUME NEW j \in Jobs, rec'[j].status \in ActiveLease
             PROVE  rec'[j].owner = work'[rec'[j].token].parent
  BY DEF OwnerIsParent, InStatus
<1>1. ASSUME rec[j].status \in ActiveLease, rec'[j].token = rec[j].token,
             rec'[j].owner = rec[j].owner
      PROVE  rec'[j].owner = work'[rec'[j].token].parent
  <2>1. rec[j].token \in Claims /\ rec[j].token <= claims
    BY <1>1 DEF IInv, RecordShape, TokensIssued, TypeOK, Record, ActiveLease
  <2>2. work'[rec[j].token].parent = work[rec[j].token].parent
    BY <2>1, ClaimsKept
  <2> QED BY <1>1, <2>2 DEF OwnerIsParent, InStatus
<1>2. ASSUME NEW d \in Dispatchers, Granted(j, d)
      PROVE  rec'[j].owner = work'[rec'[j].token].parent
  <2>1. rec'[j].owner = d /\ rec'[j].token = claims'
    BY <1>2 DEF Granted, Claimed
  <2>2. claims' \in Claims
    BY <1>2, GrantedShape, ConstantsAssumption DEF TypeOK, Claims
  <2> QED BY <1>2, <2>1, <2>2, GrantedWorker DEF IInv
<1> QED BY <1>1, <1>2, ActiveAfter DEF ActiveLease

\* No record that a scheduler owns is claimed or promoted in the step.
Quiet ==
    \A j \in Jobs :
        rec'[j].status \in ActiveLease /\ rec'[j].owner \in Schedulers => rec'[j] = rec[j]

\* A record that update_status left active, to a status that is not, is unchanged.
LEMMA UpdateQuiet ==
    ASSUME NEW r \in Record, NEW to, to \notin ActiveLease, NEW expected, NEW pid, NEW token,
           UpdateStatus(r, to, expected, pid, token).status \in ActiveLease
    PROVE  UpdateStatus(r, to, expected, pid, token) = r
<1>1. Unclaimed(to).status = to /\ [r EXCEPT !.status = to].status = to
  BY DEF Unclaimed, Record
<1> QED BY <1>1 DEF UpdateStatus

\* A claim or a promotion by a submitting process takes no slot.
LEMMA SubmitterQuiet ==
    ASSUME IInv, OwnerIsParent, NEW d \in Submitters, SubmitClaim(d) \/ Mark(d)
    PROVE  Quiet
<1> USE ConstantsAssumption
<1>1. CASE SubmitClaim(d)
  <2>1. rec' = [rec EXCEPT ![target[d]] = Claimed(claims + 1, d, Device[target[d]])]
    BY <1>1 DEF SubmitClaim, Grant
  <2>2. Claimed(claims + 1, d, Device[target[d]]).owner = d /\ d \notin Schedulers
    BY DEF Claimed
  <2> QED BY <2>1, <2>2 DEF Quiet, IInv, TypeOK
<1>2. CASE Mark(d)
  <2> DEFINE j == work[held[d]].job
  <2>1. /\ rec' = [rec EXCEPT ![j] = MarkRunning(rec[j], held[d], held[d])]
        /\ pc[d] = "mark" /\ rec[j].status = "claimed"
        /\ held[d] = 0 \/ rec[j].token = held[d]
    BY <1>2 DEF Mark, Accepts
  <2>2. held[d] \in Claims /\ held[d] # 0 /\ work[held[d]].parent = d
    BY <2>1 DEF IInv, CarriedClaim, Claims, Dispatchers
  <2>3. j \in Jobs
    BY <2>2, <2>1 DEF IInv, CarriedClaim, ClaimsIssued, TypeOK, Worker, Dispatchers
  <2>4. rec[j].owner = d
    BY <2>1, <2>2, <2>3 DEF OwnerIsParent, InStatus, ActiveLease
  <2>5. rec[j] \in Record
    BY <2>3 DEF IInv, TypeOK
  <2>6. MarkRunning(rec[j], held[d], held[d]).owner = d /\ d \notin Schedulers
    BY <2>4, <2>5 DEF MarkRunning, Record
  <2> QED BY <2>1, <2>6 DEF Quiet, IInv, TypeOK
<1> QED BY <1>1, <1>2

\* A dispatcher that fails its claim leaves the others alone.
LEMMA FailClaimQuiet ==
    ASSUME IInv, NEW d \in Dispatchers, FailClaim(d), Carries(d) PROVE Quiet
<1> DEFINE k == work[held[d]].job
<1>1. k \in Jobs
  BY DEF IInv, CarriedClaim, ClaimsIssued, TypeOK, Worker, Carries
<1>2. rec' = [rec EXCEPT ![k] = UpdateStatus(rec[k], "failed", {"claimed"}, 0, held[d])]
  BY DEF FailClaim
<1>3. rec[k] \in Record /\ "failed" \notin ActiveLease
  BY <1>1 DEF IInv, TypeOK, ActiveLease
<1> HIDE DEF k
<1> QED BY <1>1, <1>2, <1>3, UpdateQuiet DEF Quiet, IInv, TypeOK

\* Only a scheduler's claim and its promotion take a slot.
LEMMA QuietStep ==
    ASSUME IInv, OwnerIsParent, [Next]_vars,
           ~ \E s \in Schedulers : Mark(s) \/ \E j \in Jobs : Claim(s, j)
    PROVE  Quiet
<1> TypeOK BY DEF IInv
<1> USE DEF TypeOK
<1>2. \A s : Unclaimed(s).status = s /\ Unclaimed(s).owner = 0
  BY DEF Unclaimed
<1>3. 0 \notin Schedulers /\ {"failed", "paused", "pending", "cancelled", "gone"} \cap ActiveLease = {}
  BY ConstantsAssumption DEF ActiveLease
<1>4. ASSUME rec' = rec PROVE Quiet
  BY <1>4 DEF Quiet
<1>5. ASSUME NEW j \in Jobs, UserStep(j) PROVE Quiet
  <2>1. CASE Enqueue(j)
    BY <1>2, <1>3, <2>1 DEF Quiet, Enqueue
  <2>2. CASE PausePending(j)
    BY <1>3, <2>2, UpdateQuiet DEF Quiet, PausePending
  <2>3. CASE ResumePaused(j)
    BY <1>3, <2>3, UpdateQuiet DEF Quiet, ResumePaused
  <2>4. CASE KillJob(j)
    BY <1>3, <2>4 DEF Quiet, KillJob, Record
  <2>5. CASE DeleteJob(j)
    BY <1>2, <1>3, <2>5 DEF Quiet, DeleteJob
  <2> QED BY <1>5, <2>1, <2>2, <2>3, <2>4, <2>5 DEF UserStep
<1>6. CASE Clean
  BY <1>2, <1>3, <1>6 DEF Quiet, Clean
<1>7. CASE PauseQueue \/ ResumeQueue \/ UNCHANGED vars
  BY <1>4, <1>7 DEF PauseQueue, ResumeQueue, vars
<1>8. ASSUME NEW s \in Schedulers, Start(s) \/ SchedulerStep(s) PROVE Quiet
  <2>1. CASE Recover(s)
    BY <1>2, <1>3, <2>1 DEF Quiet, Recover
  <2>2. ASSUME NEW c \in Claims, ReapChild(s, c) PROVE Quiet
    <3>1. ASSUME NEW j \in Jobs
          PROVE  \/ rec'[j] = rec[j]
                 \/ rec'[j] = UpdateStatus(rec[j], "failed", {"running"}, c, 0)
      BY <2>2 DEF ReapChild
    <3> QED BY <1>3, <3>1, UpdateQuiet DEF Quiet
  <2>3. CASE ReapGone(s)
    <3>1. ASSUME NEW j \in Jobs
          PROVE  \/ rec'[j] = rec[j]
                 \/ rec'[j] = UpdateStatus(rec[j], "failed", {"running"}, rec[j].pid, 0)
      BY <2>3 DEF ReapGone
    <3> QED BY <1>3, <3>1, UpdateQuiet DEF Quiet
  <2>4. ASSUME NEW j \in Jobs, Reject(s, j) PROVE Quiet
    BY <1>3, <2>4, UpdateQuiet DEF Quiet, Reject
  <2>5. CASE \/ Start(s) \/ CountRunning(s) \/ CountClaimed(s) \/ Scan(s)
             \/ NothingToClaim(s) \/ Wake(s) \/ \E j \in Jobs : PassOver(s, j)
    BY <1>4, <2>5 DEF Start, CountRunning, CountClaimed, Scan, NothingToClaim, Wake, PassOver
  <2> QED BY <1>8, <2>1, <2>2, <2>3, <2>4, <2>5 DEF SchedulerStep
<1>9. ASSUME NEW d \in Submitters, SubmitterStep(d) PROVE Quiet
  <2>1. ASSUME NEW j \in Jobs, SubmitEnqueue(d, j) PROVE Quiet
    BY <1>2, <1>3, <2>1 DEF Quiet, SubmitEnqueue
  <2>2. CASE SubmitRefused(d)
    BY <1>4, <2>2 DEF SubmitRefused
  <2> QED BY <1>9, <2>1, <2>2, SubmitterQuiet DEF SubmitterStep
<1>10. ASSUME NEW d \in Dispatchers, DispatchStep(d) \/ Stop(d) \/ Crash(d) PROVE Quiet
  <2>1. CASE SpawnFails(d) \/ GiveUp(d)
    BY <2>1, FailClaimQuiet DEF SpawnFails, GiveUp, Carries
  <2>2. CASE Mark(d)
    BY <2>2, SubmitterQuiet DEF Dispatchers
  <2>3. CASE Spawn(d) \/ MarkFails(d) \/ Stop(d) \/ Crash(d)
    BY <1>4, <2>3 DEF Spawn, MarkFails, Stop, Crash, Leave
  <2> QED BY <1>10, <2>1, <2>2, <2>3 DEF DispatchStep
<1>11. ASSUME NEW c \in Claims, DeliverKill(c) \/ WorkerStep(c) \/ WorkerDies(c) PROVE Quiet
  <2>1. ASSUME NEW to, to \notin ActiveLease, NEW expected,
               NEW pid, rec' = [rec EXCEPT ![work[c].job] =
                                  UpdateStatus(@, to, expected, pid, c)]
        PROVE  Quiet
    BY <2>1, UpdateQuiet DEF Quiet
  <2>2. CASE CalcCannotStart(c) \/ HandshakeTimeout(c)
    BY <1>3, <2>1, <2>2 DEF CalcCannotStart, HandshakeTimeout
  <2>3. CASE Publish(c)
    <3>1. work[c].exit \in Terminal
      BY <2>3, ConstantsAssumption DEF Publish, IInv, CalcFollowsWorker, Worker
    <3>2. work[c].exit \notin ActiveLease
      BY <3>1 DEF Terminal, ActiveLease
    <3> QED BY <2>1, <2>3, <3>2 DEF Publish
  <2>4. CASE DeliverKill(c) \/ WorkerDies(c) \/ HandshakeOk(c) \/ CalcStarts(c)
             \/ \E o \in Outcomes : CalcExits(c, o)
    BY <1>4, <2>4 DEF DeliverKill, WorkerDies, HandshakeOk, CalcStarts, CalcExits
  <2> QED BY <1>11, <2>2, <2>3, <2>4 DEF WorkerStep
<1> QED BY <1>5, <1>6, <1>7, <1>8, <1>9, <1>10, <1>11 DEF Next

\* A quiet step takes no slot.
LEMMA QuietTaken ==
    ASSUME Quiet, NEW S, S \subseteq ActiveLease
    PROVE  Taken(S)' \subseteq Taken(S)
BY DEF Quiet, Taken, InStatus

LEMMA QuietCounts ==
    ASSUME Quiet
    PROVE  /\ Cardinality(Taken({"running"}))' <= Cardinality(Taken({"running"}))
           /\ ConcurrencyLimit => ConcurrencyLimit'
<1> DEFINE R == Taken({"running"})  U == Taken(ActiveLease)
<1>1. R' \subseteq R /\ U' \subseteq U
  BY QuietTaken DEF ActiveLease
<1>2. R \in SUBSET Jobs /\ R' \in SUBSET Jobs /\ U \in SUBSET Jobs /\ U' \in SUBSET Jobs
  BY DEF Taken, InStatus
<1>3. Cardinality(R') <= Cardinality(R) /\ Cardinality(U') <= Cardinality(U)
  BY <1>1, <1>2, JobSets
<1>4. Cardinality(U) \in Nat /\ Cardinality(U') \in Nat /\ MaxConcurrent \in Nat
  BY <1>2, JobSets, ConstantsAssumption
<1> HIDE DEF R
<1>5. ConcurrencyLimit <=> (Cardinality(U) <= MaxConcurrent)
  BY DEF ConcurrencyLimit, Taken
<1>6. ConcurrencyLimit' <=> (Cardinality(U') <= MaxConcurrent)
  BY DEF ConcurrencyLimit, Taken
<1> HIDE DEF U
<1>7. ConcurrencyLimit => ConcurrencyLimit'
  BY <1>3, <1>4, <1>5, <1>6
<1> QED BY <1>3, <1>7 DEF R

\* A scheduler that has taken stale claims back and carries none has left none.
LEMMA NoneClaimed ==
    ASSUME IInv, ClaimIsCarried, NEW s \in Schedulers,
           Alive(s), ~Carries(s), pc[s] # "recover"
    PROVE  Taken({"claimed"}) = {}
<1>1. ASSUME NEW j \in Taken({"claimed"}) PROVE FALSE
  <2>1. rec[j].owner \in Schedulers
    BY <1>1 DEF Taken
  <2>2. ASSUME Carries(rec[j].owner) PROVE FALSE
    <3>1. Alive(rec[j].owner)
      BY <2>2 DEF Carries, Alive
    <3>2. rec[j].owner = s
      BY <2>1, <3>1 DEF IInv, OneScheduler
    <3> QED BY <2>2, <3>2
  <2>3. pc[s] = "recover" \/ Carries(rec[j].owner)
    BY <1>1 DEF ClaimIsCarried
  <2> QED BY <2>2, <2>3
<1> QED BY <1>1

\* A quiet step in which no scheduler moves.
LEMMA Undisturbed ==
    ASSUME IInv, SlotInv, Quiet, active' = active,
           \A s \in Schedulers : pc'[s] = pc[s] /\ held'[s] = held[s]
    PROVE  ClaimIsCarried' /\ SlotsCounted'
<1>1. ClaimIsCarried'
  <2> SUFFICES ASSUME NEW j \in Jobs, rec'[j].status = "claimed", rec'[j].owner \in Schedulers
               PROVE  \/ /\ pc'[rec'[j].owner] \in {"spawn", "mark", "giveUp"}
                         /\ held'[rec'[j].owner] = rec'[j].token
                      \/ /\ pc'[rec'[j].owner] = "dead"
                         /\ \A s \in Schedulers : Alive(s)' => pc'[s] = "recover"
    BY DEF ClaimIsCarried, Taken, InStatus, Alive, Carries
  <2>1. rec'[j] = rec[j]
    BY DEF Quiet, ActiveLease
  <2>2. j \in Taken({"claimed"})
    BY <2>1 DEF Taken, InStatus
  <2> QED BY <2>1, <2>2 DEF SlotInv, ClaimIsCarried, Carries, Alive
<1>2. SlotsCounted'
  <2> DEFINE n == Cardinality(Taken({"running"}))
  <2>1. n' <= n
    BY QuietCounts
  <2>2. n \in Nat /\ n' \in Nat /\ active \in Nat
    <3>1. Taken({"running"}) \in SUBSET Jobs /\ Taken({"running"})' \in SUBSET Jobs
      BY DEF Taken, InStatus
    <3> QED BY <3>1, JobSets DEF IInv, TypeOK
  <2>3. \A s \in Schedulers : Carries(s)' = Carries(s)
    BY DEF Carries
  <2>4. \A s \in Schedulers :
          /\ Carries(s) \/ pc[s] \in {"countClaimed", "loop", "try"} => n <= active
          /\ Carries(s) \/ pc[s] = "try" => active < MaxConcurrent
    BY DEF SlotInv, SlotsCounted
  <2> HIDE DEF n
  <2>5. \A s \in Schedulers :
          /\ Carries(s)' \/ pc'[s] \in {"countClaimed", "loop", "try"} => n' <= active'
          /\ Carries(s)' \/ pc'[s] = "try" => active' < MaxConcurrent
    BY <2>1, <2>2, <2>3, <2>4
  <2> QED BY <2>5 DEF SlotsCounted, n
<1> QED BY <1>1, <1>2

\* A live scheduler that carries no claim after its step, and none is left.
LEMMA AtRest ==
    ASSUME IInv, NEW s \in Schedulers, Alive(s), Taken({"claimed"})' = {},
           NEW p \in PcValues \ {"spawn", "mark", "giveUp"}, pc' = [pc EXCEPT ![s] = p],
           p \in {"countClaimed", "loop", "try"} => Cardinality(Taken({"running"}))' <= active',
           p = "try" => active' < MaxConcurrent
    PROVE  ClaimIsCarried' /\ SlotsCounted'
<1>1. ClaimIsCarried'
  BY DEF ClaimIsCarried
<1> DEFINE n == Cardinality(Taken({"running"}))
<1>4. \A o \in Schedulers : pc'[o] = IF o = s THEN p ELSE pc[o]
  BY DEF IInv, TypeOK, Dispatchers
<1>5. \A o \in Schedulers \ {s} : ~Alive(o)
  BY DEF IInv, OneScheduler
<1>6. p \in {"countClaimed", "loop", "try"} => n' <= active'
  OBVIOUS
<1> HIDE DEF n
<1>7. \A o \in Schedulers :
        /\ Carries(o)' \/ pc'[o] \in {"countClaimed", "loop", "try"} => n' <= active'
        /\ Carries(o)' \/ pc'[o] = "try" => active' < MaxConcurrent
  BY <1>4, <1>5, <1>6 DEF Carries, Alive
<1> QED BY <1>1, <1>7 DEF SlotsCounted, n

\* The numbers compared in SlotsCounted are numbers.
LEMMA Counts ==
    ASSUME IInv, TypeOK'
    PROVE  /\ active \in Nat /\ active' \in Nat /\ MaxConcurrent \in Nat
           /\ \A S : /\ Cardinality(Taken(S)) \in Nat /\ Cardinality(Taken(S))' \in Nat
                     /\ Cardinality(Taken(S)) <= Cardinality(InStatus(S))
                     /\ Cardinality(InStatus(S)) \in Nat
<1>1. \A S : /\ Taken(S) \in SUBSET Jobs /\ Taken(S)' \in SUBSET Jobs
             /\ InStatus(S) \in SUBSET Jobs /\ Taken(S) \subseteq InStatus(S)
  BY DEF Taken, InStatus
<1> QED BY <1>1, JobSets, ConstantsAssumption DEF IInv, TypeOK

\* A quiet step of a live scheduler that carries no claim.
LEMMA QuietRest ==
    ASSUME IInv, SlotInv, Quiet, TypeOK', NEW s \in Schedulers, Alive(s),
           Taken({"claimed"}) = {},
           NEW p \in PcValues \ {"spawn", "mark", "giveUp"}, pc' = [pc EXCEPT ![s] = p],
           p \in {"countClaimed", "loop", "try"} => Cardinality(Taken({"running"})) <= active',
           p = "try" => active' < MaxConcurrent
    PROVE  ClaimIsCarried' /\ SlotsCounted'
<1>1. Taken({"claimed"})' = {}
  BY QuietTaken DEF ActiveLease
<1>2. Cardinality(Taken({"running"}))' <= Cardinality(Taken({"running"}))
  BY QuietCounts
<1>3. p \in {"countClaimed", "loop", "try"} => Cardinality(Taken({"running"}))' <= active'
  BY <1>2, Counts
<1> QED BY <1>1, <1>3, AtRest

\* A pass of the scheduler that takes and marks nothing.
LEMMA PassSlots ==
    ASSUME IInv, SlotInv, TypeOK', Quiet, NEW s \in Schedulers,
           Start(s) \/ SchedulerStep(s), \A j \in Jobs : ~Claim(s, j)
    PROVE  ClaimIsCarried' /\ SlotsCounted'
<1> DEFINE n == Cardinality(Taken({"running"}))
<1>1. CASE Start(s)
  <2>1. \A o \in Schedulers : ~Alive(o) /\ pc'[o] = IF o = s THEN "recover" ELSE pc[o]
    BY <1>1 DEF Start, IInv, TypeOK, Dispatchers
  <2>2. rec' = rec /\ pc[s] = "unborn"
    BY <1>1 DEF Start
  <2>3. \A o \in Schedulers : ~Carries(o) /\ ~Carries(o)' /\ (Alive(o)' => o = s)
    BY <2>1 DEF Alive, Carries
  <2>4. SlotsCounted'
    BY <2>1, <2>3 DEF SlotsCounted, Alive
  <2>5. ASSUME NEW j \in Taken({"claimed"})'
        PROVE  /\ pc'[rec'[j].owner] = "dead"
               /\ \A o \in Schedulers : Alive(o)' => pc'[o] = "recover"
    <3>1. j \in Taken({"claimed"}) /\ rec[j].owner \in Schedulers
      BY <2>2, <2>5 DEF Taken, InStatus
    <3>2. pc[rec[j].owner] = "dead"
      BY <2>3, <3>1 DEF SlotInv, ClaimIsCarried
    <3> QED BY <2>1, <2>2, <2>3, <3>1, <3>2
  <2> QED BY <2>4, <2>5 DEF ClaimIsCarried
<1>2. CASE Recover(s)
  <2>1. Alive(s) /\ pc[s] = "recover" /\ pc' = [pc EXCEPT ![s] = "reap"]
    BY <1>2 DEF Recover, Alive
  <2>2. ASSUME NEW j \in Taken({"claimed"})' PROVE FALSE
    <3>1. j \in Jobs /\ rec'[j].status = "claimed" /\ rec'[j].owner \in Schedulers
      BY <2>2 DEF Taken, InStatus
    <3>2. rec'[j] = rec[j]
      BY <3>1 DEF Quiet, ActiveLease
    <3>3. j \in Taken({"claimed"})
      BY <3>1, <3>2 DEF Taken, InStatus
    <3>4. Alive(rec[j].owner)
      <4>1. Unclaimed("pending").status # "claimed"
        BY DEF Unclaimed
      <4> QED BY <1>2, <3>1, <3>2, <4>1 DEF Recover
    <3>5. rec[j].owner = s
      BY <2>1, <3>1, <3>2, <3>4 DEF IInv, OneScheduler
    <3> QED BY <2>1, <3>3, <3>5 DEF SlotInv, ClaimIsCarried, Carries
  <2> QED BY <2>1, <2>2, AtRest DEF PcValues
<1>3. CASE ~Start(s) /\ ~Recover(s)
  <2>1. Alive(s) /\ ~Carries(s) /\ pc[s] # "recover"
    BY <1>3 DEF SchedulerStep, ReapChild, ReapGone, CountRunning, CountClaimed, Scan,
       Reject, PassOver, NothingToClaim, Wake, Alive, Carries
  <2>2. Taken({"claimed"}) = {}
    BY <2>1, NoneClaimed DEF SlotInv
  <2>3. /\ pc[s] \in {"countClaimed", "loop", "try"} => n <= active
        /\ pc[s] = "try" => active < MaxConcurrent
    BY DEF SlotInv, SlotsCounted
  <2>4. ASSUME pc' = pc, active' = active PROVE ClaimIsCarried' /\ SlotsCounted'
    <3>1. pc' = [pc EXCEPT ![s] = pc[s]] /\ pc[s] \in PcValues \ {"spawn", "mark", "giveUp"}
      BY <2>1, <2>4 DEF IInv, TypeOK, Dispatchers, Carries
    <3> QED BY <2>1, <2>2, <2>3, <2>4, <3>1, QuietRest
  <2>5. ASSUME NEW p \in {"count", "sleep", "recover"}, pc' = [pc EXCEPT ![s] = p]
        PROVE  ClaimIsCarried' /\ SlotsCounted'
    BY <2>1, <2>2, <2>5, QuietRest DEF PcValues
  <2>6. CASE \/ \E c \in Claims : ReapChild(s, c)
             \/ \E j \in Jobs : Reject(s, j) \/ PassOver(s, j)
    BY <2>4, <2>6 DEF ReapChild, Reject, PassOver, dispVars
  <2>7. CASE ReapGone(s) \/ NothingToClaim(s) \/ Wake(s)
    BY <2>5, <2>7 DEF ReapGone, NothingToClaim, Wake
  <2>8. CASE CountRunning(s)
    <3>1. CASE pc' = [pc EXCEPT ![s] = "sleep"]
      BY <2>5, <3>1
    <3>2. CASE /\ pc' = [pc EXCEPT ![s] = "countClaimed"]
               /\ active' = Cardinality(InStatus({"running"}))
      BY <2>1, <2>2, <3>2, Counts, QuietRest DEF PcValues
    <3> QED BY <2>8, <3>1, <3>2 DEF CountRunning
  <2>9. CASE CountClaimed(s)
    <3>1. /\ pc' = [pc EXCEPT ![s] = "loop"] /\ pc[s] = "countClaimed"
          /\ active' = active + Cardinality(InStatus({"claimed"}))
      BY <2>9 DEF CountClaimed
    <3>2. n <= active'
      BY <2>3, <3>1, Counts
    <3> QED BY <2>1, <2>2, <3>1, <3>2, QuietRest DEF PcValues
  <2>10. CASE Scan(s)
    <3>1. CASE pc' = [pc EXCEPT ![s] = "sleep"]
      BY <2>5, <3>1
    <3>2. CASE pc' = [pc EXCEPT ![s] = "try"] /\ active < MaxConcurrent
      <4>1. active' = active /\ n <= active
        BY <2>3, <2>10 DEF Scan
      <4> QED BY <2>1, <2>2, <3>2, <4>1, QuietRest DEF PcValues
    <3> QED BY <2>10, <3>1, <3>2 DEF Scan
  <2> QED BY <1>3, <2>6, <2>7, <2>8, <2>9, <2>10 DEF SchedulerStep
<1> QED BY <1>1, <1>2, <1>3

\* While a scheduler carries a claim, every claimed record has its token.
LEMMA OwnerCarried ==
    ASSUME IInv, SlotInv, NEW s \in Schedulers, Carries(s), NEW j \in Taken({"claimed"})
    PROVE  rec[j].owner = s /\ rec[j].token = held[s]
<1>1. rec[j].owner \in Schedulers
  BY DEF Taken
<1>2. Alive(s) /\ pc[s] # "recover"
  BY DEF Carries, Alive
<1>3. Carries(rec[j].owner) /\ held[rec[j].owner] = rec[j].token
  BY <1>2 DEF SlotInv, ClaimIsCarried
<1>4. rec[j].owner = s
  BY <1>1, <1>2, <1>3 DEF IInv, OneScheduler, Carries, Alive
<1> QED BY <1>3, <1>4

\* That record is the one of the job of the claim.
LEMMA OnlyCarried ==
    ASSUME IInv, SlotInv, NEW s \in Schedulers, Carries(s)
    PROVE  Taken({"claimed"}) \subseteq {work[held[s]].job}
<1> SUFFICES ASSUME NEW j \in Taken({"claimed"}) PROVE j = work[held[s]].job
  OBVIOUS
<1>1. j \in Jobs /\ rec[j].token # 0
  BY DEF Taken, InStatus, IInv, RecordShape
<1>2. rec[j].token = held[s]
  BY OwnerCarried
<1> QED BY <1>1, <1>2 DEF IInv, TokensIssued

\* What a scheduler does with the claim it carries.
LEMMA CarrySlots ==
    ASSUME IInv, SlotInv, TypeOK', NEW s \in Schedulers, DispatchStep(s)
    PROVE  ClaimIsCarried' /\ SlotsCounted' /\ ConcurrencyLimit'
<1> USE ConstantsAssumption
<1> DEFINE n == Cardinality(Taken({"running"}))  k == work[held[s]].job
<1>1. Carries(s) /\ Alive(s) /\ s \in Dispatchers
  BY DEF DispatchStep, Spawn, SpawnFails, Mark, MarkFails, GiveUp, Carries, Alive, Dispatchers
<1>2. /\ held[s] \in Claims /\ held[s] # 0 /\ work[held[s]].parent = s
      /\ k \in Jobs
  BY <1>1 DEF IInv, CarriedClaim, ClaimsIssued, TypeOK, Worker, Carries, Claims
<1>3. n <= active /\ active < MaxConcurrent
  BY <1>1 DEF SlotInv, SlotsCounted
<1>4. Taken({"claimed"}) \subseteq {k}
  BY <1>1, OnlyCarried
<1>5. ConcurrencyLimit
  BY DEF SlotInv
<1>6. CASE Spawn(s) \/ MarkFails(s)
  <2>1. /\ rec' = rec /\ held' = held /\ active' = active
        /\ \A o \in Schedulers \ {s} : pc'[o] = pc[o]
        /\ pc'[s] \in {"spawn", "mark", "giveUp"}
    BY <1>1, <1>6 DEF Spawn, MarkFails, locals, IInv, TypeOK, Dispatchers
  <2>2. \A o \in Schedulers \ {s} : ~Alive(o) /\ ~Alive(o)'
    BY <1>1, <2>1 DEF IInv, OneScheduler, Alive
  <2>3. \A j \in Taken({"claimed"}) : rec[j].owner = s /\ held[s] = rec[j].token
    <3>1. pc[s] # "recover"
      BY <1>1 DEF Carries
    <3>2. \A o \in Schedulers \ {s} : ~Carries(o)
      BY <2>2 DEF Alive, Carries
    <3> QED BY <1>1, <3>1, <3>2 DEF SlotInv, ClaimIsCarried, Taken
  <2>4. ClaimIsCarried'
    BY <2>1, <2>3 DEF ClaimIsCarried, Taken, InStatus, Carries
  <2>5. n' = n
    BY <2>1 DEF Taken, InStatus
  <2> HIDE DEF n
  <2>6. SlotsCounted'
    <3>1. \A o \in Schedulers :
            /\ Carries(o)' \/ pc'[o] \in {"countClaimed", "loop", "try"} => n' <= active'
            /\ Carries(o)' \/ pc'[o] = "try" => active' < MaxConcurrent
      BY <1>3, <2>1, <2>2, <2>5 DEF Alive, Carries
    <3> QED BY <3>1 DEF SlotsCounted, n
  <2>7. ConcurrencyLimit'
    BY <1>5, <2>1 DEF ConcurrencyLimit, InStatus
  <2> QED BY <2>4, <2>6, <2>7
<1>7. CASE SpawnFails(s) \/ GiveUp(s)
  <2>1. pc' = [pc EXCEPT ![s] = "loop"] /\ active' = active /\ FailClaim(s)
    BY <1>7 DEF SpawnFails, GiveUp, After, locals
  <2>2. Quiet
    BY <1>1, <2>1, FailClaimQuiet
  <2>3. Taken({"claimed"})' = {}
    <3> SUFFICES ASSUME NEW j \in Taken({"claimed"})' PROVE FALSE
      OBVIOUS
    <3>1. j \in Taken({"claimed"}) /\ rec'[j].status = "claimed"
      BY <2>2, QuietTaken DEF ActiveLease, Taken, InStatus
    <3>2. j = k
      BY <1>4, <3>1
    <3>3. rec[j] \in Record /\ rec[j].status = "claimed" /\ rec[j].token = held[s]
      BY <1>1, <3>1, OwnerCarried DEF Taken, InStatus, IInv, TypeOK
    <3>4. rec'[j] = UpdateStatus(rec[j], "failed", {"claimed"}, 0, held[s])
      BY <1>2, <2>1, <3>2 DEF FailClaim, IInv, TypeOK
    <3>5. Accepts(rec[j], "failed", {"claimed"}, 0, held[s])
      <4>1. "failed" \in Allowed("claimed") /\ "claimed" \in Stored \ Terminal
        BY DEF Allowed, Stored, Terminal, ActiveLease
      <4> QED BY <3>3, <4>1 DEF Accepts
    <3>6. UpdateStatus(rec[j], "failed", {"claimed"}, 0, held[s]) =
             [rec[j] EXCEPT !.status = "failed"]
      BY <3>5 DEF UpdateStatus
    <3>7. rec'[j].status = "failed"
      BY <3>3, <3>4, <3>6 DEF Record
    <3> QED BY <3>1, <3>7
  <2>4. n' <= active'
    <3>1. n' <= n
      BY <2>2, QuietCounts
    <3> QED BY <1>3, <2>1, <3>1, Counts
  <2> QED BY <1>1, <1>5, <2>1, <2>2, <2>3, <2>4, QuietCounts, AtRest DEF PcValues
<1>8. CASE Mark(s)
  <2>1. /\ rec' = [rec EXCEPT ![k] = [rec[k] EXCEPT !.status = "running", !.pid = held[s]]]
        /\ rec[k].status = "claimed" /\ rec[k].token = held[s]
        /\ pc' = [pc EXCEPT ![s] = "loop"] /\ active' = active + 1
    BY <1>2, <1>8 DEF Mark, MarkRunning, Accepts, After
  <2>2. /\ rec'[k].status = "running" /\ rec'[k].owner = rec[k].owner
        /\ \A j \in Jobs \ {k} : rec'[j] = rec[j]
    BY <1>2, <2>1 DEF IInv, TypeOK, Record
  <2>3. Taken({"claimed"})' = {}
    BY <1>4, <2>2 DEF Taken, InStatus
  <2>4. /\ Taken({"running"})' \subseteq Taken({"running"}) \cup {k}
        /\ Taken(ActiveLease)' \subseteq Taken(ActiveLease)
    BY <2>1, <2>2 DEF Taken, InStatus, ActiveLease
  <2>5. /\ Taken({"running"})' \in SUBSET Jobs /\ Taken({"running"}) \in SUBSET Jobs
        /\ Taken({"running"}) \cup {k} \in SUBSET Jobs
        /\ Taken(ActiveLease)' \in SUBSET Jobs /\ Taken(ActiveLease) \in SUBSET Jobs
    BY <1>2 DEF Taken, InStatus
  <2>6. n' <= n + 1
    <3>1. Cardinality(Taken({"running"})') <= Cardinality(Taken({"running"}) \cup {k})
      BY <2>4, <2>5, JobSets
    <3>2. Cardinality(Taken({"running"}) \cup {k}) <= Cardinality(Taken({"running"})) + 1
      BY <1>2, <2>5, JobSets
    <3> QED BY <2>5, <3>1, <3>2, JobSets
  <2>7. n' <= active'
    BY <1>3, <2>1, <2>6, Counts
  <2>8. ConcurrencyLimit'
    <3>1. Cardinality(Taken(ActiveLease)') <= Cardinality(Taken(ActiveLease))
      BY <2>4, <2>5, JobSets
    <3>2. Cardinality(Taken(ActiveLease)') <= MaxConcurrent
      <4>1. Cardinality(Taken(ActiveLease)) <= MaxConcurrent
        BY <1>5 DEF ConcurrencyLimit, Taken
      <4> QED BY <3>1, <4>1, <2>5, JobSets
    <3> QED BY <3>2 DEF ConcurrencyLimit, Taken
  <2> QED BY <1>1, <2>1, <2>3, <2>7, <2>8, AtRest DEF PcValues
<1> QED BY <1>6, <1>7, <1>8 DEF DispatchStep

\* A scheduler that ends leaves its claim to the next one.
LEMMA LeaveSlots ==
    ASSUME IInv, SlotInv, NEW s \in Schedulers, Leave(s), Alive(s), active' = active
    PROVE  ClaimIsCarried' /\ SlotsCounted' /\ ConcurrencyLimit'
<1>1. /\ rec' = rec /\ s \in Dispatchers
      /\ \A o \in Schedulers : pc'[o] = IF o = s THEN "dead" ELSE pc[o]
  BY DEF Leave, IInv, TypeOK, Dispatchers
<1>2. \A o \in Schedulers \ {s} : ~Alive(o)
  BY DEF IInv, OneScheduler
<1>3. \A o \in Schedulers : ~Alive(o)'
  BY <1>1, <1>2 DEF Alive
<1>4. SlotsCounted'
  BY <1>3 DEF SlotsCounted, Alive, Carries
<1>5. ClaimIsCarried'
  <2>1. ASSUME NEW j \in Taken({"claimed"}) PROVE pc'[rec[j].owner] = "dead"
    <3>1. rec[j].owner \in Schedulers
      BY <2>1 DEF Taken
    <3>2. rec[j].owner = s \/ pc[rec[j].owner] = "dead"
      BY <1>2, <2>1, <3>1 DEF SlotInv, ClaimIsCarried, Carries, Alive
    <3> QED BY <1>1, <3>1, <3>2
  <2>2. Taken({"claimed"})' = Taken({"claimed"})
    BY <1>1 DEF Taken, InStatus
  <2> QED BY <1>1, <1>3, <2>1, <2>2 DEF ClaimIsCarried
<1>6. ConcurrencyLimit'
  BY <1>1 DEF SlotInv, ConcurrencyLimit, InStatus
<1> QED BY <1>4, <1>5, <1>6

\* A claim by the scheduler fills a slot that was free.
LEMMA ClaimSlots ==
    ASSUME IInv, SlotInv, TypeOK', NEW s \in Schedulers, NEW j \in Jobs, Claim(s, j)
    PROVE  ClaimIsCarried' /\ SlotsCounted' /\ ConcurrencyLimit'
<1> DEFINE R == Taken({"running"})  U == Taken(ActiveLease)  n == Cardinality(R)
<1>1. /\ Alive(s) /\ ~Carries(s) /\ pc[s] = "try" /\ s \in Dispatchers
      /\ rec' = [rec EXCEPT ![j] = Claimed(claims + 1, s, Device[j])]
      /\ held' = [held EXCEPT ![s] = claims + 1] /\ pc' = [pc EXCEPT ![s] = "spawn"]
      /\ active' = active
  BY DEF Claim, Grant, Alive, Carries, Dispatchers
<1>2. Taken({"claimed"}) = {}
  BY <1>1, NoneClaimed DEF SlotInv
<1>3. n <= active /\ active < MaxConcurrent
  BY <1>1 DEF SlotInv, SlotsCounted
<1>4. /\ rec'[j].status = "claimed" /\ rec'[j].owner = s /\ rec'[j].token = claims + 1
      /\ \A i \in Jobs \ {j} : rec'[i] = rec[i]
      /\ held'[s] = claims + 1 /\ pc'[s] = "spawn"
      /\ \A o \in Schedulers \ {s} : pc'[o] = pc[o]
  BY <1>1 DEF Claimed, IInv, TypeOK, Dispatchers
<1>5. ClaimIsCarried'
  <2>1. Taken({"claimed"})' \subseteq {j}
    BY <1>2, <1>4 DEF Taken, InStatus
  <2> QED BY <1>4, <2>1 DEF ClaimIsCarried, Carries
<1>6. R \in SUBSET Jobs /\ R' \in SUBSET Jobs /\ U' \in SUBSET Jobs
      /\ R \cup {j} \in SUBSET Jobs /\ U \in SUBSET Jobs
  BY DEF Taken, InStatus
<1>7. n' <= n
  <2>1. R' \subseteq R
    BY <1>4 DEF Taken, InStatus
  <2> QED BY <1>6, <2>1, JobSets
<1>8. SlotsCounted'
  <2>1. \A o \in Schedulers \ {s} : ~Alive(o)
    BY <1>1 DEF IInv, OneScheduler
  <2>2. n \in Nat /\ n' \in Nat /\ active \in Nat
    BY Counts
  <2>3. n' <= active' /\ active' < MaxConcurrent
    BY <1>1, <1>3, <1>7, <2>2
  <2> HIDE DEF n
  <2>4. \A o \in Schedulers :
          /\ Carries(o)' \/ pc'[o] \in {"countClaimed", "loop", "try"} => n' <= active'
          /\ Carries(o)' \/ pc'[o] = "try" => active' < MaxConcurrent
    BY <2>3
  <2> QED BY <2>4 DEF SlotsCounted, n
<1>9. ConcurrencyLimit'
  <2>1. U' \subseteq R \cup {j}
    BY <1>2, <1>4 DEF Taken, InStatus, ActiveLease
  <2>2. Cardinality(U') <= Cardinality(R \cup {j})
    BY <1>6, <2>1, JobSets
  <2>3. Cardinality(R \cup {j}) <= n + 1
    BY <1>6, JobSets
  <2>4. n \in Nat /\ active \in Nat /\ MaxConcurrent \in Nat
    BY Counts
  <2>5. Cardinality(U') \in Nat /\ Cardinality(R \cup {j}) \in Nat
    BY <1>6, JobSets
  <2>6. Cardinality(U') <= MaxConcurrent
    BY <1>3, <2>2, <2>3, <2>4, <2>5
  <2> QED BY <2>6 DEF ConcurrencyLimit, Taken
<1> QED BY <1>5, <1>8, <1>9

\* What no scheduler does leaves the schedulers where they are.
LEMMA OthersSlots ==
    ASSUME IInv, SlotInv, [Next]_vars, Quiet,
           ~ \E s \in Schedulers : \/ Start(s) \/ SchedulerStep(s) \/ DispatchStep(s)
                                   \/ Stop(s) \/ Crash(s)
    PROVE  ClaimIsCarried' /\ SlotsCounted'
<1> USE ConstantsAssumption
<1>1. SUFFICES active' = active /\ \A s \in Schedulers : pc'[s] = pc[s] /\ held'[s] = held[s]
  BY <1>1, Undisturbed
<1>2. CASE \/ \E j \in Jobs : UserStep(j)
           \/ Clean \/ PauseQueue \/ ResumeQueue \/ UNCHANGED vars
  BY <1>2 DEF UserStep, Enqueue, PausePending, ResumePaused, KillJob, DeleteJob,
     Clean, PauseQueue, ResumeQueue, dispVars, vars
<1>3. ASSUME NEW d \in Submitters, SubmitterStep(d) \/ DispatchStep(d) \/ Stop(d) \/ Crash(d)
      PROVE  /\ active' = active
             /\ \A s \in Schedulers : pc'[s] = pc[s] /\ held'[s] = held[s]
  <2>1. d \notin Schedulers
    OBVIOUS
  <2>2. CASE SubmitterStep(d)
    BY <2>1, <2>2 DEF SubmitterStep, SubmitEnqueue, SubmitClaim, SubmitRefused, Grant,
       locals, IInv, TypeOK, Dispatchers
  <2>3. CASE DispatchStep(d)
    BY <2>1, <2>3 DEF DispatchStep, Spawn, SpawnFails, Mark, MarkFails, GiveUp,
       locals, IInv, TypeOK, Dispatchers
  <2>4. CASE Stop(d) \/ Crash(d)
    BY <2>1, <2>4 DEF Stop, Crash, Leave, locals, IInv, TypeOK, Dispatchers
  <2> QED BY <1>3, <2>2, <2>3, <2>4
<1>4. ASSUME NEW c \in Claims, DeliverKill(c) \/ WorkerStep(c) \/ WorkerDies(c)
      PROVE  pc' = pc /\ held' = held /\ active' = active
  BY <1>4 DEF DeliverKill, WorkerStep, WorkerDies, HandshakeOk, HandshakeTimeout,
     CalcStarts, CalcCannotStart, CalcExits, Publish, dispVars
<1> QED BY <1>2, <1>3, <1>4 DEF Next, Dispatchers

\* Every step keeps the slots counted.
LEMMA StepSlots == IInv /\ SlotInv /\ [Next]_vars => SlotInv'
<1> SUFFICES ASSUME IInv, SlotInv, [Next]_vars PROVE SlotInv'
  OBVIOUS
<1>1. TypeOK' /\ Moves
  BY TypeInvariant, StepMoves
<1>2. OwnerIsParent'
  BY <1>1, OwnerKept DEF SlotInv
<1>3. ClaimIsCarried' /\ SlotsCounted' /\ ConcurrencyLimit'
  <2>1. CASE \E s \in Schedulers, j \in Jobs : Claim(s, j)
    BY <1>1, <2>1, ClaimSlots
  <2>2. CASE \E s \in Schedulers : DispatchStep(s)
    BY <1>1, <2>2, CarrySlots
  <2>3. ASSUME NEW s \in Schedulers, Stop(s) \/ Crash(s)
        PROVE  ClaimIsCarried' /\ SlotsCounted' /\ ConcurrencyLimit'
    <3>1. Leave(s) /\ Alive(s)
      BY <2>3 DEF Stop, Crash, Alive
    <3>2. active' = active
      BY <3>1 DEF Leave, locals
    <3> QED BY <3>1, <3>2, LeaveSlots
  <2>4. CASE ~ \E s \in Schedulers : DispatchStep(s) \/ \E j \in Jobs : Claim(s, j)
    <3>1. Quiet
      BY <2>4, QuietStep DEF SlotInv, DispatchStep
    <3>2. ConcurrencyLimit'
      BY <3>1, QuietCounts DEF SlotInv
    <3>3. CASE \E s \in Schedulers : Start(s) \/ SchedulerStep(s)
      BY <1>1, <2>4, <3>1, <3>2, <3>3, PassSlots
    <3>4. CASE ~ \E s \in Schedulers : Start(s) \/ SchedulerStep(s) \/ Stop(s) \/ Crash(s)
      BY <2>4, <3>1, <3>2, <3>4, OthersSlots
    <3> QED BY <2>3, <3>3, <3>4
  <2> QED BY <2>1, <2>2, <2>4
<1> QED BY <1>2, <1>3 DEF SlotInv

\* The first state has no slot taken.
LEMMA InitSlots == Init => SlotInv
<1> SUFFICES ASSUME Init PROVE SlotInv
  OBVIOUS
<1>1. \A S : S \cap {"none"} = {} => InStatus(S) = {}
  BY DEF Init, InStatus, Unclaimed
<1>2. InStatus(ActiveLease) = {} /\ InStatus({"claimed"}) = {}
  BY <1>1 DEF ActiveLease
<1>3. Cardinality({}) = 0 /\ MaxConcurrent \in Nat
  BY FS_EmptySet, ConstantsAssumption
<1>4. ConcurrencyLimit
  <2>1. {j \in InStatus(ActiveLease) : rec[j].owner \in Schedulers} = {}
    BY <1>2
  <2>2. Cardinality({j \in InStatus(ActiveLease) : rec[j].owner \in Schedulers}) = 0
    BY <1>3, <2>1, Zenon
  <2> QED BY <1>3, <2>2 DEF ConcurrencyLimit
<1>5. SlotsCounted
  BY DEF Init, SlotsCounted, Carries, Dispatchers
<1> QED BY <1>2, <1>4, <1>5 DEF SlotInv, OwnerIsParent, ClaimIsCarried, Taken

\* However schedulers crash and restart, and whatever users and submitting
\* processes do meanwhile, --max-concurrent bounds the slots in use.
THEOREM ConcurrencySafety == Spec => []ConcurrencyLimit
<1>1. Init => SlotInv
  BY InitSlots
<1>2. IInv /\ SlotInv /\ [Next]_vars => SlotInv'
  BY StepSlots
<1>3. SlotInv => ConcurrencyLimit
  BY DEF SlotInv
<1> QED BY <1>1, <1>2, <1>3, InductiveInvariant, PTL DEF Spec

-------------------------------------------------------------------------------
(* The refinement of LeasedQueue *)

\* The records a step has changed.
Changed == {j \in Jobs : rec'[j] # rec[j]}

\* The records a step changes go the same way: there is one of them, or they are
\* taken back, failed or removed together.
Together ==
    \/ \E j : Changed \subseteq {j}
    \/ \A j \in Changed : rec[j].status = "claimed" /\ rec'[j] = Unclaimed("pending")
    \/ \A j \in Changed : rec'[j].status = "failed"
    \/ \A j \in Changed : rec'[j] = Unclaimed("gone")

\* A record that update_status changes gets the status.
LEMMA UpdateSets ==
    ASSUME NEW r \in Record, NEW expected, NEW pid, NEW token,
           UpdateStatus(r, "failed", expected, pid, token) # r
    PROVE  UpdateStatus(r, "failed", expected, pid, token).status = "failed"
BY DEF UpdateStatus, Record

\* No step changes two records in different ways.
LEMMA StepTogether ==
    ASSUME IInv, [Next]_vars PROVE Together
<1> TypeOK BY DEF IInv
<1> USE DEF TypeOK
<1>1. ASSUME rec' = rec PROVE Together
  BY <1>1 DEF Together, Changed
<1>2. ASSUME NEW j, NEW r, rec' = [rec EXCEPT ![j] = r] PROVE Together
  BY <1>2 DEF Together, Changed
<1>3. ASSUME NEW j \in Jobs, UserStep(j) PROVE Together
  BY <1>2, <1>3 DEF UserStep, Enqueue, PausePending, ResumePaused, KillJob, DeleteJob
<1>4. CASE Clean
  BY <1>4 DEF Clean, Together, Changed
<1>5. CASE PauseQueue \/ ResumeQueue \/ UNCHANGED vars
  BY <1>1, <1>5 DEF PauseQueue, ResumeQueue, vars
<1>6. ASSUME NEW s \in Schedulers, Start(s) \/ SchedulerStep(s) PROVE Together
  <2>1. CASE Recover(s)
    BY <2>1 DEF Recover, Together, Changed
  <2>2. CASE (\E c \in Claims : ReapChild(s, c)) \/ ReapGone(s)
    <3>1. \A j \in Jobs : \/ rec'[j] = rec[j]
                          \/ \E e, p : /\ rec'[j] = UpdateStatus(rec[j], "failed", e, p, 0)
      BY <2>2 DEF ReapChild, ReapGone
    <3>2. \A j \in Changed : rec'[j].status = "failed"
      BY <3>1, UpdateSets DEF Changed
    <3> QED BY <3>2 DEF Together
  <2>3. ASSUME NEW j \in Jobs, Reject(s, j) \/ Claim(s, j) PROVE Together
    BY <1>2, <2>3 DEF Reject, Claim, Grant
  <2>4. CASE \/ Start(s) \/ CountRunning(s) \/ CountClaimed(s) \/ Scan(s)
             \/ NothingToClaim(s) \/ Wake(s) \/ \E j \in Jobs : PassOver(s, j)
    BY <1>1, <2>4 DEF Start, CountRunning, CountClaimed, Scan, NothingToClaim, Wake, PassOver
  <2> QED BY <1>6, <2>1, <2>2, <2>3, <2>4 DEF SchedulerStep
<1>7. ASSUME NEW d \in Submitters, SubmitterStep(d) PROVE Together
  <2>1. CASE \E j \in Jobs : SubmitEnqueue(d, j)
    BY <1>2, <2>1 DEF SubmitEnqueue
  <2>2. CASE SubmitClaim(d)
    BY <1>2, <2>2 DEF SubmitClaim, Grant
  <2>3. CASE SubmitRefused(d)
    BY <1>1, <2>3 DEF SubmitRefused
  <2> QED BY <1>7, <2>1, <2>2, <2>3 DEF SubmitterStep
<1>8. ASSUME NEW d \in Dispatchers, DispatchStep(d) \/ Stop(d) \/ Crash(d) PROVE Together
  <2>1. CASE SpawnFails(d) \/ GiveUp(d) \/ Mark(d)
    BY <1>2, <2>1 DEF SpawnFails, GiveUp, FailClaim, Mark
  <2>2. CASE Spawn(d) \/ MarkFails(d) \/ Stop(d) \/ Crash(d)
    BY <1>1, <2>2 DEF Spawn, MarkFails, Stop, Crash, Leave
  <2> QED BY <1>8, <2>1, <2>2 DEF DispatchStep
<1>9. ASSUME NEW c \in Claims, DeliverKill(c) \/ WorkerStep(c) \/ WorkerDies(c) PROVE Together
  BY <1>1, <1>2, <1>9 DEF DeliverKill, WorkerStep, WorkerDies, CalcCannotStart,
     HandshakeTimeout, Publish, HandshakeOk, CalcStarts, CalcExits
<1> QED BY <1>3, <1>4, <1>5, <1>6, <1>7, <1>8, <1>9 DEF Next

\* The claims whose calculation has been started, and their jobs.
Started == {work[c].job : c \in {k \in Claims : work[k].calc # "none"}}

\* A calculation begins only when its worker starts it.
LEMMA StartedAfter ==
    ASSUME IInv, Moves
    PROVE  \/ Started' = Started
           \/ \E c \in Claims : /\ work[c].phase = "starting" /\ rec' = rec
                                /\ Started' = Started \cup {work[c].job}
<1>1. \A c \in Claims : WorkerMove(c)
  BY DEF Moves
<1>2. ASSUME NEW c \in Claims, work[c].phase = "starting", rec' = rec,
             \A e \in Claims \ {c} : work'[e] = work[e],
             work'[c] = [work[c] EXCEPT !.phase = "computing", !.calc = "live"]
      PROVE  Started' = Started \cup {work[c].job}
  <2>1. work'[c].job = work[c].job /\ work'[c].calc = "live"
    BY <1>2 DEF IInv, TypeOK, Worker
  <2>2. \A e \in Claims \ {c} : work'[e] = work[e]
    BY <1>2
  <2> QED BY <2>1, <2>2 DEF Started
<1>3. ASSUME NEW c \in Claims,
             ~ /\ work[c].phase = "starting" /\ rec' = rec
               /\ \A k \in Claims \ {c} : work'[k] = work[k]
               /\ work'[c] = [work[c] EXCEPT !.phase = "computing", !.calc = "live"]
      PROVE  /\ work'[c].calc # "none" <=> work[c].calc # "none"
             /\ work[c].calc # "none" => work'[c].job = work[c].job
  <2>1. work[c] \in Worker /\ WorkerMove(c)
    BY <1>1 DEF IInv, TypeOK
  <2>2. work[c].calc # "none" => work'[c].job = work[c].job
    BY ClaimsKept DEF IInv, ClaimsIssued, TypeOK, Claims
  <2>3. work'[c].calc # "none" <=> work[c].calc # "none"
    <3>1. CASE \E j \in Jobs, d \in Dispatchers : Granted(j, d) /\ c = claims'
      BY <3>1, GrantedWorker DEF IInv
    <3>2. ASSUME NEW o, work[c].phase = "computing",
                 work'[c] = [work[c] EXCEPT !.phase = "publishing", !.calc = "ended", !.exit = o]
          PROVE  work'[c].calc # "none" /\ work[c].calc # "none"
      BY <2>1, <3>2 DEF IInv, CalcFollowsWorker, Worker
    <3>3. ASSUME NEW p, NEW q \in {work[c].calc, "stopping"}, q # work[c].calc => work[c].calc = "live",
                 work'[c] = [work[c] EXCEPT !.phase = p, !.calc = q]
          PROVE  work'[c].calc # "none" <=> work[c].calc # "none"
      BY <2>1, <3>3 DEF Worker
    <3>4. CASE \/ work'[c] = work[c]
               \/ work'[c] = [work[c] EXCEPT !.phase = "handshake"]
               \/ work'[c] = [work[c] EXCEPT !.phase = "starting"]
               \/ /\ work[c].calc \in {"live", "stopping"}
                  /\ work'[c] = [work[c] EXCEPT !.calc = "ended"]
      BY <2>1, <3>4 DEF Worker
    <3> QED BY <1>3, <2>1, <3>1, <3>2, <3>3, <3>4, ZenonT(60) DEF WorkerMove
  <2> QED BY <2>2, <2>3
<1>4. CASE ~ \E e \in Claims : /\ work[e].phase = "starting" /\ rec' = rec
                               /\ \A k \in Claims \ {e} : work'[k] = work[k]
                               /\ work'[e] = [work[e] EXCEPT !.phase = "computing",
                                                             !.calc = "live"]
  <2>1. \A c \in Claims : /\ work'[c].calc # "none" <=> work[c].calc # "none"
                          /\ work[c].calc # "none" => work'[c].job = work[c].job
    BY <1>3, <1>4
  <2> QED BY <2>1 DEF Started
<1> QED BY <1>2, <1>4

\* The mapping of Promise.
Life   == [j \in Jobs |-> LifeOf(rec[j].status)]
Holder == [g \in Gpus |-> HolderOf(g)]

\* The GPU is held by the one active record that carries it.
HolderTrue ==
    \A g \in Gpus :
        /\ \A j \in InStatus(ActiveLease) : rec[j].gpu = g => HolderOf(g) = j
        /\ (\A j \in InStatus(ActiveLease) : rec[j].gpu # g) => HolderOf(g) = 0

LEMMA HolderFacts == LeaseExclusive => HolderTrue
<1> SUFFICES ASSUME LeaseExclusive, NEW g \in Gpus
             PROVE  /\ \A j \in InStatus(ActiveLease) : rec[j].gpu = g => HolderOf(g) = j
                    /\ (\A j \in InStatus(ActiveLease) : rec[j].gpu # g) => HolderOf(g) = 0
  BY DEF HolderTrue
<1>1. ASSUME NEW j \in InStatus(ActiveLease), rec[j].gpu = g PROVE HolderOf(g) = j
  <2>1. \A i \in InStatus(ActiveLease) : rec[i].gpu = g => i = j
    BY <1>1, ConstantsAssumption DEF LeaseExclusive
  <2> QED BY <1>1, <2>1 DEF HolderOf
<1> QED BY <1>1 DEF HolderOf

\* The same after a step.
LEMMA HolderAfter == LeaseExclusive' => HolderTrue'
BY HolderFacts, PTL

\* What a status is in the life of a job.
LEMMA Lives ==
    /\ LifeOf("none") = "absent" /\ LifeOf("pending") = "queued" /\ LifeOf("paused") = "aside"
    /\ \A s \in ActiveLease : LifeOf(s) = "active"
    /\ \A s \in Terminal : LifeOf(s) = "ended"
    /\ LifeOf("gone") = "removed"
BY DEF LifeOf, ActiveLease, Terminal

\* Records that leave one kind of state together are a move of LeasedQueue.
LEMMA MoveStep ==
    ASSUME IInv, LeaseExclusive', Started' = Started,
           NEW S \in SUBSET Jobs, S # {}, NEW from, NEW to,
           \A j \in S : /\ LifeOf(rec[j].status) \in from
                        /\ LifeOf(rec'[j].status) = to /\ rec'[j].status \notin ActiveLease,
           \A j \in Jobs \ S : rec'[j] = rec[j]
    PROVE  Promise!Move(S, from, to)
<1>1. \A j \in S : Life[j] \in from
  BY DEF Life
<1>2. Life' = [j \in Jobs |-> IF j \in S THEN to ELSE Life[j]]
  BY DEF Life
<1>3. ASSUME NEW g \in Gpus
      PROVE  HolderOf(g)' = IF HolderOf(g) \in S THEN 0 ELSE HolderOf(g)
  <2> USE DEF InStatus
  <2>1. 0 \notin S
    BY DEF Jobs
  <2>2. CASE \A j \in InStatus(ActiveLease) : rec[j].gpu # g
    <3>1. \A j \in InStatus(ActiveLease)' : rec'[j].gpu # g
      BY <2>2
    <3> QED BY <2>1, <2>2, <3>1, HolderFacts, HolderAfter DEF IInv, HolderTrue
  <2>3. ASSUME NEW j \in InStatus(ActiveLease), rec[j].gpu = g
        PROVE  HolderOf(g)' = IF HolderOf(g) \in S THEN 0 ELSE HolderOf(g)
    <3>1. HolderOf(g) = j
      BY <2>3, HolderFacts DEF IInv, HolderTrue
    <3>2. CASE j \in S
      <4>1. \A i \in InStatus(ActiveLease)' : rec'[i].gpu # g
        <5>1. \A i \in InStatus(ActiveLease) : rec[i].gpu = g => i = j
          BY <2>3, ConstantsAssumption DEF IInv, LeaseExclusive
        <5> QED BY <3>2, <5>1
      <4> QED BY <3>1, <3>2, <4>1, HolderAfter DEF HolderTrue
    <3>3. CASE j \notin S
      BY <2>3, <3>1, <3>3, HolderAfter DEF HolderTrue
    <3> QED BY <3>2, <3>3
  <2> QED BY <2>2, <2>3
<1>4. Holder' = [g \in Gpus |-> IF Holder[g] \in S THEN 0 ELSE Holder[g]]
  BY <1>3 DEF Holder
<1> QED BY <1>1, <1>2, <1>4 DEF Promise!Move, Promise!LeasedTo, Life, Holder, Started

\* Promoting a claim, or changing no record, changes nothing of the promise.
LEMMA StayStep ==
    ASSUME IInv, LeaseExclusive',
           \A j \in Jobs :
              \/ rec'[j] = rec[j]
              \/ /\ rec[j].status \in ActiveLease /\ rec'[j].status \in ActiveLease
                 /\ rec'[j].gpu = rec[j].gpu
    PROVE  Life' = Life /\ Holder' = Holder
<1>1. Life' = Life
  BY Lives DEF Life
<1>2. /\ InStatus(ActiveLease)' = InStatus(ActiveLease)
      /\ \A j \in InStatus(ActiveLease) : rec'[j].gpu = rec[j].gpu
  BY DEF InStatus
<1>3. ASSUME NEW g \in Gpus PROVE HolderOf(g)' = HolderOf(g)
  <2>1. CASE \A j \in InStatus(ActiveLease) : rec[j].gpu # g
    BY <1>2, <2>1, HolderFacts, HolderAfter DEF IInv, HolderTrue
  <2>2. ASSUME NEW j \in InStatus(ActiveLease), rec[j].gpu = g PROVE HolderOf(g)' = HolderOf(g)
    BY <1>2, <2>2, HolderFacts, HolderAfter DEF IInv, HolderTrue
  <2> QED BY <2>1, <2>2
<1>4. Holder' = Holder
  BY <1>3 DEF Holder
<1> QED BY <1>1, <1>4

\* A claim admits its job.
LEMMA AdmitStep ==
    ASSUME IInv, LeaseExclusive', Started' = Started,
           NEW j \in Jobs, NEW d \in Dispatchers, Granted(j, d)
    PROVE  Promise!Admit(j)
<1>1. /\ rec[j].status = "pending" /\ rec'[j].status = "claimed" /\ rec'[j].gpu = Device[j]
      /\ \A i \in Jobs \ {j} : rec'[i] = rec[i]
      /\ \A o \in InStatus(ActiveLease) \ {j} : Device[j] # NoGpu => rec[o].gpu # Device[j]
  BY GrantedShape DEF Granted, LeaseFree
<1>2. j \notin InStatus(ActiveLease)
  BY <1>1 DEF InStatus, ActiveLease
<1>3. InStatus(ActiveLease)' = InStatus(ActiveLease) \cup {j}
  BY <1>1 DEF InStatus, ActiveLease
<1>4. Life[j] = "queued" /\ Life' = [Life EXCEPT ![j] = "active"]
  <2>1. LifeOf(rec[j].status) = "queued" /\ LifeOf(rec'[j].status) = "active"
    BY <1>1, Lives DEF ActiveLease
  <2> QED BY <1>1, <2>1 DEF Life
<1>5. Device[j] \in Gpus \cup {NoGpu}
  BY ConstantsAssumption
<1>6. Device[j] = NoGpu \/ Holder[Device[j]] = 0
  <2>1. ASSUME Device[j] # NoGpu PROVE HolderOf(Device[j]) = 0
    BY <1>1, <1>2, <1>5, <2>1, HolderFacts DEF IInv, HolderTrue
  <2> QED BY <1>5, <2>1 DEF Holder
<1>7. ASSUME NEW g \in Gpus PROVE HolderOf(g)' = IF g = Device[j] THEN j ELSE HolderOf(g)
  <2>1. CASE g = Device[j]
    BY <1>1, <1>3, <2>1, HolderAfter DEF HolderTrue
  <2>2. CASE g # Device[j] /\ \A i \in InStatus(ActiveLease) : rec[i].gpu # g
    <3>1. \A i \in InStatus(ActiveLease)' : rec'[i].gpu # g
      BY <1>1, <1>3, <2>2 DEF InStatus
    <3> QED BY <2>2, <3>1, HolderFacts, HolderAfter DEF IInv, HolderTrue
  <2>3. ASSUME g # Device[j], NEW i \in InStatus(ActiveLease), rec[i].gpu = g
        PROVE  HolderOf(g)' = HolderOf(g)
    <3>1. i \in InStatus(ActiveLease)' /\ rec'[i].gpu = g
      BY <1>1, <1>2, <1>3, <2>3 DEF InStatus
    <3> QED BY <2>3, <3>1, HolderFacts, HolderAfter DEF IInv, HolderTrue
  <2> QED BY <2>1, <2>2, <2>3
<1>8. Holder' = [g \in Gpus |-> IF g = Device[j] THEN j ELSE Holder[g]]
  BY <1>7 DEF Holder
<1> QED BY <1>4, <1>6, <1>8 DEF Promise!Admit, Life, Holder, Started

\* A worker that starts its calculation begins its job, for the first time.
LEMMA BeginStep ==
    ASSUME IInv, LeaseExclusive', NEW c \in Claims, work[c].phase = "starting", rec' = rec,
           Started' = Started \cup {work[c].job}
    PROVE  \E j \in Jobs : Promise!Begin(j)
<1>1. Begun(c) /\ work[c].calc = "none"
  BY DEF Begun, IInv, CalcFollowsWorker
<1>2. work[c].job \in Jobs
  <2>1. c <= claims /\ work[c].job \in {0} \cup Jobs
    BY <1>1 DEF IInv, BegunOwnsRecord, TypeOK, Worker
  <2> QED BY <2>1 DEF IInv, ClaimsIssued
<1> PICK j \in Jobs : j = work[c].job
  BY <1>2
<1>3. Life[j] \in {"active", "ended", "removed"}
  <2>1. rec[j].status \in {"running", "gone"} \cup Terminal
    BY <1>1 DEF IInv, BegunOwnsRecord
  <2> QED BY <1>2, <2>1, Lives DEF Life, ActiveLease
<1>4. j \notin Started
  <2>1. ASSUME NEW e \in Claims, work[e].calc # "none", work[e].job = j PROVE FALSE
    <3>1. Begun(e)
      BY <2>1 DEF Begun
    <3>2. e = c
      BY <1>1, <2>1, <3>1 DEF IInv, BegunOnce
    <3> QED BY <1>1, <2>1, <3>2
  <2> QED BY <2>1 DEF Started
<1>5. Life' = Life /\ Holder' = Holder
  BY StayStep
<1> QED BY <1>3, <1>4, <1>5 DEF Promise!Begin, Life, Holder, Started

\* Every step is a step of LeasedQueue or a stutter.
LEMMA StepPromise ==
    ASSUME IInv, LeaseExclusive', [Next]_vars
    PROVE  Promise!Next \/ (Life' = Life /\ Holder' = Holder /\ Started' = Started)
<1> DEFINE Same == Life' = Life /\ Holder' = Holder /\ Started' = Started
<1>1. Moves /\ Together
  BY StepMoves, StepTogether
<1>2. CASE \E c \in Claims : /\ work[c].phase = "starting" /\ rec' = rec
                             /\ Started' = Started \cup {work[c].job}
  <2>1. PICK c \in Claims : /\ work[c].phase = "starting" /\ rec' = rec
                            /\ Started' = Started \cup {work[c].job}
    BY <1>2
  <2>2. \E j \in Jobs : Promise!Begin(j)
    BY <2>1, BeginStep
  <2> QED BY <2>2 DEF Promise!Next
<1>3. CASE Started' = Started /\ \E j \in Jobs, d \in Dispatchers : Granted(j, d)
  BY <1>3, AdmitStep DEF Promise!Next
<1>4. ASSUME Started' = Started, ~ \E j \in Jobs, d \in Dispatchers : Granted(j, d)
      PROVE  Promise!Next \/ Same
  <2> DEFINE Promoted(j) == rec[j].status = "claimed" /\ rec'[j].status = "running"
  <2>1. ASSUME NEW j \in Changed, Promoted(j) PROVE Same
    <3>1. Changed = {j}
      BY <1>1, <2>1 DEF Together, Unclaimed
    <3>2. rec'[j].gpu = rec[j].gpu
      BY <1>1, <1>4, <2>1, RecordAfter DEF Changed, Terminal, Unclaimed
    <3> QED BY <1>4, <2>1, <3>1, <3>2, StayStep DEF Changed, ActiveLease
  <2>2. CASE Changed = {}
    BY <1>4, <2>2, StayStep DEF Changed
  <2>3. CASE Changed # {} /\ \A j \in Changed : ~Promoted(j)
    <3> DEFINE Way(j, from, to) == /\ LifeOf(rec[j].status) \in from
                                   /\ LifeOf(rec'[j].status) = to
                                   /\ rec'[j].status \notin ActiveLease
    <3>1. ASSUME NEW from, NEW to, \A j \in Changed : Way(j, from, to)
          PROVE  Promise!Move(Changed, from, to)
      BY <1>4, <2>3, <3>1, MoveStep DEF Changed
    <3>2. Changed \in SUBSET Jobs
      BY DEF Changed
    <3>3. ASSUME NEW j \in Changed
          PROVE  \/ Way(j, {"absent"}, "queued")
                 \/ Way(j, {"queued"}, "aside")
                 \/ Way(j, {"aside"}, "queued")
                 \/ rec[j].status = "claimed" /\ rec'[j] = Unclaimed("pending")
                 \/ Way(j, {"queued", "aside", "active"}, "ended")
                 \/ Way(j, {"queued", "aside", "ended"}, "removed")
      <4>1. /\ j \in Jobs /\ rec'[j] # rec[j] /\ ~Promoted(j)
            /\ ~ \E d \in Dispatchers : Granted(j, d)
        BY <1>4, <2>3, <3>3 DEF Changed
      <4>2. \A s : Unclaimed(s).status = s
        BY DEF Unclaimed
      <4>3. "pending" \notin ActiveLease /\ "paused" \notin ActiveLease
            /\ "gone" \notin ActiveLease /\ ActiveLease \cap Terminal = {}
        BY DEF ActiveLease, Terminal
      <4>4. CASE rec[j].status \in {"none", "paused", "claimed"} /\ rec'[j] = Unclaimed("pending")
        BY <4>2, <4>3, <4>4, Lives
      <4>5. CASE rec[j].status = "pending" /\ rec'[j] = Unclaimed("paused")
        BY <4>2, <4>3, <4>5, Lives
      <4>6. CASE rec[j].status \in {"pending", "paused"} \cup Terminal /\ rec'[j] = Unclaimed("gone")
        BY <4>2, <4>3, <4>6, Lives
      <4>7. CASE /\ rec[j].status \in {"pending", "paused", "claimed", "running"}
                 /\ rec'[j].status \in Terminal
        BY <4>3, <4>7, Lives DEF ActiveLease
      <4> QED BY <1>1, <4>1, <4>4, <4>5, <4>6, <4>7, RecordAfter
    <3>4. ASSUME \A j \in Changed : rec[j].status = "claimed" /\ rec'[j] = Unclaimed("pending")
          PROVE  Promise!Requeue(Changed)
      <4>1. \A j \in Changed : Way(j, {"active"}, "queued")
        BY <3>4, Lives DEF Unclaimed, ActiveLease
      <4>2. Changed \cap Started = {}
        BY <3>4 DEF Started, IInv, BegunOwnsRecord, Begun, Terminal
      <4> QED BY <3>1, <4>1, <4>2 DEF Promise!Requeue, Started
    <3>5. ASSUME \A j \in Changed : rec'[j].status = "failed" PROVE Promise!Finish(Changed)
      <4>1. \A j \in Changed : LifeOf(rec'[j].status) = "ended"
        BY <3>5, Lives DEF Terminal
      <4>2. \A j \in Changed : Way(j, {"queued", "aside", "active"}, "ended")
        BY <3>3, <3>5, <4>1 DEF Unclaimed
      <4> QED BY <3>1, <4>2 DEF Promise!Finish
    <3>6. ASSUME \A j \in Changed : rec'[j] = Unclaimed("gone") PROVE Promise!Remove(Changed)
      <4>1. \A j \in Changed : LifeOf(rec'[j].status) = "removed" /\ rec'[j].status = "gone"
        BY <3>6, Lives DEF Unclaimed
      <4>2. \A j \in Changed : Way(j, {"queued", "aside", "ended"}, "removed")
        BY <3>3, <3>6, <4>1 DEF Unclaimed
      <4> QED BY <3>1, <4>2 DEF Promise!Remove
    <3>7. ASSUME NEW j, Changed \subseteq {j} PROVE Promise!Next
      <4>1. Changed = {j}
        BY <2>3, <3>7
      <4>2. CASE Way(j, {"absent"}, "queued")
        BY <3>1, <3>2, <4>1, <4>2 DEF Promise!Submit, Promise!Next
      <4>3. CASE Way(j, {"queued"}, "aside")
        BY <3>1, <3>2, <4>1, <4>3 DEF Promise!SetAside, Promise!Next
      <4>4. CASE Way(j, {"aside"}, "queued")
        BY <3>1, <3>2, <4>1, <4>4 DEF Promise!Readmit, Promise!Next
      <4>5. CASE rec[j].status = "claimed" /\ rec'[j] = Unclaimed("pending")
        BY <3>2, <3>4, <4>1, <4>5 DEF Promise!Next
      <4>6. CASE Way(j, {"queued", "aside", "active"}, "ended")
        BY <3>1, <3>2, <4>1, <4>6 DEF Promise!Finish, Promise!Next
      <4>7. CASE Way(j, {"queued", "aside", "ended"}, "removed")
        BY <3>1, <3>2, <4>1, <4>7 DEF Promise!Remove, Promise!Next
      <4> QED BY <3>3, <4>1, <4>2, <4>3, <4>4, <4>5, <4>6, <4>7
    <3> QED BY <1>1, <3>2, <3>4, <3>5, <3>6, <3>7 DEF Together, Promise!Next
  <2> QED BY <2>1, <2>2, <2>3
<1> QED
  <2>1. Started' = Started \/ \E c \in Claims : /\ work[c].phase = "starting" /\ rec' = rec
                                                /\ Started' = Started \cup {work[c].job}
    BY <1>1, StartedAfter
  <2> QED BY <2>1, <1>2, <1>3, <1>4

\* The queue with its processes, its records and its crashes keeps every promise
\* of LeasedQueue.
THEOREM QueueKeepsPromise == Spec => ImplementsPromise
<1>1. Init => Promise!Init
  <2> SUFFICES ASSUME Init PROVE Promise!Init
    OBVIOUS
  <2>1. \A j \in Jobs : rec[j].status = "none"
    BY DEF Init, Unclaimed
  <2>2. Life = [j \in Jobs |-> "absent"]
    BY <2>1, Lives DEF Life
  <2>3. InStatus(ActiveLease) = {}
    BY <2>1 DEF InStatus, ActiveLease
  <2>4. Holder = [g \in Gpus |-> 0]
    BY <2>3 DEF Holder, HolderOf
  <2>5. Started = {}
    BY DEF Started, Init
  <2> QED BY <2>2, <2>4, <2>5 DEF Promise!Init, Life, Holder, Started
<1>2. IInv /\ IInv' /\ [Next]_vars => [Promise!Next]_Promise!vars
  <2> SUFFICES ASSUME IInv, IInv', [Next]_vars PROVE [Promise!Next]_Promise!vars
    OBVIOUS
  <2>1. LeaseExclusive'
    BY DEF IInv
  <2>2. Promise!Next \/ (Life' = Life /\ Holder' = Holder /\ Started' = Started)
    BY <2>1, StepPromise
  <2> QED BY <2>2 DEF Promise!vars, Life, Holder, Started
<1> QED BY <1>1, <1>2, InductiveInvariant, PTL DEF Spec, ImplementsPromise, Promise!Spec

-------------------------------------------------------------------------------
(* What others see of one job *)

\* The run screen that watches job j, with the queue as its surroundings: only
\* the status of the record is taken from the queue, the screen itself rests.
Watched(j) == INSTANCE RunScreen WITH
    MaxOpened <- 0, kind <- "plain", job <- rec[j].status, engine <- "none",
    logged <- 0, mounted <- FALSE, timer <- FALSE, cancelOn <- TRUE,
    text <- "", displayed <- 0

Enqueued(j) == rec[j].status = "none" /\ rec'[j].status = "pending"

\* To whoever follows the status of one job, every step of the queue is one of
\* the moves RunScreen allows its surroundings, the enqueue of the job, or no
\* move at all: the screen's environment leaves out nothing that scheduler,
\* worker and commands do (JobManager, _ALLOWED_TRANSITIONS).
OneMoveAtATime ==
    [][\A j \in Jobs :
         \/ Enqueued(j)
         \/ Watched(j)!JobMoves \/ Watched(j)!JobEnds \/ Watched(j)!JobRemoved
         \/ rec'[j].status = rec[j].status]_vars

THEOREM ScreenSeesTheQueue == Spec => OneMoveAtATime
<1> DEFINE Step(j) == \/ Enqueued(j)
                      \/ Watched(j)!JobMoves \/ Watched(j)!JobEnds \/ Watched(j)!JobRemoved
                      \/ rec'[j].status = rec[j].status
<1>1. ASSUME IInv, [Next]_vars, NEW j \in Jobs PROVE Step(j)
  <2> DEFINE from == rec[j].status
             to == rec'[j].status
             Moved(a, b) == from = a /\ to = b
  <2>1. Moves /\ TypeOK
    BY <1>1, StepMoves DEF IInv
  <2>2. \A s : Unclaimed(s).status = s
    BY DEF Unclaimed
  <2>3. \/ to = from
        \/ from \in {"none", "paused", "claimed"} /\ to = "pending"
        \/ Moved("pending", "paused") \/ Moved("claimed", "running")
        \/ Moved("pending", "claimed")
        \/ from \in {"pending", "paused"} \cup Terminal /\ to = "gone"
        \/ from \in {"pending", "paused", "claimed", "running"} /\ to = "cancelled"
        \/ from \in {"pending", "claimed"} /\ to = "failed"
        \/ from = "running" /\ to \in Terminal
    <3>1. ASSUME NEW d \in Dispatchers, Granted(j, d) PROVE Moved("pending", "claimed")
      BY <3>1 DEF Granted, Claimed
    <3> QED BY <1>1, <2>1, <2>2, <3>1, RecordAfter
  <2>4. ASSUME NEW a, NEW b, Moved(a, b),
               <<a, b>> \in {<<"pending", "claimed">>, <<"claimed", "running">>,
                             <<"claimed", "pending">>, <<"pending", "paused">>,
                             <<"paused", "pending">>}
        PROVE  Step(j)
    BY <2>4 DEF Watched!JobMoves, Watched!widgets
  <2>5. ASSUME from \in {"pending", "paused"} \cup Terminal, to = "gone" PROVE Step(j)
    BY <2>5 DEF Watched!JobRemoved, Watched!Settled, Watched!widgets, Terminal
  <2>6. ASSUME \/ from \in {"pending", "paused", "claimed", "running"} /\ to = "cancelled"
               \/ from \in {"pending", "claimed"} /\ to = "failed"
               \/ from = "running" /\ to \in Terminal
        PROVE  Step(j)
    BY <2>6 DEF Watched!JobEnds, Watched!Settled, Watched!Failing, Watched!Live,
                Watched!widgets, Terminal
  <2> QED BY <2>3, <2>4, <2>5, <2>6 DEF Enqueued
<1>2. IInv /\ [Next]_vars => [\A j \in Jobs : Step(j)]_vars
  BY <1>1
<1> QED BY <1>2, InductiveInvariant, PTL DEF Spec, OneMoveAtATime
=============================================================================
