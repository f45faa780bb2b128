------------------------------- MODULE JobQueue -------------------------------
(***************************************************************************)
(* The background job queue of mliport: the job directory (jobs.py), the   *)
(* scheduler's run_once loop (queue.py), the per-job worker process        *)
(* (job_worker.py), the calculation that worker runs, and the user         *)
(* commands (submit, pause, resume, kill, clean, delete).                  *)
(*                                                                         *)
(* Every access to a record under the state lock is one step; what a       *)
(* process reads without the lock and uses later (the pending list, the    *)
(* active count, the pause file, the worker to signal) is a step of its    *)
(* own.  A claim token is a uuid4; here the n-th claim has token n, and    *)
(* since a claim spawns at most one worker, the process with that claim's  *)
(* pid and start tick is named n too.  Reuse of a pid by a later process   *)
(* is not modelled.                                                        *)
(***************************************************************************)
EXTENDS JobRecords, FiniteSets

CONSTANTS
    NJobs,         \* jobs 1..NJobs, numbered by created_at (then job_id)
    Gpus,          \* physical GPU UUIDs
    Device,        \* the UUID each job's device resolves to, NoGpu for cpu
    Broken,        \* jobs whose record run_once rejects: no cmd, not a UUID
    Schedulers,    \* scheduler processes, one after the other
    Submitters,    \* processes that call JobManager.submit
    Outcomes,      \* the terminal statuses calculations exit with
    MaxConcurrent, \* --max-concurrent
    MaxClaims,     \* bound on the claims of a behaviour
    MaxCrashes,    \* bound on processes that die without publishing
    MaxUserOps     \* bound on pause/resume/kill/delete/clean commands

Jobs        == 1..NJobs
Claims      == 1..MaxClaims
Dispatchers == Schedulers \cup Submitters

ASSUME ConstantsAssumption ==
    /\ NJobs \in Nat /\ MaxClaims \in Nat
    /\ MaxCrashes \in Nat /\ MaxUserOps \in Nat
    /\ MaxConcurrent \in Nat \ {0}
    /\ NoGpu \notin Gpus
    /\ Device \in [Jobs -> Gpus \cup {NoGpu}]
    /\ Broken \subseteq Jobs
    /\ Outcomes \subseteq Terminal
    /\ Schedulers \subseteq Nat \ {0} /\ Submitters \subseteq Nat \ {0}
    /\ Schedulers \cap Submitters = {}

VARIABLES
    rec,        \* the job directory: one record per job
    paused,     \* scheduler.paused exists
    pc,         \* where each dispatcher is in run_once or submit
    held,       \* the claim each dispatcher is carrying, 0 for none
    target,     \* the job each submitting process has enqueued, 0 for none
    active,     \* run_once's local count of used slots
    cand,       \* run_once's local list of pending jobs still to try
    work,       \* the worker process and calculation of every claim
    claims,     \* number of claims made so far
    kills,      \* workers a kill_job caller has decided to signal
    crashes,    \* processes that died so far
    userOps,    \* user commands so far
    lateClaims  \* history: scheduler claims since the queue was paused

dispVars == <<pc, held, target, active, cand>>
locals   == <<active, cand>>
procVars == <<work, claims, kills>>
auxVars  == <<crashes, userOps, lateClaims>>
vars     == <<rec, paused, dispVars, procVars, auxVars>>


Alive(d) == pc[d] \notin {"unborn", "dead"}

Init ==
    /\ rec = [j \in Jobs |-> Unclaimed("none")]
    /\ paused = FALSE
    /\ pc = [d \in Dispatchers |-> "unborn"]
    /\ held = [d \in Dispatchers |-> 0]
    /\ target = [d \in Submitters |-> 0]
    /\ active = 0 /\ cand = {}
    /\ work = [c \in Claims |-> [phase |-> "none", job |-> 0, parent |-> 0,
                                 calc |-> "none", exit |-> "none"]]
    /\ claims = 0 /\ kills = {} /\ crashes = 0 /\ userOps = 0
    /\ lateClaims = 0

-------------------------------------------------------------------------------
(* Records by status, and the test claim_job makes before it grants a lease. *)

InStatus(S)   == {j \in Jobs : rec[j].status \in S}

\* Faulty variant of LeaseFree: only claimed jobs are seen to hold a lease.
LeaseFreeOfClaimed(j) ==
    Device[j] = NoGpu \/ \A o \in InStatus({"claimed"}) : rec[o].gpu # Device[j]

LeaseFree(j)  ==
    \/ Device[j] = NoGpu
    \/ \A o \in InStatus(ActiveLease) \ {j} :
          /\ rec[o].gpu # Device[j]
          /\ rec[o].gpu = NoGpu => Device[o] = NoGpu

\* A worker that ends stays a zombie until its parent waits for it; a worker
\* whose parent is gone is waited for by init.  running_process_matches holds
\* for a zombie.
Ended(c)    == IF Alive(work[c].parent) THEN "zombie" ELSE "gone"
WorkerUp(c) ==
    work[c].phase \in {"handshake", "starting", "computing", "publishing"}

\* SIGTERM to the process group: the worker has no handler and dies, the
\* calculation starts its bounded cooperative shutdown.
Signalled(c) ==
    [work[c] EXCEPT
        !.phase = IF WorkerUp(c) THEN Ended(c) ELSE @,
        !.calc  = IF @ = "live" THEN "stopping" ELSE @]

-------------------------------------------------------------------------------
(* User commands *)

Command == userOps < MaxUserOps /\ userOps' = userOps + 1

Enqueue(j) ==
    /\ rec[j].status = "none"
    /\ rec' = [rec EXCEPT ![j] = Unclaimed("pending")]
    /\ UNCHANGED <<paused, dispVars, procVars, auxVars>>

PausePending(j) ==
    /\ Command
    /\ rec[j].status = "pending"
    /\ rec' = [rec EXCEPT ![j] = UpdateStatus(@, "paused", {"pending"}, 0, 0)]
    /\ UNCHANGED <<paused, dispVars, procVars, crashes, lateClaims>>

ResumePaused(j) ==
    /\ rec[j].status = "paused"
    /\ rec' = [rec EXCEPT ![j] = UpdateStatus(@, "pending", {"paused"}, 0, 0)]
    /\ UNCHANGED <<paused, dispVars, procVars, auxVars>>

\* kill_job up to the release of the lock; a running job's worker is
\* signalled afterwards, by DeliverKill.  A running job whose recorded
\* process is gone is refused.
KillJob(j) ==
    /\ Command
    /\ \/ /\ rec[j].status \in {"pending", "paused", "claimed"}
          /\ UNCHANGED kills
       \/ /\ rec[j].status = "running"
          /\ work[rec[j].pid].phase # "gone"
          /\ kills' = kills \cup {rec[j].pid}
    /\ rec' = [rec EXCEPT ![j].status = "cancelled"]
    /\ UNCHANGED <<paused, dispVars, work, claims, crashes, lateClaims>>

DeliverKill(c) ==
    /\ c \in kills
    /\ kills' = kills \ {c}
    /\ work' = [work EXCEPT ![c] = Signalled(c)]
    /\ UNCHANGED <<rec, paused, dispVars, claims, auxVars>>

\* Faulty variant of DeleteJob: active jobs are not spared.
DeleteAnyJob(j) ==
    /\ Command
    /\ rec[j].status \in Stored
    /\ rec' = [rec EXCEPT ![j] = Unclaimed("gone")]
    /\ UNCHANGED <<paused, dispVars, procVars, crashes, lateClaims>>

DeleteJob(j) ==
    /\ Command
    /\ rec[j].status \in Stored \ ActiveLease
    /\ rec' = [rec EXCEPT ![j] = Unclaimed("gone")]
    /\ UNCHANGED <<paused, dispVars, procVars, crashes, lateClaims>>

Clean ==
    /\ Command
    /\ rec' = [j \in Jobs |-> IF rec[j].status \in Terminal
                              THEN Unclaimed("gone") ELSE rec[j]]
    /\ UNCHANGED <<paused, dispVars, procVars, crashes, lateClaims>>

PauseQueue ==
    /\ Command
    /\ ~paused
    /\ paused' = TRUE
    /\ lateClaims' = 0
    /\ UNCHANGED <<rec, dispVars, procVars, crashes>>

ResumeQueue ==
    /\ paused
    /\ paused' = FALSE
    /\ UNCHANGED <<rec, dispVars, procVars, auxVars>>

-------------------------------------------------------------------------------
(* The scheduler: one pass of run_once *)

\* The singleton lock admits one live scheduler.  A number is only a name, so
\* schedulers are started in the order of theirs.
Start(s) ==
    /\ pc[s] = "unborn"
    /\ \A o \in Schedulers : ~Alive(o) /\ (pc[o] = "unborn" => s <= o)
    /\ pc' = [pc EXCEPT ![s] = "recover"]
    /\ UNCHANGED <<rec, paused, held, target, locals, procVars, auxVars>>

\* Faulty variant of Recover: running jobs of a dead owner are requeued too.
RecoverActive(s) ==
    /\ pc[s] = "recover"
    /\ rec' = [j \in Jobs |->
                 IF rec[j].status \in ActiveLease /\ ~Alive(rec[j].owner)
                 THEN Unclaimed("pending") ELSE rec[j]]
    /\ pc' = [pc EXCEPT ![s] = "reap"]
    /\ UNCHANGED <<paused, held, target, locals, procVars, auxVars>>

\* recover_stale_claims: a claim is abandoned when its owner is dead or it is
\* older than stale_claim_seconds, whichever live owners that hits.
Recover(s) ==
    /\ pc[s] = "recover"
    /\ \E late \in SUBSET {j \in InStatus({"claimed"}) : Alive(rec[j].owner)} :
          rec' = [j \in Jobs |->
                    IF /\ rec[j].status = "claimed"
                       /\ j \in late \/ ~Alive(rec[j].owner)
                    THEN Unclaimed("pending") ELSE rec[j]]
    /\ pc' = [pc EXCEPT ![s] = "reap"]
    /\ UNCHANGED <<paused, held, target, locals, procVars, auxVars>>

\* One iteration of the waitpid loop of _reap_stale_running.
ReapChild(s, c) ==
    /\ pc[s] = "reap"
    /\ work[c].phase = "zombie" /\ work[c].parent = s
    /\ work' = [work EXCEPT ![c].phase = "gone"]
    /\ rec' = [j \in Jobs |->
                 IF rec[j].pid = c
                 THEN UpdateStatus(rec[j], "failed", {"running"}, c, 0)
                 ELSE rec[j]]
    /\ UNCHANGED <<paused, dispVars, claims, kills, auxVars>>

\* Faulty variant of ReapGone: only the scheduler's own children are reaped.
ReapNoStrangers(s) ==
    /\ pc[s] = "reap"
    /\ \A c \in Claims : ~(work[c].phase = "zombie" /\ work[c].parent = s)
    /\ pc' = [pc EXCEPT ![s] = "count"]
    /\ UNCHANGED <<rec, paused, held, target, locals, procVars, auxVars>>

\* waitpid has nothing left; the second loop fails every RUNNING record whose
\* process no longer exists.  A process that is gone stays gone and each
\* update is a compare-and-swap, so the loop is one step.
ReapGone(s) ==
    /\ pc[s] = "reap"
    /\ \A c \in Claims : ~(work[c].phase = "zombie" /\ work[c].parent = s)
    /\ rec' = [j \in Jobs |->
                 IF rec[j].status = "running" /\ work[rec[j].pid].phase = "gone"
                 THEN UpdateStatus(rec[j], "failed", {"running"}, rec[j].pid, 0)
                 ELSE rec[j]]
    /\ pc' = [pc EXCEPT ![s] = "count"]
    /\ UNCHANGED <<paused, held, target, locals, procVars, auxVars>>

\* The pause test of run_once, then count_by_status("running"); the claimed
\* records are counted by a second listing.
CountRunning(s) ==
    /\ pc[s] = "count"
    /\ IF paused
       THEN pc' = [pc EXCEPT ![s] = "sleep"] /\ UNCHANGED active
       ELSE /\ pc' = [pc EXCEPT ![s] = "countClaimed"]
            /\ active' = Cardinality(InStatus({"running"}))
    /\ UNCHANGED <<rec, paused, held, target, cand, procVars, auxVars>>

CountClaimed(s) ==
    /\ pc[s] = "countClaimed"
    /\ active' = active + Cardinality(InStatus({"claimed"}))
    /\ pc' = [pc EXCEPT ![s] = "loop"]
    /\ UNCHANGED <<rec, paused, held, target, cand, procVars, auxVars>>

\* Faulty variant of Scan: the pause file is read once per pass only.
ScanUnpaused(s) ==
    /\ pc[s] = "loop"
    /\ IF active < MaxConcurrent
       THEN /\ cand' = InStatus({"pending"})
            /\ pc' = [pc EXCEPT ![s] = "try"]
       ELSE /\ pc' = [pc EXCEPT ![s] = "sleep"]
            /\ UNCHANGED cand
    /\ UNCHANGED <<rec, paused, held, target, active, procVars, auxVars>>

\* The head of the launch loop: the slot test, the pause test, and the list
\* of pending jobs this round will try.
Scan(s) ==
    /\ pc[s] = "loop"
    /\ IF active < MaxConcurrent /\ ~paused
       THEN /\ cand' = InStatus({"pending"})
            /\ pc' = [pc EXCEPT ![s] = "try"]
       ELSE /\ pc' = [pc EXCEPT ![s] = "sleep"]
            /\ UNCHANGED cand
    /\ UNCHANGED <<rec, paused, held, target, active, procVars, auxVars>>

\* pending_jobs sorts by created_at: the next candidate is the oldest.
NextUp(j) == j \in cand /\ \A o \in cand : j <= o

\* A candidate without a command or with a foreign id is failed, and so is
\* one whose device cannot be resolved at that moment.
Reject(s, j) ==
    /\ pc[s] = "try" /\ NextUp(j)
    /\ j \in Broken \/ Device[j] # NoGpu
    /\ rec' = [rec EXCEPT ![j] = UpdateStatus(@, "failed", {"pending"}, 0, 0)]
    /\ cand' = cand \ {j}
    /\ UNCHANGED <<paused, pc, held, target, active, procVars, auxVars>>

\* claim_job by dispatcher d: PENDING to CLAIMED together with the lease.
Grant(d, j) ==
    /\ claims < MaxClaims
    /\ claims' = claims + 1
    /\ rec' = [rec EXCEPT ![j] = Claimed(claims + 1, d, Device[j])]
    /\ work' = [work EXCEPT ![claims + 1].job = j,
                            ![claims + 1].parent = d]
    /\ held' = [held EXCEPT ![d] = claims + 1]
    /\ pc' = [pc EXCEPT ![d] = "spawn"]

Claim(s, j) ==
    /\ pc[s] = "try" /\ NextUp(j)
    /\ j \notin Broken
    /\ rec[j].status = "pending" /\ LeaseFree(j)
    /\ Grant(s, j)
    /\ lateClaims' = IF paused THEN lateClaims + 1 ELSE lateClaims
    /\ cand' = {}
    /\ UNCHANGED <<paused, target, active, kills, crashes, userOps>>

\* claim_job returned None: the record is no longer pending, or the GPU is
\* leased.  The round goes on to the next candidate.
PassOver(s, j) ==
    /\ pc[s] = "try" /\ NextUp(j)
    /\ j \notin Broken
    /\ rec[j].status # "pending" \/ ~LeaseFree(j)
    /\ cand' = cand \ {j}
    /\ UNCHANGED <<rec, paused, pc, held, target, active, procVars, auxVars>>

NothingToClaim(s) ==
    /\ pc[s] = "try" /\ cand = {}
    /\ pc' = [pc EXCEPT ![s] = "sleep"]
    /\ UNCHANGED <<rec, paused, held, target, locals, procVars, auxVars>>

Wake(s) ==
    /\ pc[s] = "sleep"
    /\ pc' = [pc EXCEPT ![s] = "recover"]
    /\ active' = 0 /\ cand' = {}
    /\ UNCHANGED <<rec, paused, held, target, procVars, auxVars>>

-------------------------------------------------------------------------------
(* Dispatching a claim: shared by run_once and JobManager.submit *)

After(d) == IF d \in Schedulers THEN "loop" ELSE "done"

Spawn(d) ==
    /\ pc[d] = "spawn"
    /\ work' = [work EXCEPT ![held[d]].phase = "handshake"]
    /\ pc' = [pc EXCEPT ![d] = "mark"]
    /\ UNCHANGED <<rec, paused, held, target, locals, claims, kills, auxVars>>

\* The record of the claim a dispatcher holds, failed if it is still its own.
FailClaim(d) ==
    LET j == work[held[d]].job IN
    rec' = [rec EXCEPT ![j] =
              UpdateStatus(@, "failed", {"claimed"}, 0, held[d])]

SpawnFails(d) ==
    /\ pc[d] = "spawn"
    /\ FailClaim(d)
    /\ pc' = [pc EXCEPT ![d] = After(d)]
    /\ held' = [held EXCEPT ![d] = 0]
    /\ UNCHANGED <<paused, target, locals, procVars, auxVars>>

\* Faulty variant of Mark: the launched job does not take a slot.
MarkUncounted(d) ==
    LET j == work[held[d]].job IN
    /\ pc[d] = "mark"
    /\ Accepts(rec[j], "running", {"claimed"}, 0, held[d])
    /\ rec' = [rec EXCEPT ![j] = MarkRunning(@, held[d], held[d])]
    /\ pc' = [pc EXCEPT ![d] = After(d)]
    /\ held' = [held EXCEPT ![d] = 0]
    /\ UNCHANGED <<paused, target, locals, procVars, auxVars>>

\* mark_running succeeds.
Mark(d) ==
    LET j == work[held[d]].job IN
    /\ pc[d] = "mark"
    /\ Accepts(rec[j], "running", {"claimed"}, 0, held[d])
    /\ rec' = [rec EXCEPT ![j] = MarkRunning(@, held[d], held[d])]
    /\ pc' = [pc EXCEPT ![d] = After(d)]
    /\ held' = [held EXCEPT ![d] = 0]
    /\ active' = IF d \in Schedulers THEN active + 1 ELSE active
    /\ UNCHANGED <<paused, target, cand, procVars, auxVars>>

\* mark_running returned False: the record moved on, or the worker's start
\* tick could not be read in time.  The worker's group is signalled.
MarkFails(d) ==
    /\ pc[d] = "mark"
    /\ work' = [work EXCEPT ![held[d]] = Signalled(held[d])]
    /\ pc' = [pc EXCEPT ![d] = "giveUp"]
    /\ UNCHANGED <<rec, paused, held, target, locals, claims, kills, auxVars>>

GiveUp(d) ==
    /\ pc[d] = "giveUp"
    /\ FailClaim(d)
    /\ pc' = [pc EXCEPT ![d] = After(d)]
    /\ held' = [held EXCEPT ![d] = 0]
    /\ UNCHANGED <<paused, target, locals, procVars, auxVars>>

-------------------------------------------------------------------------------
(* JobManager.submit: enqueue, then claim that job at once *)

SubmitEnqueue(d, j) ==
    /\ pc[d] = "unborn"
    /\ rec[j].status = "none"
    /\ rec' = [rec EXCEPT ![j] = Unclaimed("pending")]
    /\ pc' = [pc EXCEPT ![d] = "try"]
    /\ target' = [target EXCEPT ![d] = j]
    /\ UNCHANGED <<paused, held, locals, procVars, auxVars>>

SubmitClaim(d) ==
    LET j == target[d] IN
    /\ pc[d] = "try"
    /\ rec[j].status = "pending" /\ LeaseFree(j)
    /\ Grant(d, j)
    /\ UNCHANGED <<paused, target, locals, kills, auxVars>>

\* RuntimeError: the job stays in the queue for the scheduler.
SubmitRefused(d) ==
    LET j == target[d] IN
    /\ pc[d] = "try"
    /\ rec[j].status # "pending" \/ ~LeaseFree(j)
    /\ pc' = [pc EXCEPT ![d] = "done"]
    /\ UNCHANGED <<rec, paused, held, target, locals, procVars, auxVars>>

-------------------------------------------------------------------------------
(* Processes that end *)

\* The children of d are inherited by init, which waits for the dead ones.
Orphaned(d) ==
    [c \in Claims |-> IF work[c].parent = d /\ work[c].phase = "zombie"
                      THEN [work[c] EXCEPT !.phase = "gone"] ELSE work[c]]

Leave(d) ==
    /\ pc' = [pc EXCEPT ![d] = "dead"]
    /\ held' = [held EXCEPT ![d] = 0]
    /\ work' = Orphaned(d)
    /\ UNCHANGED <<rec, paused, target, locals, claims, kills, lateClaims>>

\* request_stop (SIGTERM) takes effect between two passes; a submitting
\* process ends when its user closes it.
Stop(d) ==
    /\ Command
    /\ pc[d] \in {"sleep", "done"}
    /\ Leave(d)
    /\ UNCHANGED crashes

Crash(d) ==
    /\ crashes < MaxCrashes
    /\ Alive(d)
    /\ crashes' = crashes + 1
    /\ Leave(d)
    /\ UNCHANGED userOps

-------------------------------------------------------------------------------
(* The worker and its calculation *)

\* Faulty variant of HandshakeOk: any running record lets the worker through.
HandshakeByStatus(c) ==
    /\ work[c].phase = "handshake"
    /\ rec[work[c].job].status = "running"
    /\ work' = [work EXCEPT ![c].phase = "starting"]
    /\ UNCHANGED <<rec, paused, dispVars, claims, kills, auxVars>>

\* The startup handshake of job_worker.main.
HandshakeOk(c) ==
    LET r == rec[work[c].job] IN
    /\ work[c].phase = "handshake"
    /\ r.status = "running" /\ r.pid = c /\ r.token = c
    /\ work' = [work EXCEPT ![c].phase = "starting"]
    /\ UNCHANGED <<rec, paused, dispVars, claims, kills, auxVars>>

\* subprocess.run, on the reading the handshake made.
CalcStarts(c) ==
    /\ work[c].phase = "starting"
    /\ work' = [work EXCEPT ![c].phase = "computing", ![c].calc = "live"]
    /\ UNCHANGED <<rec, paused, dispVars, claims, kills, auxVars>>

\* leased_process_environment or Popen raises: the worker reports it.
CalcCannotStart(c) ==
    /\ work[c].phase = "starting"
    /\ rec' = [rec EXCEPT ![work[c].job] =
                 UpdateStatus(@, "failed", {"running"}, c, c)]
    /\ work' = [work EXCEPT ![c].phase = Ended(c)]
    /\ UNCHANGED <<paused, dispVars, claims, kills, auxVars>>

\* Faulty variant of HandshakeTimeout: the claim token is not compared.
TimeoutWithoutToken(c) ==
    /\ work[c].phase = "handshake"
    /\ rec' = [rec EXCEPT ![work[c].job] =
                 UpdateStatus(@, "failed", ActiveLease, 0, 0)]
    /\ work' = [work EXCEPT ![c].phase = Ended(c)]
    /\ UNCHANGED <<paused, dispVars, claims, kills, auxVars>>

\* The budget runs out; the last reading may have preceded the promotion.
HandshakeTimeout(c) ==
    /\ work[c].phase = "handshake"
    /\ rec' = [rec EXCEPT ![work[c].job] =
                 UpdateStatus(@, "failed", ActiveLease, 0, c)]
    /\ work' = [work EXCEPT ![c].phase = Ended(c)]
    /\ UNCHANGED <<paused, dispVars, claims, kills, auxVars>>

\* The calculation exits.  Its worker, if it is still there, returns from
\* subprocess.run with an outcome to publish (outcome_from_exit_code).
CalcExits(c, o) ==
    /\ work[c].calc \in {"live", "stopping"}
    /\ work' = [work EXCEPT
                  ![c].calc = "ended",
                  ![c].exit = IF work[c].phase = "computing" THEN o ELSE @,
                  ![c].phase = IF @ = "computing" THEN "publishing" ELSE @]
    /\ UNCHANGED <<rec, paused, dispVars, claims, kills, auxVars>>

\* Faulty variant of Publish: every exit is reported as done.
PublishDone(c) ==
    /\ work[c].phase = "publishing"
    /\ rec' = [rec EXCEPT ![work[c].job] =
                 UpdateStatus(@, "done", {"running"}, c, c)]
    /\ work' = [work EXCEPT ![c].phase = Ended(c)]
    /\ UNCHANGED <<paused, dispVars, claims, kills, auxVars>>

Publish(c) ==
    /\ work[c].phase = "publishing"
    /\ rec' = [rec EXCEPT ![work[c].job] =
                 UpdateStatus(@, work[c].exit, {"running"}, c, c)]
    /\ work' = [work EXCEPT ![c].phase = Ended(c)]
    /\ UNCHANGED <<paused, dispVars, claims, kills, auxVars>>

\* kill -9, the OOM killer: the worker is gone, its calculation is not.
WorkerDies(c) ==
    /\ crashes < MaxCrashes
    /\ WorkerUp(c)
    /\ crashes' = crashes + 1
    /\ work' = [work EXCEPT ![c].phase = Ended(c)]
    /\ UNCHANGED <<rec, paused, dispVars, claims, kills, userOps, lateClaims>>

-------------------------------------------------------------------------------

UserStep(j) ==
    \/ Enqueue(j) \/ PausePending(j) \/ ResumePaused(j)
    \/ KillJob(j) \/ DeleteJob(j)

SchedulerStep(s) ==
    \/ Recover(s) \/ (\E c \in Claims : ReapChild(s, c)) \/ ReapGone(s)
    \/ CountRunning(s) \/ CountClaimed(s) \/ Scan(s)
    \/ (\E j \in Jobs : Reject(s, j) \/ Claim(s, j) \/ PassOver(s, j))
    \/ NothingToClaim(s) \/ Wake(s)

SubmitterStep(d) ==
    \/ (\E j \in Jobs : SubmitEnqueue(d, j))
    \/ SubmitClaim(d) \/ SubmitRefused(d)

DispatchStep(d) ==
    \/ Spawn(d) \/ SpawnFails(d) \/ Mark(d) \/ MarkFails(d) \/ GiveUp(d)

WorkerStep(c) ==
    \/ HandshakeOk(c) \/ HandshakeTimeout(c)
    \/ CalcStarts(c) \/ CalcCannotStart(c)
    \/ (\E o \in Outcomes : CalcExits(c, o)) \/ Publish(c)

Next ==
    \/ \E j \in Jobs : UserStep(j)
    \/ Clean \/ PauseQueue \/ ResumeQueue
    \/ \E s \in Schedulers : Start(s) \/ SchedulerStep(s)
    \/ \E d \in Submitters : SubmitterStep(d)
    \/ \E d \in Dispatchers : DispatchStep(d) \/ Stop(d) \/ Crash(d)
    \/ \E c \in Claims : DeliverKill(c) \/ WorkerStep(c) \/ WorkerDies(c)

Spec == Init /\ [][Next]_vars

\* What keeps running by itself: the scheduler's loop and the dispatch it has
\* begun, the workers and their calculations, and an operator who starts a
\* scheduler when none is up and resumes a queue that was paused.  Nothing is
\* assumed of a kill_job caller: it may die before it signals.
Fairness ==
    /\ \A s \in Schedulers : WF_vars(SchedulerStep(s))
    /\ \A d \in Dispatchers : WF_vars(DispatchStep(d))
    /\ \A d \in Submitters : WF_vars(SubmitClaim(d) \/ SubmitRefused(d))
    /\ \A c \in Claims : WF_vars(WorkerStep(c))
    /\ WF_vars(\E s \in Schedulers : Start(s))
    /\ WF_vars(ResumeQueue)

FairSpec == Spec /\ Fairness

-------------------------------------------------------------------------------
(* Properties *)

Phases == {"none", "handshake", "starting", "computing", "publishing",
           "zombie", "gone"}

PcValues ==
    {"unborn", "recover", "reap", "count", "countClaimed", "loop", "try",
     "spawn", "mark", "giveUp", "sleep", "done", "dead"}

Record == [status : Status, pid : {0} \cup Claims, token : {0} \cup Claims,
           owner : {0} \cup Dispatchers, gpu : Gpus \cup {NoGpu}]

Worker == [phase : Phases, job : {0} \cup Jobs, parent : {0} \cup Dispatchers,
           calc : {"none", "live", "stopping", "ended"},
           exit : {"none"} \cup Outcomes]

\* Type invariant of every variable.
TypeOK ==
    /\ rec \in [Jobs -> Record]
    /\ paused \in BOOLEAN
    /\ pc \in [Dispatchers -> PcValues]
    /\ held \in [Dispatchers -> {0} \cup Claims]
    /\ target \in [Submitters -> {0} \cup Jobs]
    /\ active \in Nat
    /\ cand \in SUBSET Jobs
    /\ work \in [Claims -> Worker]
    /\ claims \in 0..MaxClaims
    /\ kills \in SUBSET Claims
    /\ crashes \in 0..MaxCrashes
    /\ userOps \in 0..MaxUserOps
    /\ lateClaims \in Nat

\* The lease of claim_job: two claimed or running records never carry the
\* same physical GPU, whatever mixture of schedulers, submitting processes,
\* recoveries and cancellations led there.
LeaseExclusive ==
    \A i, j \in InStatus(ActiveLease) :
        (i # j /\ rec[i].gpu # NoGpu) => rec[i].gpu # rec[j].gpu

\* A worker that passed the handshake and is still up is the one its job's
\* record names, unless a user cancelled the job under it: no timeout, reaper,
\* recovery or rival worker ever takes a job from a live calculation.
ComputingWorkerOwnsJob ==
    \A c \in Claims :
        work[c].phase \in {"starting", "computing", "publishing"} =>
            LET r == rec[work[c].job] IN
            \/ r.status = "running" /\ r.pid = c /\ r.token = c
            \/ r.status \in {"cancelled", "gone"}

\* However often a job is claimed, recovered and claimed again, its
\* calculation is started at most once.
ComputedAtMostOnce ==
    \A c, e \in Claims :
        (work[c].calc # "none" /\ work[e].calc # "none"
            /\ work[c].job = work[e].job) => c = e

\* A job reported done or not_converged was really computed, and the report
\* is the exit of the calculation of the worker its record names.
ReportIsTheExit ==
    \A j \in InStatus({"done", "not_converged"}) :
        LET w == work[rec[j].pid] IN
        w.job = j /\ w.calc = "ended" /\ w.exit = rec[j].status

\* --max-concurrent bounds the slots in use, over every crash and restart
\* of the scheduler (submitting processes bypass the limit).
ConcurrencyLimit ==
    Cardinality({j \in InStatus(ActiveLease) : rec[j].owner \in Schedulers})
        <= MaxConcurrent

\* Pausing the queue lets at most the one launch through whose pause test
\* had already been made.
PauseLetsOneThrough == lateClaims <= 1

\* A record that reached a terminal status keeps it until it is removed, and
\* a removed record never comes back.
TerminalIsFinal ==
    [][\A j \in Jobs :
         /\ rec[j].status \in Terminal =>
               rec'[j].status \in {rec[j].status, "gone"}
         /\ rec[j].status = "gone" => rec'[j].status = "gone"]_vars

\* A job goes back to the queue only while nothing has been computed for it.
RequeuedOnlyUnstarted ==
    [][\A j \in Jobs :
         (rec[j].status \in ActiveLease /\ rec'[j].status = "pending") =>
            \A c \in Claims : work[c].job = j => work[c].calc = "none"]_vars

\* Every job that waits in the queue is eventually finished, put aside or
\* removed, although schedulers and workers may be killed on the way.
EveryJobSettles ==
    \A j \in Jobs :
        rec[j].status \in {"pending", "claimed", "running"} ~>
            rec[j].status \in Terminal \cup {"paused", "gone"}

\* The refinement mapping to LeasedQueue.
LifeOf(status) ==
    CASE status = "none"           -> "absent"
      [] status = "pending"        -> "queued"
      [] status = "paused"         -> "aside"
      [] status \in ActiveLease    -> "active"
      [] status \in Terminal       -> "ended"
      [] status = "gone"           -> "removed"

HolderOf(g) ==
    IF \E j \in InStatus(ActiveLease) : rec[j].gpu = g
    THEN CHOOSE j \in InStatus(ActiveLease) : rec[j].gpu = g ELSE 0

Promise == INSTANCE LeasedQueue WITH
    life   <- [j \in Jobs |-> LifeOf(rec[j].status)],
    holder <- [g \in Gpus |-> HolderOf(g)],
    begun  <- {work[c].job : c \in {k \in Claims : work[k].calc # "none"}}

\* The queue with its processes keeps the promise of LeasedQueue.
ImplementsPromise == Promise!Spec

\* docs/workflows/queue.md: "so a single GPU is used by one job at a time".
\* Two calculations never run on one physical GPU.
OneCalculationPerGpu ==
    \A c, e \in Claims :
        LET busy(k) == work[k].calc \in {"live", "stopping"} IN
        (c # e /\ busy(c) /\ busy(e)) =>
            \/ Device[work[c].job] = NoGpu
            \/ Device[work[c].job] # Device[work[e].job]
===============================================================================
