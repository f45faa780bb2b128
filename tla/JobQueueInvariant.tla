--------------------------- MODULE JobQueueInvariant ---------------------------
(***************************************************************************)
(* The inductive invariant of JobQueue: how the records on disk, the       *)
(* claims the dispatchers carry and the workers of those claims belong     *)
(* together.  The safety invariants of JobQueue follow from it.            *)
(***************************************************************************)
EXTENDS JobQueue

\* A record that waits or was removed holds nothing; a claimed one holds a
\* token and no pid, a running one the pid of the worker of its token; the
\* active ones carry the GPU their device resolves to.
RecordShape ==
    \A j \in Jobs :
        /\ rec[j].status \in {"none", "pending", "paused", "gone"} =>
              rec[j] = Unclaimed(rec[j].status)
        /\ rec[j].status = "claimed" => rec[j].token # 0 /\ rec[j].pid = 0
        /\ rec[j].status = "running" =>
              rec[j].token # 0 /\ rec[j].pid = rec[j].token
        /\ rec[j].status \in ActiveLease => rec[j].gpu = Device[j]
        /\ rec[j].pid # 0 => rec[j].pid = rec[j].token

\* The token a record carries is a claim that was made for this job.
TokensIssued ==
    \A j \in Jobs : rec[j].token # 0 =>
        rec[j].token <= claims /\ work[rec[j].token].job = j

\* Claims are numbered in the order they are made; those not made yet have no
\* worker.
ClaimsIssued ==
    \A c \in Claims :
        /\ c <= claims => work[c].job # 0 /\ work[c].parent # 0
        /\ c > claims => work[c].phase = "none" /\ work[c].calc = "none"

\* A dispatcher past claim_job carries a claim of its own, and it has not
\* spawned that claim's worker while it is about to.
CarriedClaim ==
    \A d \in Dispatchers :
        /\ pc[d] \in {"spawn", "mark", "giveUp"} =>
              /\ held[d] \in Claims /\ held[d] <= claims
              /\ work[held[d]].parent = d
        /\ pc[d] = "spawn" => work[held[d]].phase = "none"

SubmitterHasTarget ==
    \A d \in Submitters : pc[d] = "try" => target[d] # 0

\* A worker is past its handshake, or its calculation has been started.
Begun(c) ==
    \/ work[c].phase \in {"starting", "computing", "publishing"}
    \/ work[c].calc # "none"

\* What a begun worker did with its job's record: it is the worker of the
\* record's token, and the record never returns to the queue.
BegunOwnsRecord ==
    \A c \in Claims : Begun(c) =>
        LET r == rec[work[c].job] IN
        /\ c <= claims
        /\ \/ r.status = "gone"
           \/ /\ r.status \in {"running"} \cup Terminal
              /\ r.token = c /\ r.pid = c

\* Two begun workers never share a job, not even a removed one.
BegunOnce ==
    \A c, e \in Claims :
        (Begun(c) /\ Begun(e) /\ work[c].job = work[e].job) => c = e

\* A calculation has a worker past the handshake, and a worker publishes
\* only the exit of an ended calculation.
CalcFollowsWorker ==
    \A c \in Claims :
        /\ work[c].phase \in {"none", "handshake", "starting"} =>
              work[c].calc = "none"
        /\ work[c].phase = "computing" => work[c].calc \in {"live", "stopping"}
        /\ work[c].phase = "publishing" =>
              work[c].calc = "ended" /\ work[c].exit # "none"

\* Only a record that had a worker is reported done or not converged.
ReportedHasPid ==
    \A j \in InStatus({"done", "not_converged"}) : rec[j].pid # 0

\* One scheduler at a time is alive.
OneScheduler ==
    \A s, t \in Schedulers : Alive(s) /\ Alive(t) => s = t

\* The launch that slipped past a pause was the only candidate round open.
LateClaimClosesTheRound ==
    (paused /\ lateClaims > 0) => \A s \in Schedulers : pc[s] # "try"

IInv ==
    /\ TypeOK
    /\ RecordShape
    /\ TokensIssued
    /\ ClaimsIssued
    /\ CarriedClaim
    /\ SubmitterHasTarget
    /\ BegunOwnsRecord
    /\ BegunOnce
    /\ CalcFollowsWorker
    /\ LeaseExclusive
    /\ ComputingWorkerOwnsJob
    /\ ReportedHasPid
    /\ ReportIsTheExit
    /\ OneScheduler
    /\ LateClaimClosesTheRound
    /\ PauseLetsOneThrough

-------------------------------------------------------------------------------
(* The slots: what makes ConcurrencyLimit inductive beside IInv *)

\* The records in these states that a scheduler, not a submitting process, claimed.
Taken(S) == {j \in InStatus(S) : rec[j].owner \in Schedulers}

Carries(d) == pc[d] \in {"spawn", "mark", "giveUp"}

\* A record is owned by the dispatcher that made its claim.
OwnerIsParent ==
    \A j \in InStatus(ActiveLease) : rec[j].owner = work[rec[j].token].parent

\* A scheduler's claim that is not yet running is the one it carries; what a
\* dead scheduler left is taken back before the next one counts.
ClaimIsCarried ==
    \A j \in Taken({"claimed"}) :
        \/ Carries(rec[j].owner) /\ held[rec[j].owner] = rec[j].token
        \/ /\ pc[rec[j].owner] = "dead"
           /\ \A s \in Schedulers : Alive(s) => pc[s] = "recover"

\* The running jobs are counted before a slot is looked for, and a claim is
\* made and carried only while there is one.
SlotsCounted ==
    \A s \in Schedulers :
        /\ Carries(s) \/ pc[s] \in {"countClaimed", "loop", "try"} =>
              Cardinality(Taken({"running"})) <= active
        /\ Carries(s) \/ pc[s] = "try" => active < MaxConcurrent

SlotInv == OwnerIsParent /\ ClaimIsCarried /\ SlotsCounted /\ ConcurrencyLimit
===============================================================================
