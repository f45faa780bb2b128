------------------------------ MODULE JobRecords ------------------------------
(***************************************************************************)
(* The persisted job record of mliport/jobs.py and the compare-and-swap    *)
(* operations on it.  Every operator is pure: it takes a record and        *)
(* returns the record left on disk.  JobQueue composes them with the       *)
(* processes that call them; each call happens under the state lock, so it *)
(* is one atomic step there.                                               *)
(*                                                                         *)
(* A record keeps the fields the queue's decisions read: status, the       *)
(* worker's process (pid and pid_identity together, see JobQueue), the     *)
(* claim token, the claiming process and the leased GPU.  Timestamps,      *)
(* display fields, progress, results and error texts are left out.         *)
(***************************************************************************)
EXTENDS Naturals

CONSTANT NoGpu                       \* device_uuid = None

\* JobStatus, plus the two ways a record can be absent from the directory:
\* "none" before enqueue and "gone" after clean or delete_job.
Terminal    == {"done", "not_converged", "failed", "cancelled"}
ActiveLease == {"claimed", "running"}
Stored      == {"pending", "paused"} \cup ActiveLease \cup Terminal
Status      == Stored \cup {"none", "gone"}

\* _ALLOWED_TRANSITIONS: the statuses update_status may move a record to.
Allowed(from) ==
    CASE from = "pending" -> {"paused", "claimed", "failed", "cancelled"}
      [] from = "paused"  -> {"pending", "cancelled"}
      [] from = "claimed" -> {"pending", "running", "failed", "cancelled"}
      [] from = "running" -> Terminal
      [] OTHER            -> {}

\* Faulty variant of Unclaimed: the pid is reset to None instead of 0.
UnclaimedNone(status) ==
    [status |-> status, pid |-> NoGpu, token |-> 0, owner |-> 0, gpu |-> NoGpu]

\* pid 0, no token, no owner, no lease: what a record holds until it is
\* claimed, and what every return to the queue resets it to.
Unclaimed(status) ==
    [status |-> status, pid |-> 0, token |-> 0, owner |-> 0, gpu |-> NoGpu]

\* Faulty variant of Accepts: the process and the token are compared, the
\* status is not (no compare-and-swap).
AcceptsAnyStatus(r, to, expected, pid, token) ==
    /\ r.status \in Stored
    /\ pid = 0 \/ r.pid = pid
    /\ token = 0 \/ r.token = token

\* The guards of update_status.  "expected" is expected_statuses; pid and
\* token are 0 where the caller passes None.
Accepts(r, to, expected, pid, token) ==
    /\ r.status \in expected
    /\ r.status \in Stored \ Terminal
    /\ to \in Allowed(r.status)
    /\ pid = 0 \/ r.pid = pid
    /\ token = 0 \/ r.token = token

\* The record update_status leaves: unchanged when a guard refuses.
UpdateStatus(r, to, expected, pid, token) ==
    IF ~Accepts(r, to, expected, pid, token) THEN r
    ELSE IF to \in {"pending", "paused"} THEN Unclaimed(to)
    ELSE [r EXCEPT !.status = to]

\* update_status to RUNNING with the new worker's pid, as mark_running calls
\* it: the only transition that writes the pid.
MarkRunning(r, worker, token) ==
    IF Accepts(r, "running", {"claimed"}, 0, token)
    THEN [r EXCEPT !.status = "running", !.pid = worker]
    ELSE r

\* The record claim_job writes once its guards have passed.
Claimed(token, owner, gpu) ==
    [status |-> "claimed", pid |-> 0, token |-> token, owner |-> owner,
     gpu |-> gpu]

===============================================================================
