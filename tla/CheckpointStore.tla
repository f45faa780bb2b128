---------------------------- MODULE CheckpointStore ----------------------------
(***************************************************************************)
(* The NEB checkpoint store, NEBCheckpointStore of neb/io.py: writers in   *)
(* several processes build a checkpoint in a temporary directory, rename   *)
(* it to step_NNNNNN and move the latest link, under a lock on the store.  *)
(* A writer may raise or be killed between two system calls, and the power *)
(* may fail: then every file and directory entry that was not yet          *)
(* synchronised either survives or does not, independently of the others.  *)
(*                                                                         *)
(* Step number n of the model is directory step_(n-1).  A checkpoint is    *)
(* identified by the write that made it.                                   *)
(***************************************************************************)
EXTENDS Integers, FiniteSetsExt

CONSTANTS
    Writers,    \* processes with a store object on the directory
    MaxWrites,  \* bound on calls of write
    MaxFails,   \* bound on exceptions inside write
    MaxKills,   \* bound on killed writers
    MaxLosses   \* bound on power losses

Steps == 1..MaxWrites

\* What a checkpoint directory needs on the disk: the content of band.traj,
\* and checkpoint.json with the entries of the directory.
Parts == {"band", "entries"}

ASSUME StoreAssumption ==
    /\ Writers \subseteq Nat \ {0}
    /\ MaxWrites \in Nat /\ MaxFails \in Nat
    /\ MaxKills \in Nat /\ MaxLosses \in Nat

VARIABLES
    lock,       \* the writer that holds .checkpoint.lock, 0 for none
    step,       \* the visible step directories: [id, whole, synced \subseteq Parts]
    durable,    \* steps whose directory entry is synchronised
    latestLink,     \* what the latest link names, 0 when it is missing
    latestDur,  \* what it names on the disk
    rootDur,    \* the entry of checkpoints/ in the run directory is synchronised
    announced,  \* the latest checkpoint artifacts.json has ever named
    writer,     \* local state of every writer: [pc, next, seq, id, synced]
    writes, fails, kills, losses

disk   == <<step, durable, latestLink, latestDur, rootDur, announced>>
bounds == <<writes, fails, kills, losses>>
checkpointVars == <<lock, disk, writer, bounds>>

Absent == [id |-> 0, whole |-> FALSE, synced |-> {}]
Closed == [pc |-> "closed", next |-> 1, seq |-> 0, id |-> 0, synced |-> {}]

CheckpointInit ==
    /\ lock = 0
    /\ step = [n \in Steps |-> Absent] /\ durable = {}
    /\ latestLink = 0 /\ latestDur = 0 /\ rootDur = FALSE /\ announced = 0
    /\ writer = [w \in Writers |-> Closed]
    /\ writes = 0 /\ fails = 0 /\ kills = 0 /\ losses = 0

Present  == {n \in Steps : step[n].id # 0}
LastStep == IF Present = {} THEN 0 ELSE Max(Present)

WriterAt(w, pc)   == writer[w].pc = pc
WriterGoto(w, pc) == writer' = [writer EXCEPT ![w].pc = pc]

\* fsync of the checkpoints directory: all its entries reach the disk.
SyncRoot == durable' = Present /\ latestDur' = latestLink

-------------------------------------------------------------------------------

\* NEBCheckpointStore(run_dir): the next number after what is there.
Open(w) ==
    /\ WriterAt(w, "closed")
    /\ writer' = [writer EXCEPT ![w] = [Closed EXCEPT !.pc = "open",
                                                      !.next = LastStep + 1]]
    /\ UNCHANGED <<lock, disk, bounds>>

\* write: the lock on the store is taken first.
Acquire(w) ==
    /\ WriterAt(w, "open") /\ lock = 0
    /\ writes < MaxWrites /\ writes' = writes + 1
    /\ lock' = w
    /\ WriterGoto(w, "choose")
    /\ UNCHANGED <<disk, fails, kills, losses>>

\* destination.exists() raises, which also gives the lock back.
Take(w, n) ==
    /\ writer' = [writer EXCEPT ![w] =
          [pc |-> IF n \in Present THEN "refused" ELSE "band",
           next |-> n + 1, seq |-> n, id |-> writes, synced |-> {}]]
    /\ lock' = IF n \in Present THEN 0 ELSE lock

\* The sequence number, past everything this writer and the directory know.
Choose(w) ==
    /\ WriterAt(w, "choose")
    /\ LET n == Max({writer[w].next, LastStep + 1}) IN Take(w, n)
    /\ UNCHANGED <<disk, bounds>>

\* band.traj is written and synchronised in the temporary directory.
WriteBand(w) ==
    /\ WriterAt(w, "band")
    /\ writer' = [writer EXCEPT ![w].pc = "metadata",
                              ![w].synced = @ \cup {"band"}]
    /\ UNCHANGED <<lock, disk, bounds>>

\* checkpoint.json is replaced durably, which synchronises the temporary
\* directory, and the whole checkpoint is read back.
WriteMetadata(w) ==
    /\ WriterAt(w, "metadata")
    /\ writer' = [writer EXCEPT ![w].pc = "rename",
                              ![w].synced = @ \cup {"entries"}]
    /\ UNCHANGED <<lock, disk, bounds>>

\* temporary.replace(destination) raises when the destination is not empty.
Rename(w) ==
    /\ WriterAt(w, "rename")
    /\ LET n == writer[w].seq IN
       IF n \in Present
       THEN WriterGoto(w, "refused") /\ lock' = 0 /\ UNCHANGED step
       ELSE /\ step' = [step EXCEPT ![n] =
                    [id |-> writer[w].id, whole |-> TRUE,
                     synced |-> writer[w].synced]]
            /\ WriterGoto(w, "syncStep") /\ UNCHANGED lock
    /\ UNCHANGED <<durable, latestLink, latestDur, rootDur, announced, bounds>>

SyncStep(w) ==
    /\ WriterAt(w, "syncStep")
    /\ SyncRoot
    /\ WriterGoto(w, "link")
    /\ UNCHANGED <<lock, step, latestLink, rootDur, announced, bounds>>

\* The new link replaces latest.
Link(w) ==
    /\ WriterAt(w, "link")
    /\ latestLink' = writer[w].seq
    /\ WriterGoto(w, "syncLatest")
    /\ UNCHANGED <<lock, step, durable, latestDur, rootDur, announced, bounds>>

\* Faulty variant of SyncLatest: the move of the link is not synchronised.
LatestUnsynced(w) ==
    /\ WriterAt(w, "syncLatest")
    /\ lock' = 0
    /\ WriterGoto(w, "written")
    /\ UNCHANGED <<disk, bounds>>

SyncLatest(w) ==
    /\ WriterAt(w, "syncLatest")
    /\ SyncRoot
    /\ lock' = 0
    /\ WriterGoto(w, "written")
    /\ UNCHANGED <<step, latestLink, rootDur, announced, bounds>>

\* The workflow's artifacts.json names the checkpoint write returned; the
\* fsync of the run directory that goes with it covers checkpoints/ too.
AnnounceStep(w) ==
    /\ WriterAt(w, "written")
    /\ announced' = Max({announced, writer[w].seq}) /\ rootDur' = TRUE
    /\ WriterGoto(w, "open")
    /\ UNCHANGED <<lock, step, durable, latestLink, latestDur, bounds>>

-------------------------------------------------------------------------------

InWrite == {"choose", "band", "metadata", "rename", "syncStep", "link",
            "syncLatest"}

\* write raises: the temporaries are removed, what was renamed stays.
Fail(w) ==
    /\ fails < MaxFails /\ fails' = fails + 1
    /\ writer[w].pc \in InWrite
    /\ lock' = 0
    /\ WriterGoto(w, "open")
    /\ UNCHANGED <<disk, writes, kills, losses>>

Kill(w) ==
    /\ kills < MaxKills /\ kills' = kills + 1
    /\ ~WriterAt(w, "closed")
    /\ lock' = IF lock = w THEN 0 ELSE lock
    /\ writer' = [writer EXCEPT ![w] = Closed]
    /\ UNCHANGED <<disk, writes, fails, losses>>

\* A directory that survives by name may have lost what was not synchronised.
Survives(n) == [step[n] EXCEPT !.whole = @ /\ step[n].synced = Parts]

PowerLoss ==
    /\ losses < MaxLosses /\ losses' = losses + 1
    /\ lock' = 0 /\ writer' = [w \in Writers |-> Closed]
    /\ \/ \E S \in SUBSET (Present \ durable), l \in {latestLink, latestDur} :
             /\ step' = [n \in Steps |->
                           IF n \in S \cup durable THEN Survives(n) ELSE Absent]
             /\ durable' = S \cup durable
             /\ latestLink' = l /\ latestDur' = l
             /\ rootDur' \in {rootDur, TRUE}
       \/ /\ ~rootDur
          /\ step' = [n \in Steps |-> Absent] /\ durable' = {}
          /\ latestLink' = 0 /\ latestDur' = 0
          /\ UNCHANGED rootDur
    /\ UNCHANGED <<announced, writes, fails, kills>>

WriteStep(w) ==
    \/ Acquire(w) \/ Choose(w) \/ WriteBand(w) \/ WriteMetadata(w) \/ Rename(w)
    \/ SyncStep(w) \/ Link(w) \/ SyncLatest(w) \/ AnnounceStep(w)

CheckpointNext ==
    \/ \E w \in Writers : Open(w) \/ WriteStep(w) \/ Fail(w) \/ Kill(w)
    \/ PowerLoss

CheckpointSpec == CheckpointInit /\ [][CheckpointNext]_checkpointVars

-------------------------------------------------------------------------------
(* Properties *)

Pcs == InWrite \cup {"closed", "open", "written", "refused"}

\* Type invariant; the lock is held exactly while a writer is inside write.
CheckpointTypeOK ==
    /\ lock \in {0} \cup Writers
    /\ \A w \in Writers :
          /\ writer[w].pc \in Pcs
          /\ writer[w].next \in Nat \ {0}
          /\ writer[w].seq \in 0..MaxWrites
          /\ writer[w].pc \in InWrite <=> lock = w
    /\ step \in [Steps -> [id : 0..MaxWrites, whole : BOOLEAN,
                       synced : SUBSET Parts]]
    /\ durable \subseteq Steps /\ rootDur \in BOOLEAN
    /\ latestLink \in 0..MaxWrites /\ latestDur \in 0..MaxWrites
    /\ announced \in 0..MaxWrites
    /\ writes \in 0..MaxWrites /\ fails \in 0..MaxFails
    /\ kills \in 0..MaxKills /\ losses \in 0..MaxLosses

\* The refinement mapping to DurableLatest: what a resume finds behind the
\* latest link, and no number at all for a dangling link or a torn band.
Resumable == IF latestLink # 0 => step[latestLink].id # 0 /\ step[latestLink].whole
             THEN latestLink ELSE -1

Promise == INSTANCE DurableLatest WITH
    current <- Resumable,
    kept    <- announced

\* Whatever was killed, raised or lost: the checkpoint behind latest is there
\* and whole, latest only moves forward, and no power loss takes back a
\* checkpoint that artifacts.json has named.
KeepsPromise == Promise!Spec
===============================================================================
