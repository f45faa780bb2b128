---------------------------- MODULE IdentityProofs ----------------------------
(***************************************************************************)
(* Nobody and nothing is mistaken for another: no process for the worker   *)
(* whose number it got (WorkerIdentity), and no GPU for the one that was   *)
(* leased, asked for or reported (DeviceIdentity, Doctor).                 *)
(*                                                                         *)
(* Workers: ticks are given once, so a tick names one process.  A record   *)
(* takes its tick from a child that nobody has waited for, which therefore *)
(* still has its number; whatever has that tick later is that child.  What *)
(* a step has in hand between its check and its act cannot have become     *)
(* another process, because its number is not given out.                   *)
(*                                                                         *)
(* Devices: a queued job is confined to the UUID of its lease from its     *)
(* start, and a process that is confined to one UUID sees that GPU or      *)
(* none: for any number of GPUs, in any two orders, under any visibility   *)
(* of the scheduler, and whichever GPUs fail on the way.  The number that  *)
(* a process has means, while all GPUs work, the one that was meant where  *)
(* it was asked for, through the lease and through a restart: so what is   *)
(* reported is that GPU.  The probes of doctor are confined in the same    *)
(* way, and what it could not try is a row that fails.                     *)
(***************************************************************************)
EXTENDS WorkerIdentity, Doctor, FiniteSetTheorems, SequenceTheorems, WellFoundedInduction, TLAPS

States == {"none", "alive", "zombie"}
LedgerStatuses == {"pending", "claimed", "running", "done", "failed", "cancelled"}

Types ==
    /\ process \in [Number -> [state : States, job : Work \cup {Stranger}, tick : Nat, ours : BOOLEAN]]
    /\ ticks \in Nat
    /\ ledger \in [Work -> [status : LedgerStatuses, worker : [number : Number \cup {0}, tick : Nat]]]
    /\ gaps \subseteq [for : {"promotion", "failure", "signal"}, job : Work \cup {Stranger},
                       number : Number]

\* A tick names one process.
TicksUnique ==
    /\ \A n \in Number : InUse(n) => process[n].tick > 0 /\ process[n].tick <= ticks
    /\ \A n, m \in Number : InUse(n) /\ InUse(m) /\ process[n].tick = process[m].tick => n = m

\* A record's tick is its worker's.
RecordsTrue ==
    \A j \in Work :
        /\ ledger[j].worker.tick <= ticks
        /\ \A n \in Number : InUse(n) /\ process[n].tick = ledger[j].worker.tick =>
              process[n].job = j /\ ledger[j].worker.number = n

\* What is in hand is still what it was, or nothing.
GapsTrue ==
    \A g \in gaps :
        /\ g.for = "promotion" => /\ g.job \in Work /\ InUse(g.number) /\ process[g.number].ours
                                  /\ process[g.number].job = g.job
        /\ g.for = "signal" => (InUse(g.number) => process[g.number].job = g.job)
        /\ g.for = "failure" => ~InUse(g.number)

SignalsTrue == \A s \in struck : s.hit = s.meant

FailedAreOver ==
    \A j \in Work, n \in Number :
        ledger[j].status = "failed" /\ process[n].state = "alive" /\ process[n].job = j =>
            process[n].tick # ledger[j].worker.tick

WorkerInv == Types /\ TicksUnique /\ RecordsTrue /\ GapsTrue /\ SignalsTrue /\ FailedAreOver

-------------------------------------------------------------------------------

\* A process that ends leaves the invariant true: nothing gets its number, and a
\* child that is still to be promoted keeps it as a zombie.
LEMMA EndingParts ==
    ASSUME WorkerInv, NEW n \in Number, process' = Ending(n), process[n].state = "alive",
           UNCHANGED <<ticks, ledger>>, gaps' \subseteq gaps
    PROVE  Types' /\ TicksUnique' /\ RecordsTrue' /\ GapsTrue' /\ FailedAreOver'
<1> USE DEF WorkerInv, InUse
<1>1. Types'
  BY DEF Types, Ending, Free, States
<1>2. \A m \in Number : m # n => process'[m] = process[m]
  BY DEF Types, Ending
<1>3. \/ process'[n] = [process[n] EXCEPT !.state = "zombie"] /\ process[n].ours
      \/ process'[n] = Free /\ ~process[n].ours
  BY DEF Types, Ending
<1>4. \A m \in Number : InUse(m)' => /\ InUse(m) /\ process'[m].tick = process[m].tick
                                     /\ process'[m].job = process[m].job
  BY <1>2, <1>3 DEF Types, Free
<1>5. \A m \in Number : process[m].ours /\ InUse(m) => InUse(m)' /\ process'[m].ours
  BY <1>2, <1>3 DEF Types, Free
<1>6. \A m \in Number : process'[m].state = "alive" => process[m].state = "alive"
  BY <1>2, <1>3 DEF Types, Free
<1>7. TicksUnique'
  BY <1>4 DEF TicksUnique, Types
<1>8. RecordsTrue'
  BY <1>4 DEF RecordsTrue, Types
<1>9. GapsTrue'
  BY <1>4, <1>5 DEF GapsTrue, Types
<1>10. FailedAreOver'
  BY <1>4, <1>6 DEF FailedAreOver, Types, States
<1> QED
  BY <1>1, <1>7, <1>8, <1>9, <1>10

LEMMA EndingKeeps ==
    ASSUME WorkerInv, NEW n \in Number, process' = Ending(n), process[n].state = "alive",
           UNCHANGED <<ticks, ledger, gaps, struck>>
    PROVE  WorkerInv'
<1>1. Types' /\ TicksUnique' /\ RecordsTrue' /\ GapsTrue' /\ FailedAreOver'
  BY EndingParts
<1> QED
  BY <1>1 DEF WorkerInv, SignalsTrue

\* A process that starts leaves it true: its tick is new and its number free.
LEMMA ForkKeeps ==
    ASSUME WorkerInv, NEW n \in Number, NEW job \in Work \cup {Stranger}, NEW ours \in BOOLEAN,
           Fork(n, job, ours), UNCHANGED <<ledger, gaps, struck>>
    PROVE  WorkerInv'
<1> USE DEF WorkerInv, InUse, Fork
<1>1. Types'
  BY DEF Types, States
<1>2. \A m \in Number : m # n => process'[m] = process[m]
  BY DEF Types
<1>3. /\ process'[n] = [state |-> "alive", job |-> job, tick |-> ticks + 1, ours |-> ours]
      /\ process[n].state = "none" /\ ticks' = ticks + 1
  BY DEF Types
<1>4. TicksUnique'
  <2>1. \A m \in Number : InUse(m)' => process'[m].tick > 0 /\ process'[m].tick <= ticks'
    BY <1>2, <1>3 DEF TicksUnique, Types
  <2>2. \A m, k \in Number : InUse(m)' /\ InUse(k)' /\ process'[m].tick = process'[k].tick => m = k
    BY <1>2, <1>3 DEF TicksUnique, Types
  <2> QED
    BY <2>1, <2>2 DEF TicksUnique
<1>5. RecordsTrue'
  BY <1>2, <1>3 DEF RecordsTrue, Types
<1>6. GapsTrue'
  <2>1. \A g \in gaps : g.number # n
    BY DEF InHand
  <2> QED
    BY <1>2, <2>1 DEF GapsTrue, Types
<1>7. SignalsTrue'
  BY DEF SignalsTrue
<1>8. FailedAreOver'
  BY <1>2, <1>3 DEF FailedAreOver, RecordsTrue, Types
<1> QED
  BY <1>1, <1>4, <1>5, <1>6, <1>7, <1>8

\* A verdict on a job that runs no more, or that is not a failure, leaves it true.
LEMMA SettleKeeps ==
    ASSUME WorkerInv, NEW j \in Work, NEW status \in LedgerStatuses, Settle(j, status),
           status = "failed" => \A n \in Number :
              process[n].state = "alive" /\ process[n].job = j => process[n].tick # ledger[j].worker.tick,
           UNCHANGED <<process, ticks>>
    PROVE  /\ ledger' \in [Work -> [status : LedgerStatuses, worker : [number : Number \cup {0}, tick : Nat]]]
           /\ RecordsTrue' /\ FailedAreOver' /\ TicksUnique'
<1> USE DEF WorkerInv
<1>1. /\ \A k \in Work : ledger'[k].worker = ledger[k].worker
      /\ \A k \in Work : k # j => ledger'[k] = ledger[k]
      /\ ledger'[j].status = status
  BY DEF Settle, Types
<1>2. ledger' \in [Work -> [status : LedgerStatuses, worker : [number : Number \cup {0}, tick : Nat]]]
  BY DEF Settle, Types
<1>3. RecordsTrue'
  BY <1>1 DEF RecordsTrue, InUse
<1>4. FailedAreOver'
  BY <1>1 DEF FailedAreOver
<1>5. TicksUnique'
  BY DEF TicksUnique, InUse
<1> QED
  BY <1>2, <1>3, <1>4, <1>5

-------------------------------------------------------------------------------

LEMMA InitHolds == IdentityInit => WorkerInv
BY DEF IdentityInit, WorkerInv, Types, TicksUnique, RecordsTrue, GapsTrue, SignalsTrue, FailedAreOver,
       Free, NoWorker, InUse, States, LedgerStatuses

LEMMA StepHolds == WorkerInv /\ [IdentityNext]_identityVars => WorkerInv'
<1> SUFFICES ASSUME WorkerInv, [IdentityNext]_identityVars PROVE WorkerInv'
  OBVIOUS
<1> Types /\ TicksUnique /\ RecordsTrue /\ GapsTrue /\ SignalsTrue /\ FailedAreOver
  BY DEF WorkerInv
<1>1. ASSUME NEW j \in Work, SpawnFor(j) PROVE WorkerInv'
  <2>1. PICK n \in Number : /\ Fork(n, j, TRUE)
                            /\ gaps' = gaps \cup {[for |-> "promotion", job |-> j, number |-> n]}
    BY <1>1 DEF SpawnFor
  <2>2. /\ process' = [process EXCEPT ![n] = [state |-> "alive", job |-> j, tick |-> ticks + 1, ours |-> TRUE]]
        /\ ticks' = ticks + 1 /\ process[n].state = "none" /\ \A g \in gaps : g.number # n
    BY <2>1 DEF Fork, InUse, InHand
  <2>3. /\ ledger' = [ledger EXCEPT ![j].status = "claimed"] /\ ledger[j].status = "pending"
        /\ UNCHANGED struck
    BY <1>1 DEF SpawnFor, Settle
  <2>4. Types'
    BY <2>1, <2>2, <2>3 DEF Types, States, LedgerStatuses
  <2>5. /\ \A m \in Number : m # n => process'[m] = process[m]
        /\ process'[n] = [state |-> "alive", job |-> j, tick |-> ticks + 1, ours |-> TRUE]
    BY <2>2 DEF Types
  <2>6. /\ \A k \in Work : ledger'[k].worker = ledger[k].worker
        /\ \A k \in Work : ledger'[k].status = "failed" => ledger[k].status = "failed"
    BY <2>3 DEF Types
  <2>7. TicksUnique'
    BY <2>2, <2>5 DEF TicksUnique, Types, InUse
  <2>8. RecordsTrue'
    BY <2>2, <2>5, <2>6 DEF RecordsTrue, Types, InUse
  <2>9. GapsTrue'
    BY <2>1, <2>2, <2>5 DEF GapsTrue, Types, InUse
  <2>10. SignalsTrue'
    BY <2>3 DEF SignalsTrue
  <2>11. FailedAreOver'
    BY <2>2, <2>5, <2>6 DEF FailedAreOver, RecordsTrue, Types
  <2> QED
    BY <2>4, <2>7, <2>8, <2>9, <2>10, <2>11 DEF WorkerInv
<1>2. ASSUME NEW j \in Work, FailUnmatched(j) PROVE WorkerInv'
  <2>1. /\ Settle(j, "failed") /\ ~PidMatches(ledger[j].worker.number, ledger[j].worker.tick)
        /\ UNCHANGED <<process, ticks, gaps, struck>>
    BY <1>2 DEF FailUnmatched
  <2>2. \A n \in Number : process[n].state = "alive" /\ process[n].job = j =>
            process[n].tick # ledger[j].worker.tick
    BY <2>1 DEF PidMatches, RecordsTrue, InUse
  <2>3. /\ ledger' \in [Work -> [status : LedgerStatuses, worker : [number : Number \cup {0}, tick : Nat]]]
        /\ RecordsTrue' /\ FailedAreOver' /\ TicksUnique'
    BY <2>1, <2>2, SettleKeeps DEF LedgerStatuses
  <2> QED
    BY <2>1, <2>3 DEF WorkerInv, Types, GapsTrue, SignalsTrue, InUse
<1>3. ASSUME NEW j \in Work, CancelWork(j) PROVE WorkerInv'
  <2>1. /\ ledger' \in [Work -> [status : LedgerStatuses, worker : [number : Number \cup {0}, tick : Nat]]]
        /\ RecordsTrue' /\ FailedAreOver' /\ TicksUnique'
    BY <1>3, SettleKeeps DEF CancelWork, LedgerStatuses
  <2>2. CASE UNCHANGED gaps
    BY <1>3, <2>1, <2>2 DEF CancelWork, WorkerInv, Types, GapsTrue, SignalsTrue, InUse
  <2>3. CASE /\ PidMatches(ledger[j].worker.number, ledger[j].worker.tick)
             /\ gaps' = gaps \cup {[for |-> "signal", job |-> j, number |-> ledger[j].worker.number]}
    <3>1. ledger[j].worker.number \in Number /\ process[ledger[j].worker.number].job = j
      BY <2>3 DEF PidMatches, RecordsTrue
    <3>2. UNCHANGED <<process, ticks, struck>>
      BY <1>3 DEF CancelWork
    <3>3. GapsTrue' /\ gaps' \subseteq
            [for : {"promotion", "failure", "signal"}, job : Work \cup {Stranger}, number : Number]
      BY <2>3, <3>1, <3>2 DEF GapsTrue, Types, InUse
    <3> QED
      BY <2>1, <3>2, <3>3 DEF WorkerInv, Types, SignalsTrue
  <2> QED
    BY <1>3, <2>2, <2>3 DEF CancelWork
<1>4. ASSUME NEW g \in gaps, Promote(g) PROVE WorkerInv'
  <2> DEFINE n == g.number
             j == g.job
  <2>1. /\ j \in Work /\ n \in Number /\ InUse(n) /\ process[n].ours /\ process[n].job = j
        /\ gaps' \subseteq gaps /\ UNCHANGED ticks
    BY <1>4 DEF Promote, GapsTrue, Types
  <2>2. CASE ledger[j].status = "claimed"
    <3>1. /\ ledger' = [ledger EXCEPT ![j] =
                          [status |-> "running", worker |-> [number |-> n, tick |-> process[n].tick]]]
          /\ UNCHANGED <<process, struck>>
      BY <1>4, <2>2 DEF Promote
    <3>2. /\ \A k \in Work : k # j => ledger'[k] = ledger[k]
          /\ ledger'[j] = [status |-> "running", worker |-> [number |-> n, tick |-> process[n].tick]]
      BY <2>1, <3>1 DEF Types
    <3>3. Types'
      BY <2>1, <3>1 DEF Types, LedgerStatuses
    <3>4. TicksUnique' /\ GapsTrue' /\ SignalsTrue'
      BY <2>1, <3>1 DEF TicksUnique, GapsTrue, SignalsTrue, InUse
    <3>5. RecordsTrue'
      BY <2>1, <3>1, <3>2 DEF RecordsTrue, TicksUnique, InUse, Types
    <3>6. FailedAreOver'
      BY <3>1, <3>2 DEF FailedAreOver
    <3> QED
      BY <3>3, <3>4, <3>5, <3>6 DEF WorkerInv
  <2>3. CASE ledger[j].status # "claimed"
    <3>1. /\ struck' = struck \cup {[meant |-> j, hit |-> process[n].job]}
          /\ process' = IF process[n].state = "alive" THEN Ending(n) ELSE process
          /\ UNCHANGED ledger
      BY <1>4, <2>3 DEF Promote
    <3>2. /\ Types' /\ TicksUnique' /\ RecordsTrue' /\ FailedAreOver' /\ GapsTrue'
      <4>1. CASE process[n].state = "alive"
        <5>1. process' = Ending(n)
          BY <3>1, <4>1
        <5> QED
          BY <2>1, <3>1, <4>1, <5>1, EndingParts
      <4>2. CASE process[n].state # "alive"
        BY <2>1, <3>1, <4>2 DEF Types, TicksUnique, RecordsTrue, GapsTrue, FailedAreOver, InUse
      <4> QED
        BY <4>1, <4>2
    <3>3. SignalsTrue'
      BY <2>1, <3>1 DEF SignalsTrue
    <3> QED
      BY <3>2, <3>3 DEF WorkerInv
  <2> QED
    BY <2>2, <2>3
<1>5. ASSUME NEW g \in gaps, FailReaped(g) PROVE WorkerInv'
  <2> DEFINE named == {j \in Work : ledger[j].status = "running" /\ ledger[j].worker.number = g.number}
  <2>1. /\ ~InUse(g.number) /\ gaps' \subseteq gaps /\ UNCHANGED <<process, ticks, struck>>
        /\ \/ UNCHANGED ledger
           \/ \E j \in named : Settle(j, "failed")
    BY <1>5 DEF FailReaped, GapsTrue
  <2>2. CASE UNCHANGED ledger
    BY <2>1, <2>2 DEF WorkerInv, Types, TicksUnique, RecordsTrue, GapsTrue, SignalsTrue, FailedAreOver, InUse
  <2>3. CASE \E j \in named : Settle(j, "failed")
    <3>1. PICK j \in Work : ledger[j].worker.number = g.number /\ Settle(j, "failed")
      BY <2>3
    <3>2. \A n \in Number : process[n].state = "alive" /\ process[n].job = j =>
              process[n].tick # ledger[j].worker.tick
      BY <2>1, <3>1 DEF RecordsTrue, InUse
    <3>3. /\ ledger' \in [Work -> [status : LedgerStatuses, worker : [number : Number \cup {0}, tick : Nat]]]
          /\ RecordsTrue' /\ FailedAreOver' /\ TicksUnique'
      BY <2>1, <3>1, <3>2, SettleKeeps DEF LedgerStatuses
    <3> QED
      BY <2>1, <3>3 DEF WorkerInv, Types, GapsTrue, SignalsTrue, InUse
  <2> QED
    BY <2>1, <2>2, <2>3
<1>6. ASSUME NEW g \in gaps, SignalGroup(g) PROVE WorkerInv'
  <2>1. /\ g.number \in Number /\ gaps' \subseteq gaps /\ UNCHANGED <<ticks, ledger>>
        /\ InUse(g.number) => process[g.number].job = g.job
    BY <1>6 DEF SignalGroup, GapsTrue, Types
  <2>2. CASE /\ InUse(g.number)
             /\ struck' = struck \cup {[meant |-> g.job, hit |-> process[g.number].job]}
             /\ process[g.number].state = "alive" /\ process' = Ending(g.number)
    BY <2>1, <2>2, EndingParts DEF WorkerInv, SignalsTrue
  <2>3. CASE /\ InUse(g.number) /\ UNCHANGED process
             /\ struck' = struck \cup {[meant |-> g.job, hit |-> process[g.number].job]}
    BY <2>1, <2>3 DEF WorkerInv, Types, TicksUnique, RecordsTrue, GapsTrue, SignalsTrue, FailedAreOver, InUse
  <2>4. CASE UNCHANGED <<process, struck>>
    BY <2>1, <2>4 DEF WorkerInv, Types, TicksUnique, RecordsTrue, GapsTrue, SignalsTrue, FailedAreOver, InUse
  <2> QED
    BY <1>6, <2>2, <2>3, <2>4 DEF SignalGroup
<1>7. ASSUME NEW n \in Number, WorkerFinishes(n) PROVE WorkerInv'
  <2>1. /\ process[n].job \in Work /\ process[n].state = "alive" /\ process' = Ending(n)
        /\ UNCHANGED <<ticks, gaps, struck>>
        /\ UNCHANGED ledger \/ Settle(process[n].job, "done")
    BY <1>7 DEF WorkerFinishes
  <2>2. CASE UNCHANGED ledger
    BY <2>1, <2>2, EndingKeeps
  <2>3. CASE Settle(process[n].job, "done")
    <3>1. /\ \A m \in Number : InUse(m)' => InUse(m) /\ process'[m].tick = process[m].tick
                                             /\ process'[m].job = process[m].job
          /\ \A m \in Number : process'[m].state = "alive" => process[m].state = "alive"
      BY <2>1 DEF Ending, Free, InUse, Types
    <3>2. /\ \A k \in Work : ledger'[k].worker = ledger[k].worker
          /\ \A k \in Work : ledger'[k].status = "failed" => ledger[k].status = "failed"
      BY <2>1, <2>3 DEF Settle, Types
    <3>3. Types'
      BY <2>1, <2>3 DEF Types, Settle, Ending, Free, States, LedgerStatuses
    <3>4. GapsTrue'
      BY <2>1, <3>1 DEF GapsTrue, Types, Ending, Free, InUse
    <3>5. TicksUnique' /\ RecordsTrue' /\ SignalsTrue'
      BY <2>1, <3>1, <3>2 DEF TicksUnique, RecordsTrue, SignalsTrue
    <3>6. FailedAreOver'
      BY <3>1, <3>2 DEF FailedAreOver, InUse
    <3> QED
      BY <3>3, <3>4, <3>5, <3>6 DEF WorkerInv
  <2> QED
    BY <2>1, <2>2, <2>3
<1>8. ASSUME NEW n \in Number, ProcessDies(n) PROVE WorkerInv'
  BY <1>8, EndingKeeps DEF ProcessDies
<1>9. ASSUME NEW n \in Number, OtherStarts(n) PROVE WorkerInv'
  BY <1>9, ForkKeeps DEF OtherStarts
<1>10. ASSUME NEW n \in Number, ReapChild(n) PROVE WorkerInv'
  <2>1. /\ process' = [process EXCEPT ![n] = Free]
        /\ gaps' = gaps \cup {[for |-> "failure", job |-> Stranger, number |-> n]}
        /\ \A g \in gaps : g.for = "signal"
        /\ UNCHANGED <<ticks, ledger, struck>>
    BY <1>10 DEF ReapChild, BetweenSteps
  <2>2. \A m \in Number : m # n => process'[m] = process[m]
    BY <2>1 DEF Types
  <2>3. process'[n] = Free /\ ~InUse(n)'
    BY <2>1 DEF Types, Free, InUse
  <2>4. Types'
    BY <2>1 DEF Types, Free, States
  <2>5. TicksUnique' /\ RecordsTrue' /\ SignalsTrue'
    BY <2>1, <2>2, <2>3 DEF TicksUnique, RecordsTrue, SignalsTrue, InUse
  <2>6. GapsTrue'
    BY <2>1, <2>2, <2>3 DEF GapsTrue, InUse, Types
  <2>7. FailedAreOver'
    BY <2>1, <2>2, <2>3 DEF FailedAreOver, Free
  <2> QED
    BY <2>4, <2>5, <2>6, <2>7 DEF WorkerInv
<1>11. CASE SchedulerDies
  <2>1. /\ process' = [n \in Number |->
                         IF process[n].state = "zombie" THEN Free ELSE [process[n] EXCEPT !.ours = FALSE]]
        /\ gaps' = {g \in gaps : g.for = "signal"}
        /\ UNCHANGED <<ticks, ledger, struck>>
    BY <1>11 DEF SchedulerDies
  <2>2. \A m \in Number : InUse(m)' => /\ InUse(m) /\ process'[m].tick = process[m].tick
                                        /\ process'[m].job = process[m].job
                                        /\ process'[m].state = process[m].state
    BY <2>1 DEF InUse, Free, Types
  <2>3. Types'
    BY <2>1 DEF Types, Free, States
  <2>4. TicksUnique' /\ RecordsTrue' /\ SignalsTrue'
    BY <2>1, <2>2 DEF TicksUnique, RecordsTrue, SignalsTrue
  <2>5. GapsTrue'
    BY <2>1, <2>2 DEF GapsTrue, Types
  <2>6. FailedAreOver'
    BY <2>1, <2>2 DEF FailedAreOver, InUse
  <2> QED
    BY <2>3, <2>4, <2>5, <2>6 DEF WorkerInv
<1>12. CASE SchedulerReturns
  <2>1. /\ ledger' = [j \in Work |-> IF ledger[j].status = "claimed"
                                       THEN [ledger[j] EXCEPT !.status = "pending"] ELSE ledger[j]]
        /\ UNCHANGED <<process, ticks, gaps, struck>>
    BY <1>12 DEF SchedulerReturns
  <2>2. /\ \A k \in Work : ledger'[k].worker = ledger[k].worker
        /\ \A k \in Work : ledger'[k].status = "failed" => ledger[k].status = "failed"
    BY <2>1 DEF Types
  <2>3. Types'
    BY <2>1 DEF Types, LedgerStatuses
  <2> QED
    BY <2>1, <2>2, <2>3 DEF WorkerInv, TicksUnique, RecordsTrue, GapsTrue, SignalsTrue, FailedAreOver, InUse
<1>13. CASE UNCHANGED identityVars
  BY <1>13 DEF identityVars, WorkerInv, Types, TicksUnique, RecordsTrue, GapsTrue, SignalsTrue, FailedAreOver, InUse
<1> QED
  BY <1>1, <1>2, <1>3, <1>4, <1>5, <1>6, <1>7, <1>8, <1>9, <1>10, <1>11, <1>12, <1>13 DEF IdentityNext

\* The strengthening holds in every reachable state.
THEOREM IdentityInvariant == IdentitySpec => []WorkerInv
<1>1. IdentityInit => WorkerInv
  BY InitHolds
<1>2. WorkerInv /\ [IdentityNext]_identityVars => WorkerInv'
  BY StepHolds
<1> QED
  BY <1>1, <1>2, PTL DEF IdentitySpec

\* No stranger is signalled, and no job failed whose worker lives, however the
\* kernel hands out its numbers (kill_job, _reap_stale_running).
THEOREM IdentitySafety == IdentitySpec => []WorkersAreNotMistaken
<1>1. WorkerInv => WorkersAreNotMistaken
  BY DEF WorkerInv, SignalsTrue, FailedAreOver, WorkersAreNotMistaken
<1> QED
  BY <1>1, IdentityInvariant, PTL

\* As many ticks are given as processes were started, and no process has another.
TicksBounded == ticks <= MaxForks /\ \A n \in Number : process[n].tick <= MaxForks

LEMMA BoundedStep ==
    ASSUME WorkerInv, TicksBounded, [IdentityNext]_identityVars
    PROVE  TicksBounded'
<1> DEFINE Entry == [state : States, job : Work \cup {Stranger}, tick : Nat, ours : BOOLEAN]
           Kept == ticks' = ticks /\ \A n \in Number : process'[n].tick \in {0, process[n].tick}
<1>1. process \in [Number -> Entry] /\ ticks \in Nat /\ MaxForks \in Nat
  BY IdentityAssumption DEF IdentityAssumption, WorkerInv, Types
<1>2. Free.tick = 0
  BY DEF Free
<1>3. ASSUME Kept PROVE TicksBounded'
  <2>1. ASSUME NEW n \in Number PROVE process'[n].tick <= MaxForks
    BY <1>1, <1>3 DEF TicksBounded
  <2> QED BY <1>3, <2>1 DEF TicksBounded
<1>4. ASSUME NEW n \in Number, NEW job, NEW ours, Fork(n, job, ours) PROVE TicksBounded'
  <2>1. ticks' \in Nat /\ ticks' <= MaxForks
    BY <1>1, <1>4 DEF Fork
  <2>2. ASSUME NEW m \in Number PROVE process'[m].tick \in {ticks', process[m].tick}
    BY <1>1, <1>4 DEF Fork
  <2> QED BY <2>1, <2>2 DEF TicksBounded
<1>5. ASSUME NEW n \in Number, ticks' = ticks, process' = Ending(n) PROVE Kept
  BY <1>1, <1>2, <1>5 DEF Ending
<1>6. ASSUME UNCHANGED <<process, ticks>> PROVE Kept
  BY <1>6
<1> HIDE DEF Kept, Entry
<1>7. ASSUME NEW j \in Work, SpawnFor(j) PROVE TicksBounded'
  BY <1>4, <1>7 DEF SpawnFor
<1>8. ASSUME NEW j \in Work, FailUnmatched(j) \/ CancelWork(j) PROVE TicksBounded'
  BY <1>3, <1>6, <1>8 DEF FailUnmatched, CancelWork
<1>9. ASSUME NEW g \in gaps, Promote(g) \/ FailReaped(g) \/ SignalGroup(g) PROVE TicksBounded'
  <2>1. g.number \in Number
    BY DEF WorkerInv, Types
  <2> QED BY <1>3, <1>5, <1>6, <1>9, <2>1 DEF Promote, FailReaped, SignalGroup
<1>10. ASSUME NEW n \in Number, WorkerFinishes(n) \/ ProcessDies(n) PROVE TicksBounded'
  BY <1>3, <1>5, <1>10 DEF WorkerFinishes, ProcessDies
<1>11. ASSUME NEW n \in Number, OtherStarts(n) PROVE TicksBounded'
  BY <1>4, <1>11 DEF OtherStarts
<1>12. ASSUME NEW n \in Number, ReapChild(n) PROVE TicksBounded'
  <2>1. Kept
    BY <1>1, <1>2, <1>12 DEF ReapChild, Kept
  <2> QED BY <1>3, <2>1
<1>13. CASE SchedulerDies
  <2>1. Kept
    BY <1>1, <1>2, <1>13 DEF SchedulerDies, Kept, Entry
  <2> QED BY <1>3, <2>1
<1>14. CASE SchedulerReturns \/ UNCHANGED identityVars
  BY <1>3, <1>6, <1>14 DEF SchedulerReturns, identityVars
<1> QED BY <1>7, <1>8, <1>9, <1>10, <1>11, <1>12, <1>13, <1>14 DEF IdentityNext

\* Processes, records and numbers in hand have their types, and no process was
\* started at a tick that was not given.
THEOREM IdentityTypesCorrect == IdentitySpec => []IdentityTypeOK
<1>1. IdentityInit => TicksBounded
  BY IdentityAssumption DEF IdentityAssumption, IdentityInit, TicksBounded, Free
<1>2. WorkerInv /\ TicksBounded => IdentityTypeOK
  <2> SUFFICES ASSUME WorkerInv, TicksBounded PROVE IdentityTypeOK
    OBVIOUS
  <2>1. MaxForks \in Nat /\ \A n \in Number : process[n].tick \in Nat /\ process[n].tick <= MaxForks
    BY IdentityAssumption DEF IdentityAssumption, WorkerInv, Types, TicksBounded
  <2>2. \A n \in Number : process[n].state \in {"none", "alive", "zombie"}
    BY DEF WorkerInv, Types, States
  <2> QED BY <2>1, <2>2 DEF WorkerInv, Types, LedgerStatuses, IdentityTypeOK
<1> QED BY <1>1, <1>2, InitHolds, StepHolds, BoundedStep, PTL DEF IdentitySpec

-------------------------------------------------------------------------------
(* What a process sees that sees one GPU *)

\* The CUDA runtime shows a process that is confined to one UUID that GPU or none.
LEMMA SeesOnlyIt ==
    ASSUME NEW uuid
    PROVE  CudaSees(OnlyGpu(uuid)) \in {<<>>, <<uuid>>}
<1> DEFINE v == OnlyGpu(uuid)
           n == Max(UsableTo(v))
           w == FirstOf(v, n)
<1>1. v.set = TRUE /\ v.list = <<<<"uuid", {uuid}>>>>
  BY DEF OnlyGpu
<1>2. Len(v.list) = 1 /\ v.list[1] = <<"uuid", {uuid}>> /\ v.list \in Seq({<<"uuid", {uuid}>>})
  BY <1>1
<1>3. FirstOf(v, 0).list = <<>>
  BY <1>2 DEF FirstOf
<1>4. 0 \in UsableTo(v)
  <2>1. DOMAIN FirstOf(v, 0).list = {}
    BY <1>3
  <2>2. Unambiguous(FirstOf(v, 0), machine.cuda)
    BY <2>1 DEF Unambiguous, ReadsAs, IsInjective
  <2> QED BY <1>2, <2>2 DEF UsableTo
<1>5. UsableTo(v) \subseteq {0, 1}
  BY <1>2 DEF UsableTo
<1>6. n \in UsableTo(v)
  <2>1. \E m \in UsableTo(v) : \A k \in UsableTo(v) : m >= k
    BY <1>4, <1>5
  <2> HIDE DEF v
  <2> QED BY <2>1 DEF Max
<1>7. CudaSees(v) = ReadsAs(w, machine.cuda)
  BY <1>1 DEF CudaSees
<1> HIDE DEF n, v
<1>8. CASE n = 0
  <2>1. w.list = <<>>
    BY <1>3, <1>8
  <2>2. ReadsAs(w, machine.cuda) = <<>>
    BY <2>1 DEF ReadsAs
  <2> QED BY <1>7, <2>2 DEF v
<1>9. CASE n = 1
  <2>1. w.list = v.list
    BY <1>2, <1>9 DEF FirstOf
  <2>2. DOMAIN w.list = {1} /\ w.list[1] = <<"uuid", {uuid}>>
    BY <1>2, <2>1
  <2>3. Unambiguous(w, machine.cuda)
    BY <1>6, <1>9 DEF UsableTo
  <2> HIDE DEF w
  <2>4. Cardinality(Selects(w.list[1], machine.cuda)) = 1
    BY <2>2, <2>3 DEF Unambiguous
  <2>5. Selects(w.list[1], machine.cuda) = {uuid} \cap ToSet(machine.cuda)
    BY <2>2 DEF Selects
  <2>6. Selects(w.list[1], machine.cuda) = {uuid}
    BY <2>4, <2>5, FS_EmptySet
  <2>7. CudaSees(v) = [i \in {1} |-> uuid]
    BY <1>7, <2>2, <2>6 DEF ReadsAs
  <2>8. [i \in {1} |-> uuid] = <<uuid>>
    OBVIOUS
  <2> QED BY <2>7, <2>8 DEF v
<1> QED BY <1>5, <1>6, <1>8, <1>9

\* A model that is loaded in the process of a job is on its lease or on the CPU.
LEMMA PlacesOfALease ==
    ASSUME NEW lease, NEW e, NEW kind \in Kinds, NEW on,
           e.visible = IF lease = NoDevice THEN NoGpu ELSE OnlyGpu(lease),
           on \in PlacesOf(kind, IF lease = NoDevice THEN Cpu ELSE 0, e)
    PROVE  on \in {"cpu", lease}
<1>1. CASE lease = NoDevice
  BY <1>1 DEF PlacesOf, Cpu
<1>2. CASE lease # NoDevice
  <2>1. CudaSees(e.visible) \in {<<>>, <<lease>>}
    BY <1>2, SeesOnlyIt
  <2> QED BY <1>2, <2>1 DEF PlacesOf, Kinds, Cpu
<1> QED BY <1>1, <1>2

-------------------------------------------------------------------------------
(* The invariant *)

\* The process of a job sees its GPU alone, or none, and asks for what it sees.
Confined ==
    /\ shell.env.visible = IF wanted.lease = NoDevice THEN NoGpu ELSE OnlyGpu(wanted.lease)
    /\ shell.env.plain = (wanted.lease # NoDevice)
    /\ shell.device = IF wanted.lease = NoDevice THEN Cpu ELSE 0

\* Both variables are records with these fields.
ShellsAreRecords ==
    /\ wanted = [step |-> wanted.step, route |-> wanted.route, kind |-> wanted.kind, neb |-> wanted.neb,
                 asked |-> wanted.asked, meant |-> wanted.meant, lease |-> wanted.lease,
                 again |-> wanted.again, on |-> wanted.on, report |-> wanted.report]
    /\ shell = [env |-> shell.env, device |-> shell.device]
    /\ shell.env = [visible |-> shell.env.visible, plain |-> shell.env.plain, lease |-> shell.env.lease]

\* Nothing computes before a model is loaded.
NotYet == wanted.step \in {"new", "queued", "leased", "started"} => wanted.on = NoDevice

\* The process of a job is confined from its start to the end.
WorkersConfined == wanted.route = "queue" /\ wanted.step = "started" => Confined

DeviceInv ==
    /\ ShellsAreRecords /\ NotYet /\ WorkersConfined
    /\ wanted.step # "new" => wanted.kind \in Kinds
    /\ ComputesOnItsLease /\ OneToSee

\* A worker is isolated when it starts, so it does not start itself again.
LEMMA ConfinedIsIsolated ==
    ASSUME Confined
    PROVE  IsolatedFor(shell.device, shell.env)
<1>1. CASE wanted.lease = NoDevice
  BY <1>1 DEF Confined, IsolatedFor
<1>2. CASE wanted.lease # NoDevice
  <2>1. /\ shell.env.visible = [set |-> TRUE, list |-> <<<<"uuid", {wanted.lease}>>>>]
        /\ shell.env.plain /\ shell.device = 0
    BY <1>2 DEF Confined, OnlyGpu
  <2>2. shell.env.visible.set /\ Len(shell.env.visible.list) = 1
    BY <2>1
  <2> QED BY <2>1, <2>2 DEF IsolatedFor, Cpu
<1> QED BY <1>1, <1>2

\* A process that is isolated sees one GPU at most.
LEMMA IsolatedSeesOne ==
    ASSUME IsolatedFor(shell.device, shell.env)
    PROVE  shell.env.visible.set /\ Len(shell.env.visible.list) <= 1
<1>1. NoGpu.set = TRUE /\ Len(NoGpu.list) = 0
  BY DEF NoGpu
<1>2. CASE shell.device = Cpu
  BY <1>1, <1>2 DEF IsolatedFor
<1>3. CASE shell.device # Cpu
  <2>1. shell.env.visible.set
    BY <1>3, Zenon DEF IsolatedFor
  <2>2. Len(shell.env.visible.list) = 1
    BY <1>3, Zenon DEF IsolatedFor
  <2> QED BY <2>1, <2>2
<1> QED BY <1>2, <1>3

\* The invariant holds before anything is asked.
LEMMA InitKeeps == DeviceInit => DeviceInv
BY DEF DeviceInit, DeviceInv, ShellsAreRecords, NotYet, WorkersConfined, ComputesOnItsLease, OneToSee,
       NoRequest, NoShell, Needy, Kinds

\* Every step keeps the invariant.
LEMMA NextKeeps ==
    ASSUME DeviceInv, [DeviceNext]_deviceVars
    PROVE  DeviceInv'
<1> USE DEF DeviceInv
<1>1. CASE AskForDevice
  <2>1. PICK route \in {"queue", "cli", "api"}, kind \in Kinds, neb \in BOOLEAN,
             asked \in Cpu..Len(Gpus), e \in Environments :
          /\ e.lease # NoDevice => route = "queue"
          /\ wanted' = [NoRequest EXCEPT !.step = IF route = "queue" THEN "queued" ELSE "started",
                          !.route = route, !.kind = kind, !.neb = neb, !.asked = asked,
                          !.meant = Resolved(asked, e.visible, TRUE).uuid]
          /\ shell' = [env |-> e, device |-> asked]
    BY <1>1, Zenon DEF AskForDevice
  <2>2. e = [visible |-> e.visible, plain |-> e.plain, lease |-> e.lease]
    BY DEF Environments
  <2>3. /\ wanted'.route = route /\ wanted'.kind = kind /\ wanted'.on = NoDevice
        /\ wanted'.step = IF route = "queue" THEN "queued" ELSE "started"
    BY <2>1 DEF NoRequest
  <2>4. ShellsAreRecords'
    BY <2>1, <2>2 DEF ShellsAreRecords, NoRequest
  <2> QED BY <2>3, <2>4 DEF NotYet, WorkersConfined, ComputesOnItsLease, OneToSee
<1>2. CASE LeaseDevice
  BY <1>2 DEF LeaseDevice, ShellsAreRecords, NotYet, WorkersConfined, ComputesOnItsLease, OneToSee
<1>3. CASE IsolateWorker
  BY <1>3 DEF IsolateWorker, Proceed, ShellsAreRecords, NotYet, WorkersConfined, Confined,
              LeasedEnvironment, ComputesOnItsLease, OneToSee
<1>4. CASE RestartIsolated
  <2>1. wanted.route # "queue"
    BY <1>4, ConfinedIsIsolated DEF RestartIsolated, WorkersConfined
  <2> QED BY <1>4, <2>1 DEF RestartIsolated, Proceed, ShellsAreRecords, NotYet, WorkersConfined,
                            ComputesOnItsLease, OneToSee
<1>5. CASE LoadBackend
  <2>1. CASE Proceed("unisolated") \/ Proceed("failed")
    BY <1>5, <2>1 DEF LoadBackend, Proceed, ShellsAreRecords, NotYet, WorkersConfined,
                      ComputesOnItsLease, OneToSee
  <2>2. ASSUME ~(Needy(wanted.kind) /\ ~IsolatedFor(shell.device, shell.env)),
               NEW on \in PlacesOf(wanted.kind, shell.device, shell.env),
               wanted' = [wanted EXCEPT !.step = "computing", !.on = on]
        PROVE  DeviceInv'
    <3>1. ShellsAreRecords' /\ NotYet' /\ WorkersConfined' /\ wanted'.kind \in Kinds
      BY <1>5, <2>2 DEF LoadBackend, ShellsAreRecords, NotYet, WorkersConfined
    <3>2. ComputesOnItsLease'
      <4>1. CASE wanted.route = "queue"
        <5>1. Confined
          BY <1>5, <4>1 DEF LoadBackend, WorkersConfined
        <5>2. on \in {"cpu", wanted.lease}
          <6> DEFINE device == IF wanted.lease = NoDevice THEN Cpu ELSE 0
          <6>1. wanted.kind \in Kinds
            BY <1>5 DEF LoadBackend
          <6>2. /\ shell.env.visible = IF wanted.lease = NoDevice THEN NoGpu ELSE OnlyGpu(wanted.lease)
                /\ on \in PlacesOf(wanted.kind, device, shell.env)
            BY <2>2, <5>1 DEF Confined
          <6> QED BY <6>1, <6>2, PlacesOfALease
        <5> QED BY <2>2, <5>2 DEF ShellsAreRecords, ComputesOnItsLease
      <4>2. CASE wanted.route # "queue"
        BY <2>2, <4>2 DEF ShellsAreRecords, ComputesOnItsLease
      <4> QED BY <4>1, <4>2
    <3>3. OneToSee'
      <4>1. CASE Needy(wanted.kind)
        BY <1>5, <2>2, <4>1, IsolatedSeesOne DEF LoadBackend, OneToSee
      <4>2. CASE ~Needy(wanted.kind)
        BY <2>2, <4>2 DEF ShellsAreRecords, OneToSee, Needy
      <4> QED BY <4>1, <4>2
    <3> QED BY <3>1, <3>2, <3>3
  <2> QED BY <1>5, <2>1, <2>2 DEF LoadBackend
<1>6. CASE ConfirmDevice
  BY <1>6, ZenonT(60) DEF ConfirmDevice, ShellsAreRecords, NotYet, WorkersConfined, ComputesOnItsLease, OneToSee
<1>7. CASE LoseGpu
  BY <1>7 DEF LoseGpu, ShellsAreRecords, NotYet, WorkersConfined, Confined, ComputesOnItsLease, OneToSee
<1>8. CASE UNCHANGED deviceVars
  BY <1>8 DEF deviceVars, ShellsAreRecords, NotYet, WorkersConfined, Confined, ComputesOnItsLease, OneToSee
<1> QED BY <1>1, <1>2, <1>3, <1>4, <1>5, <1>6, <1>7, <1>8 DEF DeviceNext

\* The inductive invariant holds in every reachable state.
THEOREM DeviceInvariant == DeviceSpec => []DeviceInv
BY InitKeeps, NextKeeps, PTL DEF DeviceSpec

-------------------------------------------------------------------------------
(* What follows *)

\* A queued job computes on the GPU of its lease, or on none: any number of GPUs,
\* any order of the CUDA runtime, any visibility of the scheduler, GPUs that fail.
THEOREM LeaseIsKept == DeviceSpec => []ComputesOnItsLease
<1>1. DeviceInv => ComputesOnItsLease
  BY DEF DeviceInv
<1> QED BY <1>1, DeviceInvariant, PTL

\* DPA and GRACE, who take the first GPU they see, never see a second one.
THEOREM NeverASecondGpu == DeviceSpec => []OneToSee
<1>1. DeviceInv => OneToSee
  BY DEF DeviceInv
<1> QED BY <1>1, DeviceInvariant, PTL

-------------------------------------------------------------------------------
(* What a number means *)

\* No GPU has failed.
AllWork == Len(machine.smi) = Len(Gpus)

\* nvidia-smi lists GPUs of the machine; all of them in their order if none failed.
MachineOK ==
    /\ machine.smi \in Seq(ToSet(Gpus)) /\ Len(machine.smi) <= Len(Gpus)
    /\ AllWork => machine.smi = Gpus

IsList(l) == l \in Seq(ToSet(l))

\* A number that is resolved means a GPU of the machine.  (resolve_physical_gpu.)
LEMMA ResolvedIsAGpu ==
    ASSUME MachineOK, NEW device \in Nat, NEW v, IsList(v.list), NEW answers \in BOOLEAN,
           Resolved(device, v, answers).ok
    PROVE  /\ Resolved(device, v, answers).uuid \in ToSet(Gpus)
           /\ Resolved(device, v, answers).uuid = VisibleList(v)[device + 1]
           /\ answers
<1> DEFINE seen == VisibleList(v)
<1>1. answers /\ Unambiguous(v, machine.smi) /\ device < Len(seen)
  BY DEF Resolved, Cpu
<1>2. Resolved(device, v, answers).uuid = seen[device + 1]
  BY <1>1 DEF Resolved, Cpu
<1>3. CASE v.set
  <2>1. seen = ReadsAs(v, machine.smi)
    BY <1>3 DEF VisibleList
  <2> DEFINE n == Len(v.list)
  <2>2. n \in Nat /\ DOMAIN v.list = 1..n
    BY LenProperties DEF IsList
  <2>3. \A i \in 1..n : seen[i] \in ToSet(machine.smi)
    <3> SUFFICES ASSUME NEW i \in 1..n PROVE seen[i] \in ToSet(machine.smi)
      OBVIOUS
    <3>1. seen[i] = CHOOSE g \in Selects(v.list[i], machine.smi) : TRUE
      BY <2>1, <2>2 DEF ReadsAs
    <3>2. Cardinality(Selects(v.list[i], machine.smi)) = 1
      BY <1>1, <2>2 DEF Unambiguous
    <3>3. Selects(v.list[i], machine.smi) # {}
      <4> DEFINE S == Selects(v.list[i], machine.smi)
      <4>1. Cardinality(S) = 1
        BY <3>2
      <4> HIDE DEF S
      <4>2. S # {}
        <5> SUFFICES ASSUME S = {} PROVE FALSE
          OBVIOUS
        <5>1. Cardinality({}) = 0
          BY FS_EmptySet
        <5>2. Cardinality(S) = 0
          BY <5>1
        <5> QED BY <4>1, <5>2
      <4> QED BY <4>2 DEF S
    <3>4. Selects(v.list[i], machine.smi) \subseteq ToSet(machine.smi)
      BY DEF Selects, ToSet
    <3> QED BY <3>1, <3>3, <3>4
  <2>4. DOMAIN seen = 1..n
    <3> HIDE DEF seen, n
    <3> QED BY <2>1, <2>2 DEF ReadsAs
  <2>5. Len(seen) = n
    <3> DEFINE f == [i \in 1..n |-> CHOOSE g \in Selects(v.list[i], machine.smi) : TRUE]
               gpus == {CHOOSE g \in Selects(v.list[i], machine.smi) : TRUE : i \in 1..n}
    <3>1. seen = f
      BY <2>1, <2>2 DEF ReadsAs
    <3>2. f \in [1..n -> gpus]
      OBVIOUS
    <3> HIDE DEF seen, n, f, gpus
    <3>3. f \in Seq(gpus)
      BY <3>2, <2>2, SeqDef
    <3> QED BY <3>1, <3>3, <2>2, <2>4, LenProperties
  <2>6. ToSet(machine.smi) \subseteq ToSet(Gpus)
    <3>1. machine.smi \in Seq(ToSet(Gpus))
      BY DEF MachineOK
    <3> DEFINE G == ToSet(Gpus)
    <3>2. \A i \in DOMAIN machine.smi : machine.smi[i] \in G
      <4> HIDE DEF G
      <4> QED BY <3>1, ElementOfSeq, LenProperties DEF G
    <3> QED BY <3>2 DEF ToSet
  <2> HIDE DEF seen, n
  <2>7. device + 1 \in 1..n
    BY <1>1, <2>2, <2>5
  <2>8. seen[device + 1] \in ToSet(Gpus)
    BY <2>3, <2>6, <2>7
  <2> QED BY <1>1, <1>2, <2>8 DEF seen
<1>4. CASE ~v.set
  <2>1. seen = machine.smi
    BY <1>4 DEF VisibleList
  <2>2. machine.smi \in Seq(ToSet(Gpus)) /\ Len(machine.smi) \in Nat
    BY LenProperties DEF MachineOK
  <2>3. device + 1 \in 1..Len(machine.smi)
    BY <1>1, <2>1, <2>2
  <2> QED BY <1>1, <1>2, <2>1, <2>2, <2>3, ElementOfSeq
<1> QED BY <1>3, <1>4

\* A process that is confined to one UUID can only mean that one.
LEMMA OnlyItIsMeant ==
    ASSUME NEW device \in Nat, NEW uuid, NEW answers, Resolved(device, OnlyGpu(uuid), answers).ok
    PROVE  Resolved(device, OnlyGpu(uuid), answers).uuid = uuid
<1> DEFINE v == OnlyGpu(uuid)
           seen == VisibleList(v)
<1>1. answers /\ Unambiguous(v, machine.smi) /\ device < Len(seen)
  BY DEF Resolved, Cpu
<1>2. Resolved(device, v, answers).uuid = seen[device + 1]
  BY <1>1 DEF Resolved, Cpu
<1>3. v.set = TRUE /\ v.list = <<<<"uuid", {uuid}>>>>
  BY DEF OnlyGpu
<1>4. DOMAIN v.list = {1} /\ v.list[1] = <<"uuid", {uuid}>>
  BY <1>3
<1> HIDE DEF v
<1>5. seen = ReadsAs(v, machine.smi)
  BY <1>3 DEF VisibleList
<1>6. Cardinality(Selects(v.list[1], machine.smi)) = 1
  BY <1>1, <1>4 DEF Unambiguous
<1>7. Selects(v.list[1], machine.smi) = {uuid} \cap ToSet(machine.smi)
  BY <1>4 DEF Selects
<1>8. Selects(v.list[1], machine.smi) = {uuid}
  BY <1>6, <1>7, FS_EmptySet
<1>9. seen = [i \in {1} |-> uuid]
  BY <1>4, <1>5, <1>8 DEF ReadsAs
<1>10. [i \in {1} |-> uuid] = <<uuid>>
  OBVIOUS
<1>11. Len(seen) = 1 /\ seen[1] = uuid
  BY <1>9, <1>10
<1> HIDE DEF seen
<1>12. device = 0
  BY <1>1, <1>11
<1> QED BY <1>2, <1>11, <1>12 DEF v

\* A list of one UUID, and one of none.
LEMMA ListsOfAProcess == /\ \A uuid : IsList(OnlyGpu(uuid).list)
                         /\ IsList(NoGpu.list) /\ IsList(UnsetList.list)
<1>1. ASSUME NEW uuid PROVE IsList(OnlyGpu(uuid).list)
  <2>1. OnlyGpu(uuid).list = <<<<"uuid", {uuid}>>>>
    BY DEF OnlyGpu
  <2> DEFINE l == <<<<"uuid", {uuid}>>>>
  <2>2. DOMAIN l = {1} /\ l[1] = <<"uuid", {uuid}>>
    OBVIOUS
  <2>3. ToSet(l) = {<<"uuid", {uuid}>>}
    BY <2>2 DEF ToSet
  <2>4. l \in Seq(ToSet(l))
    BY <2>3
  <2> QED BY <2>1, <2>4 DEF IsList
<1>2. NoGpu.list = <<>> /\ UnsetList.list = <<>>
  BY DEF NoGpu, UnsetList
<1> QED BY <1>1, <1>2, EmptySeq DEF IsList

\* The failure of a GPU leaves a list of GPUs.
LEMMA LosingKeepsTheMachine ==
    ASSUME MachineOK, LoseGpu
    PROVE  MachineOK' /\ ~AllWork' /\ UNCHANGED <<wanted, shell>>
<1>1. PICK i \in DOMAIN machine.smi : machine'.smi = RemoveAt(machine.smi, i)
  BY DEF LoseGpu
<1> DEFINE s == machine.smi  n == Len(s)
<1>2. s \in Seq(ToSet(Gpus)) /\ n \in Nat /\ i \in 1..n /\ n <= Len(Gpus)
  BY LenProperties DEF MachineOK
<1>3. /\ SubSeq(s, 1, i - 1) \in Seq(ToSet(Gpus)) /\ Len(SubSeq(s, 1, i - 1)) = i - 1
      /\ SubSeq(s, i + 1, n) \in Seq(ToSet(Gpus)) /\ Len(SubSeq(s, i + 1, n)) = n - i
  BY <1>2
<1>4. RemoveAt(s, i) \in Seq(ToSet(Gpus)) /\ Len(RemoveAt(s, i)) = n - 1
  <2> DEFINE t == SubSeq(s, 1, i - 1)  u == SubSeq(s, i + 1, n)
  <2>1. RemoveAt(s, i) = t \o u
    BY DEF RemoveAt
  <2>2. /\ t \in Seq(ToSet(Gpus)) /\ Len(t) = i - 1
        /\ u \in Seq(ToSet(Gpus)) /\ Len(u) = n - i
    BY <1>3
  <2> HIDE DEF t, u
  <2>3. t \o u \in Seq(ToSet(Gpus)) /\ Len(t \o u) = Len(t) + Len(u)
    BY <2>2, ConcatProperties
  <2> QED BY <1>2, <2>1, <2>2, <2>3
<1>5. Len(Gpus) \in Nat
  BY DeviceAssumption, LenProperties
<1>6. UNCHANGED <<wanted, shell>>
  BY DEF LoseGpu
<1> HIDE DEF s, n
<1> QED BY <1>1, <1>2, <1>4, <1>5, <1>6 DEF MachineOK, AllWork, s

-------------------------------------------------------------------------------
(* What a calculation reports *)

\* The number means, where it is asked, the GPU that it meant in the beginning.
MeansTheSame ==
    AllWork => \A answers \in BOOLEAN :
        Resolved(shell.device, shell.env.visible, answers).ok =>
            Resolved(shell.device, shell.env.visible, answers).uuid = wanted.meant

\* The lease, and later the process, is a GPU just when a GPU was asked for.
DeviceAsAsked ==
    /\ wanted.step = "queued" => shell.device = wanted.asked
    /\ wanted.step = "leased" => (wanted.lease = NoDevice <=> wanted.asked = Cpu)
    /\ wanted.step \in {"started", "computing"} => (shell.device = Cpu <=> wanted.asked = Cpu)

ReportInv ==
    /\ MachineOK
    /\ wanted.asked \in Int /\ wanted.asked >= Cpu
    /\ shell.device \in Int /\ shell.device >= Cpu
    /\ IsList(shell.env.visible.list)
    /\ DeviceAsAsked
    /\ wanted.step = "leased" => (AllWork => wanted.lease = wanted.meant)
    /\ wanted.step \in {"queued", "started", "computing"} => MeansTheSame
    /\ ReportsItsDevice

\* The CPU means no GPU, whoever answers.
LEMMA CpuIsNoGpu == \A v, answers : Resolved(Cpu, v, answers) = [ok |-> TRUE, uuid |-> NoDevice]
BY DEF Resolved

\* A GPU is not the absence of one, nor the CPU.
LEMMA GpusAreGpus == \A g \in ToSet(Gpus) : g # NoDevice /\ g # "cpu"
BY DeviceAssumption

LEMMA ReportInit == DeviceInit => ReportInv
<1> SUFFICES ASSUME DeviceInit PROVE ReportInv
  OBVIOUS
<1>1. machine.smi = Gpus
  BY DEF DeviceInit
<1>2. MachineOK
  BY <1>1, DeviceAssumption, LenProperties DEF MachineOK
<1>3. /\ wanted.asked = -1 /\ wanted.step = "new" /\ shell.device = -1
      /\ shell.env.visible = UnsetList
  BY DEF DeviceInit, NoRequest, NoShell, Cpu
<1> QED BY <1>2, <1>3, ListsOfAProcess DEF ReportInv, DeviceAsAsked, ReportsItsDevice, Cpu

LEMMA ReportStep ==
    ASSUME DeviceInv, ReportInv, [DeviceNext]_deviceVars
    PROVE  ReportInv'
<1> USE DEF ReportInv
<1>1. CASE AskForDevice
  <2>1. PICK route \in {"queue", "cli", "api"}, kind \in Kinds, neb \in BOOLEAN,
             asked \in Cpu..Len(Gpus), e \in Environments :
          /\ e.lease # NoDevice => route = "queue"
          /\ wanted' = [NoRequest EXCEPT !.step = IF route = "queue" THEN "queued" ELSE "started",
                          !.route = route, !.kind = kind, !.neb = neb, !.asked = asked,
                          !.meant = Resolved(asked, e.visible, TRUE).uuid]
          /\ shell' = [env |-> e, device |-> asked]
    BY <1>1, Zenon DEF AskForDevice
  <2>2. machine' = machine
    BY <1>1 DEF AskForDevice
  <2>3. asked \in Int /\ asked >= Cpu /\ IsList(e.visible.list)
    BY DeviceAssumption, LenProperties DEF Environments, IsList, Cpu
  <2>4. /\ wanted'.step \in {"queued", "started"} /\ wanted'.asked = asked
        /\ wanted'.meant = Resolved(asked, e.visible, TRUE).uuid
        /\ shell'.device = asked /\ shell'.env.visible = e.visible
    BY <2>1 DEF NoRequest
  <2>5. \A answers \in BOOLEAN : Resolved(asked, e.visible, answers).ok =>
            Resolved(asked, e.visible, answers).uuid = Resolved(asked, e.visible, TRUE).uuid
    <3> SUFFICES ASSUME NEW answers \in BOOLEAN, Resolved(asked, e.visible, answers).ok
                 PROVE  Resolved(asked, e.visible, answers).uuid = Resolved(asked, e.visible, TRUE).uuid
      OBVIOUS
    <3>1. CASE asked = Cpu
      BY <3>1, CpuIsNoGpu
    <3>2. CASE asked # Cpu
      <4>1. asked \in Nat
        BY <2>3, <3>2 DEF Cpu
      <4>2. answers = TRUE
        BY <2>3, <4>1, ResolvedIsAGpu
      <4> QED BY <4>2
    <3> QED BY <3>1, <3>2
  <2>6. MeansTheSame'
    <3>1. \A d, v, a : Resolved(d, v, a)' = Resolved(d, v, a)
      BY <2>2 DEF Resolved, VisibleList
    <3> QED BY <2>4, <2>5, <3>1 DEF MeansTheSame
  <2>7. DeviceAsAsked' /\ MachineOK' /\ ReportsItsDevice'
    BY <2>2, <2>4 DEF DeviceAsAsked, MachineOK, AllWork, ReportsItsDevice
  <2> QED BY <2>3, <2>4, <2>6, <2>7
<1>2. CASE LeaseDevice
  <2>1. PICK answers \in BOOLEAN :
          wanted' = [wanted EXCEPT
             !.step = IF Resolved(wanted.asked, shell.env.visible, answers).ok THEN "leased" ELSE "failed",
             !.lease = Resolved(wanted.asked, shell.env.visible, answers).uuid]
    BY <1>2, Zenon DEF LeaseDevice
  <2> DEFINE found == Resolved(wanted.asked, shell.env.visible, answers)
  <2>2. wanted.step = "queued" /\ UNCHANGED <<machine, shell>> /\ shell.device = wanted.asked
    BY <1>2 DEF LeaseDevice, DeviceAsAsked
  <2>3. /\ wanted'.lease = found.uuid /\ wanted'.asked = wanted.asked /\ wanted'.meant = wanted.meant
        /\ wanted'.step = IF found.ok THEN "leased" ELSE "failed"
    BY <2>1 DEF DeviceInv, ShellsAreRecords
  <2>4. found.ok => (found.uuid = NoDevice <=> wanted.asked = Cpu)
    <3>1. CASE wanted.asked = Cpu
      BY <3>1, CpuIsNoGpu
    <3>2. CASE wanted.asked # Cpu /\ found.ok
      <4>1. wanted.asked \in Nat
        BY <3>2 DEF Cpu
      <4>2. found.uuid \in ToSet(Gpus)
        BY <3>2, <4>1, ResolvedIsAGpu
      <4> QED BY <3>2, <4>2, GpusAreGpus
    <3> QED BY <3>1, <3>2
  <2>5. AllWork /\ found.ok => found.uuid = wanted.meant
    BY <2>2 DEF MeansTheSame
  <2> HIDE DEF found
  <2>6. DeviceAsAsked'
    BY <2>2, <2>3, <2>4 DEF DeviceAsAsked
  <2> QED BY <2>2, <2>3, <2>5, <2>6 DEF MachineOK, AllWork, ReportsItsDevice
<1>3. CASE IsolateWorker
  <2> DEFINE lease == wanted.lease
  <2>1. /\ wanted.step = "leased" /\ machine' = machine
        /\ shell' = [env |-> LeasedEnvironment(lease, shell.env),
                     device |-> IF lease = NoDevice THEN Cpu ELSE 0]
        /\ wanted' = [wanted EXCEPT !.step = "started"]
    BY <1>3 DEF IsolateWorker, Proceed
  <2>2. /\ wanted'.step = "started" /\ wanted'.asked = wanted.asked /\ wanted'.meant = wanted.meant
        /\ shell'.device = IF lease = NoDevice THEN Cpu ELSE 0
        /\ shell'.env.visible = IF lease = NoDevice THEN NoGpu ELSE OnlyGpu(lease)
    BY <2>1 DEF DeviceInv, ShellsAreRecords, LeasedEnvironment
  <2>3. lease = NoDevice <=> wanted.asked = Cpu
    BY <2>1 DEF DeviceAsAsked
  <2>4. AllWork => lease = wanted.meant
    BY <2>1
  <2> HIDE DEF lease
  <2>5. MeansTheSame'
    <3>1. \A d, v, a : Resolved(d, v, a)' = Resolved(d, v, a)
      BY <2>1 DEF Resolved, VisibleList
    <3>2. AllWork' <=> AllWork
      BY <2>1 DEF AllWork
    <3>3. CASE lease = NoDevice
      BY <2>2, <2>4, <3>1, <3>2, <3>3, CpuIsNoGpu DEF MeansTheSame
    <3>4. CASE lease # NoDevice
      <4>1. shell'.device = 0 /\ shell'.env.visible = OnlyGpu(lease)
        BY <2>2, <3>4
      <4>2. \A a \in BOOLEAN : Resolved(0, OnlyGpu(lease), a).ok => Resolved(0, OnlyGpu(lease), a).uuid = lease
        BY OnlyItIsMeant
      <4> QED BY <2>2, <2>4, <3>1, <3>2, <4>1, <4>2 DEF MeansTheSame
    <3> QED BY <3>3, <3>4
  <2>6. DeviceAsAsked' /\ MachineOK' /\ ReportsItsDevice'
    BY <2>1, <2>2, <2>3 DEF DeviceAsAsked, MachineOK, AllWork, ReportsItsDevice, Cpu
  <2>7. IsList(shell'.env.visible.list)
    BY <2>2, ListsOfAProcess
  <2> QED BY <2>1, <2>2, <2>5, <2>6, <2>7 DEF Cpu
<1>4. CASE RestartIsolated
  <2>1. PICK answers \in BOOLEAN :
         IF Resolved(shell.device, shell.env.visible, answers).ok
         THEN /\ shell' = [shell EXCEPT !.env.visible = IF shell.device = Cpu THEN NoGpu ELSE
                              OnlyGpu(Resolved(shell.device, shell.env.visible, answers).uuid)]
              /\ wanted' = [wanted EXCEPT !.again = TRUE]
         ELSE Proceed("failed") /\ UNCHANGED shell
    BY <1>4, Zenon DEF RestartIsolated
  <2> DEFINE found == Resolved(shell.device, shell.env.visible, answers)
  <2>2. wanted.step = "started" /\ machine' = machine
    BY <1>4 DEF RestartIsolated
  <2>3. \A d, v, a : Resolved(d, v, a)' = Resolved(d, v, a)
    BY <2>2 DEF Resolved, VisibleList
  <2>4. CASE ~found.ok
    <3>1. shell' = shell /\ wanted' = [wanted EXCEPT !.step = "failed"]
      BY <2>1, <2>4 DEF Proceed
    <3>2. wanted'.step = "failed" /\ wanted'.asked = wanted.asked
      BY <3>1 DEF DeviceInv, ShellsAreRecords
    <3> QED BY <2>2, <3>1, <3>2 DEF DeviceAsAsked, MachineOK, AllWork, ReportsItsDevice
  <2>5. CASE found.ok
    <3>1. /\ wanted'.step = "started" /\ wanted'.asked = wanted.asked /\ wanted'.meant = wanted.meant
          /\ shell'.device = shell.device
          /\ shell'.env.visible = IF shell.device = Cpu THEN NoGpu ELSE OnlyGpu(found.uuid)
      BY <2>1, <2>2, <2>5 DEF DeviceInv, ShellsAreRecords
    <3>2. AllWork => found.uuid = wanted.meant
      BY <2>2, <2>5 DEF MeansTheSame
    <3> HIDE DEF found
    <3>3. MeansTheSame'
      <4>1. AllWork' <=> AllWork
        BY <2>2 DEF AllWork
      <4>2. CASE shell.device = Cpu
        <5>1. AllWork => wanted.meant = NoDevice
          BY <2>2, <4>2, CpuIsNoGpu DEF MeansTheSame
        <5> QED BY <2>3, <3>1, <4>1, <4>2, <5>1, CpuIsNoGpu DEF MeansTheSame
      <4>3. CASE shell.device # Cpu
        <5>1. shell.device \in Nat /\ shell'.env.visible = OnlyGpu(found.uuid)
          BY <3>1, <4>3 DEF Cpu
        <5>2. \A a \in BOOLEAN : Resolved(shell.device, OnlyGpu(found.uuid), a).ok =>
                 Resolved(shell.device, OnlyGpu(found.uuid), a).uuid = found.uuid
          BY <5>1, OnlyItIsMeant
        <5> QED BY <2>3, <3>1, <3>2, <4>1, <5>1, <5>2 DEF MeansTheSame
      <4> QED BY <4>2, <4>3
    <3>4. IsList(shell'.env.visible.list)
      BY <3>1, ListsOfAProcess
    <3>5. DeviceAsAsked' /\ MachineOK' /\ ReportsItsDevice'
      BY <2>2, <3>1 DEF DeviceAsAsked, MachineOK, AllWork, ReportsItsDevice
    <3> QED BY <3>1, <3>3, <3>4, <3>5
  <2> QED BY <2>4, <2>5
<1>5. CASE LoadBackend
  <2>1. /\ wanted.step = "started" /\ UNCHANGED <<machine, shell>>
        /\ \/ Proceed("unisolated")
           \/ Proceed("failed")
           \/ \E on : wanted' = [wanted EXCEPT !.step = "computing", !.on = on]
    BY <1>5, Zenon DEF LoadBackend
  <2>2. /\ wanted'.step \in {"unisolated", "failed", "computing"} /\ wanted'.asked = wanted.asked
        /\ wanted'.meant = wanted.meant
    BY <2>1 DEF Proceed, DeviceInv, ShellsAreRecords
  <2>3. MeansTheSame'
    <3>1. \A d, v, a : Resolved(d, v, a)' = Resolved(d, v, a)
      BY <2>1 DEF Resolved, VisibleList
    <3> QED BY <2>1, <2>2, <3>1 DEF MeansTheSame, AllWork
  <2>4. DeviceAsAsked' /\ MachineOK' /\ ReportsItsDevice'
    BY <2>1, <2>2 DEF DeviceAsAsked, MachineOK, AllWork, ReportsItsDevice
  <2> QED BY <2>1, <2>2, <2>3, <2>4
<1>6. CASE ConfirmDevice
  <2>1. PICK answers \in BOOLEAN : \E id \in Identities(wanted.on, shell.device, shell.env, answers) :
          LET again == Resolved(shell.device, shell.env.visible, answers)
              enough == wanted.neb =>
                 again.ok /\ (again.uuid # NoDevice => id.type = "cuda" /\ id.uuid = again.uuid)
          IN  wanted' = [wanted EXCEPT !.step = IF id.ok /\ enough THEN "reported" ELSE "failed",
                                        !.report = IF id.ok THEN id ELSE Untold]
    BY <1>6, Zenon DEF ConfirmDevice
  <2>11. PICK id \in Identities(wanted.on, shell.device, shell.env, answers) :
          LET again == Resolved(shell.device, shell.env.visible, answers)
              enough == wanted.neb =>
                 again.ok /\ (again.uuid # NoDevice => id.type = "cuda" /\ id.uuid = again.uuid)
          IN  wanted' = [wanted EXCEPT !.step = IF id.ok /\ enough THEN "reported" ELSE "failed",
                                        !.report = IF id.ok THEN id ELSE Untold]
    BY <2>1, Zenon
  <2> DEFINE again == Resolved(shell.device, shell.env.visible, answers)
             enough == wanted.neb =>
                 again.ok /\ (again.uuid # NoDevice => id.type = "cuda" /\ id.uuid = again.uuid)
             on == wanted.on
  <2>2. wanted.step = "computing" /\ UNCHANGED <<machine, shell>>
    BY <1>6 DEF ConfirmDevice
  <2>3. /\ wanted'.on = on /\ wanted'.asked = wanted.asked /\ wanted'.meant = wanted.meant
        /\ wanted'.neb = wanted.neb
        /\ wanted'.step = IF id.ok /\ enough THEN "reported" ELSE "failed"
        /\ wanted'.report = IF id.ok THEN id ELSE Untold
    BY <2>11 DEF DeviceInv, ShellsAreRecords
  <2>4. \/ id = Untold
        \/ id = [Untold EXCEPT !.ok = FALSE]
        \/ on = "cpu" /\ id = [ok |-> shell.device = Cpu, type |-> "cpu", uuid |-> NoDevice]
        \/ /\ on # "cpu" /\ id.type = "cuda" /\ id.uuid = on
           /\ id.ok => shell.device # Cpu /\ again.ok /\ again.uuid = on
    <3> DEFINE i == shell.device = Cpu
               y == shell.device # Cpu /\ again.ok /\ again.uuid = on /\ (shell.env.lease # NoDevice => shell.env.lease = on)
               there == [ok |-> i, type |-> "cpu", uuid |-> NoDevice]
               here == [ok |-> y, type |-> "cuda", uuid |-> on]
    <3>1. id \in {Untold, [Untold EXCEPT !.ok = FALSE]} \cup (IF on = "cpu" THEN {there} ELSE {here})
      BY DEF Identities
    <3>2. here.ok = y /\ here.type = "cuda" /\ here.uuid = on
      <4> HIDE DEF y, on
      <4> QED OBVIOUS
    <3> HIDE DEF here, on, again, y
    <3> QED BY <3>1, <3>2 DEF y
  <2>5. shell.device = Cpu <=> wanted.asked = Cpu
    BY <2>2 DEF DeviceAsAsked
  <2>6. AllWork /\ again.ok => again.uuid = wanted.meant
    BY <2>2 DEF MeansTheSame
  <2>7. again.ok /\ shell.device # Cpu => again.uuid # NoDevice
    <3> SUFFICES ASSUME again.ok, shell.device # Cpu PROVE again.uuid # NoDevice
      OBVIOUS
    <3>1. shell.device \in Nat
      BY DEF Cpu
    <3>2. again.uuid \in ToSet(Gpus)
      BY <3>1, ResolvedIsAGpu
    <3> QED BY <3>2, GpusAreGpus
  <2>8. Untold.uuid = NoDevice /\ Untold.type = "unknown" /\ [Untold EXCEPT !.ok = FALSE].ok = FALSE
    BY DEF Untold
  <2>9. ReportsItsDevice'
    <3> SUFFICES ASSUME id.ok, enough
                 PROVE  /\ id.uuid # NoDevice => /\ on = id.uuid /\ wanted.asked # Cpu
                                                 /\ (AllWork => on = wanted.meant)
                        /\ id.type = "cpu" => on = "cpu" /\ wanted.asked = Cpu
                        /\ wanted.neb /\ wanted.asked # Cpu => id.uuid # NoDevice
      BY <2>2, <2>3 DEF ReportsItsDevice, AllWork
    <3> HIDE DEF again, on
    <3>1. CASE id = Untold
      BY <2>5, <2>7, <2>8, <3>1
    <3>2. CASE /\ on = "cpu"
               /\ id = [ok |-> shell.device = Cpu, type |-> "cpu", uuid |-> NoDevice]
      BY <2>5, <3>2
    <3>3. CASE /\ on # "cpu" /\ id.type = "cuda" /\ id.uuid = on
               /\ id.ok => shell.device # Cpu /\ again.ok /\ again.uuid = on
      BY <2>5, <2>6, <2>7, <3>3
    <3> QED BY <2>4, <2>8, <3>1, <3>2, <3>3
  <2>10. DeviceAsAsked' /\ MachineOK'
    BY <2>2, <2>3 DEF DeviceAsAsked, MachineOK, AllWork
  <2> QED BY <2>2, <2>3, <2>9, <2>10
<1>7. CASE LoseGpu
  <2>1. MachineOK' /\ ~AllWork' /\ UNCHANGED <<wanted, shell>>
    BY <1>7, LosingKeepsTheMachine
  <2> QED BY <2>1 DEF DeviceAsAsked, MeansTheSame, ReportsItsDevice, AllWork
<1>8. CASE UNCHANGED deviceVars
  <2>1. UNCHANGED <<machine, wanted, shell>>
    BY <1>8 DEF deviceVars
  <2>2. \A d, v, a : Resolved(d, v, a)' = Resolved(d, v, a)
    BY <2>1 DEF Resolved, VisibleList
  <2> QED BY <2>1, <2>2 DEF DeviceAsAsked, MeansTheSame, ReportsItsDevice, AllWork, MachineOK
<1> QED BY <1>1, <1>2, <1>3, <1>4, <1>5, <1>6, <1>7, <1>8 DEF DeviceNext

\* What a calculation reports of its device is true (verify_runtime_uuid, info).
THEOREM ReportIsTrue == DeviceSpec => []RunsWhereItSays
<1>1. DeviceInv /\ ReportInv => RunsWhereItSays
  BY DEF DeviceInv, ReportInv, RunsWhereItSays
<1> QED BY <1>1, InitKeeps, NextKeeps, ReportInit, ReportStep, PTL DEF DeviceSpec

-------------------------------------------------------------------------------
(* What doctor certifies *)

Told(name) == <<name, "fail">> \in findings
Named == exam.ask.engine # "auto"

\* The probe computed on the GPU of the number, or on the CPU that was asked.
ComputedThere ==
    /\ exam.runtime = "ok"
    /\ (exam.ran = "cpu" <=> exam.target = Cpu)
    /\ (WantsGpu(exam.target) /\ AllWork =>
          exam.ran = Resolved(exam.target, exam.env.visible, TRUE).uuid)

\* What was named has been tried.
Tried ==
    /\ exam.ask.model # "none" => exam.model \in {"loaded", "evaluated"}
    /\ exam.ask.structure # "none" => exam.model = "evaluated"

ExamOK ==
    /\ exam =
           [step |-> exam.step, ask |-> exam.ask, env |-> exam.env, target |-> exam.target,
            seen |-> exam.seen, runtime |-> exam.runtime, ran |-> exam.ran, model |-> exam.model,
            loaded |-> exam.loaded]
    /\ exam.env = [visible |-> exam.env.visible, plain |-> exam.env.plain, lease |-> exam.env.lease]

\* The list was asked for, and for an engine a device is known.
AskOK ==
    /\ exam.ask \in Questions /\ IsList(exam.env.visible.list)
    /\ exam.target \in Int /\ (Named => exam.target >= Cpu)

ExamSteps == {"new", "surveyed", "probed", "judged", "done", "healthy", "unhealthy", "raised"}
Surveyed == {"surveyed", "probed", "judged", "done", "healthy"}
Probed == {"probed", "judged", "done", "healthy"}

\* What is missing at a step is a row that fails.
ExamInv ==
    /\ ExamOK /\ exam.step \in ExamSteps
    /\ exam.step \in Surveyed => AskOK
    /\ exam.step \in Surveyed /\ Named => exam.ask.installed \/ Told("package")
    /\ exam.step \in Probed /\ Named /\ exam.ask.installed => ComputedThere \/ Told("runtime")
    /\ exam.step \in {"done", "healthy"} => Tried \/ \E r \in findings : r[2] = "fail"
    /\ exam.step = "healthy" => ~\E r \in findings : r[2] = "fail"

LEMMA ExamInit == DoctorInit => ExamInv
BY DEF DoctorInit, ExamInv, ExamOK, NoExam, NoShell, ExamSteps, Surveyed, Probed

\* What was found stays, and a GPU that fails leaves no number to compare.
LEMMA OnceTold ==
    ASSUME findings \subseteq findings', machine' = machine \/ ~AllWork',
           exam'.ask = exam.ask, exam'.env = exam.env, exam'.target = exam.target
    PROVE  /\ AskOK => AskOK'
           /\ Named' <=> Named
           /\ \A name : Told(name) => Told(name)'
           /\ exam'.runtime = exam.runtime /\ exam'.ran = exam.ran /\ ComputedThere => ComputedThere'
<1>1. AskOK => AskOK'
  BY DEF AskOK, Named
<1>2. Named' <=> Named
  BY DEF Named
<1>3. \A name : Told(name) => Told(name)'
  BY DEF Told
<1>4. ASSUME machine' = machine PROVE \A d, v, a : Resolved(d, v, a)' = Resolved(d, v, a)
  BY <1>4 DEF Resolved, VisibleList
<1>5. ASSUME exam'.runtime = exam.runtime, exam'.ran = exam.ran, ComputedThere PROVE ComputedThere'
  <2>1. CASE machine' = machine
    BY <1>4, <1>5, <2>1 DEF ComputedThere, AllWork
  <2>2. CASE ~AllWork'
    BY <1>5, <2>2 DEF ComputedThere
  <2> QED BY <2>1, <2>2
<1> QED BY <1>1, <1>2, <1>3, <1>5

\* A probe in a process that is confined to the GPU of the number computes there.
LEMMA ProbeIsThere ==
    ASSUME MachineOK, NEW target \in Int, target >= Cpu, NEW v, IsList(v.list),
           NEW answers \in BOOLEAN, Resolved(target, v, answers).ok, NEW e,
           NEW sh, NEW on \in ProbePlaces(sh),
           sh.device = IF WantsGpu(target) THEN 0 ELSE Cpu,
           sh.env = LeasedEnvironment(Resolved(target, v, answers).uuid, e)
    PROVE  /\ on = "cpu" <=> target = Cpu
           /\ WantsGpu(target) => on = Resolved(target, v, TRUE).uuid
<1>1. CASE target = Cpu
  <2>1. ~WantsGpu(target) /\ sh.device = Cpu
    BY <1>1 DEF WantsGpu, Cpu
  <2> QED BY <1>1, <2>1 DEF ProbePlaces
<1>2. CASE target # Cpu
  <2> DEFINE uuid == Resolved(target, v, answers).uuid
  <2>1. target \in Nat /\ WantsGpu(target) /\ sh.device # Cpu
    BY <1>2 DEF WantsGpu, Cpu
  <2>2. uuid \in ToSet(Gpus) /\ answers = TRUE
    BY <2>1, ResolvedIsAGpu
  <2>3. uuid # NoDevice /\ uuid # "cpu" /\ uuid = Resolved(target, v, TRUE).uuid
    BY <2>2, GpusAreGpus
  <2> HIDE DEF uuid
  <2>4. sh.env.visible = OnlyGpu(uuid)
    BY <2>3 DEF LeasedEnvironment, uuid
  <2>5. CudaSees(OnlyGpu(uuid)) \in {<<>>, <<uuid>>}
    BY SeesOnlyIt
  <2> DEFINE seen == CudaSees(OnlyGpu(uuid))
  <2>6. on \in {seen[i] : i \in DOMAIN seen \cap {1}}
    BY <2>1, <2>4 DEF ProbePlaces
  <2>7. on = uuid
    <3> HIDE DEF seen
    <3>1. CASE seen = <<>>
      BY <2>6, <3>1
    <3>2. CASE seen = <<uuid>>
      BY <2>6, <3>2
    <3> QED BY <2>5, <3>1, <3>2 DEF seen
  <2> QED BY <1>2, <2>1, <2>3, <2>7
<1> QED BY <1>1, <1>2

\* Without a row that fails nothing that was named is left out.
LEMMA NothingLeftOut ==
    ASSUME AskOK, Named => exam.ask.installed \/ Told("package"),
           Named /\ exam.ask.installed => ComputedThere \/ Told("runtime"),
           exam.ask.model # "ready" \/ \E r \in RequestRows : r[1] = "load",
           findings' = findings \cup RequestRows, exam'.ask = exam.ask
    PROVE  Tried' \/ \E r \in findings' : r[2] = "fail"
<1> DEFINE ask == exam.ask
<1>1. \A name : <<name, "fail">> \in RequestRows \/ Told(name) => \E r \in findings' : r[2] = "fail"
  <2> SUFFICES ASSUME NEW name, <<name, "fail">> \in RequestRows \/ Told(name)
               PROVE  \E r \in findings' : r[2] = "fail"
    OBVIOUS
  <2>1. <<name, "fail">> \in findings' /\ <<name, "fail">>[2] = "fail"
    BY DEF Told
  <2> QED BY <2>1
<1>2. CASE ask.structure = "absent"
  <2>1. <<"structure", "fail">> \in RequestRows
    BY <1>2 DEF RequestRows
  <2> QED BY <1>1, <2>1
<1>3. CASE ask.model \in {"absent", "wrong"}
  <2>1. <<"model", "fail">> \in RequestRows
    BY <1>3 DEF RequestRows
  <2> QED BY <1>1, <2>1
<1>4. CASE ask.model = "none"
  <2>1. CASE ask.structure # "none"
    <3>1. <<"request", "fail">> \in RequestRows
      BY <1>4, <2>1 DEF RequestRows
    <3> QED BY <1>1, <3>1
  <2>2. CASE ask.structure = "none"
    BY <1>4, <2>2 DEF Tried
  <2> QED BY <2>1, <2>2
<1>5. CASE ask.model = "ready" /\ ask.structure # "absent"
  <2>1. CASE ask.engine = "auto" \/ ~ask.task
    <3>1. <<"load", "fail">> \in RequestRows
      BY <1>5, <2>1 DEF RequestRows
    <3> QED BY <1>1, <3>1
  <2>2. CASE ask.engine # "auto" /\ ask.task
    <3>1. PICK r \in RequestRows : r[1] = "load"
      BY <1>5
    <3>2. exam.runtime # "ok"
      BY <1>5, <2>2, <3>1 DEF RequestRows
    <3>3. Told("package") \/ Told("runtime")
      BY <2>2, <3>2 DEF ComputedThere, Named
    <3> QED BY <1>1, <3>3
  <2> QED BY <2>1, <2>2
<1>6. ask.model \in {"none", "absent", "wrong", "ready"}
  BY DEF AskOK, Questions
<1> QED BY <1>2, <1>3, <1>4, <1>5, <1>6

LEMMA ExamStep ==
    ASSUME ExamInv, MachineOK,
           DoctorNext \/ (DeviceNext /\ UNCHANGED doctorVars) \/ UNCHANGED <<deviceVars, doctorVars>>
    PROVE  ExamInv'
<1> USE DEF ExamInv
<1>1. CASE Survey /\ UNCHANGED deviceVars
  <2>1. exam.step = "new" /\ \E ask \in Questions, v \in Visibilities, answers \in BOOLEAN :
         LET seen == Detected(v, answers)
             target == IF ask.device # NoTarget THEN ask.device
                       ELSE IF ask.engine = "auto" THEN NoTarget
                       ELSE IF seen > 0 THEN 0 ELSE Cpu
         IN  /\ exam' = [exam EXCEPT !.step = "surveyed", !.ask = ask, !.target = target,
                                     !.env.visible = v, !.seen = seen]
             /\ findings' = SurveyRows(ask, target, seen)
    BY <1>1 DEF Survey
  <2>2. PICK ask \in Questions, v \in Visibilities, answers \in BOOLEAN :
         LET seen == Detected(v, answers)
             target == IF ask.device # NoTarget THEN ask.device
                       ELSE IF ask.engine = "auto" THEN NoTarget
                       ELSE IF seen > 0 THEN 0 ELSE Cpu
         IN  /\ exam' = [exam EXCEPT !.step = "surveyed", !.ask = ask, !.target = target,
                                     !.env.visible = v, !.seen = seen]
             /\ findings' = SurveyRows(ask, target, seen)
    BY <2>1, Zenon
  <2> DEFINE seen == Detected(v, answers)
             target == IF ask.device # NoTarget THEN ask.device
                       ELSE IF ask.engine = "auto" THEN NoTarget
                       ELSE IF seen > 0 THEN 0 ELSE Cpu
  <2>3. target \in Int /\ (ask.engine # "auto" => target >= Cpu)
    <3>1. ask.device = NoTarget \/ ask.device \in Cpu..Len(Gpus)
      BY DEF Questions
    <3>2. Len(Gpus) \in Nat
      BY DeviceAssumption, LenProperties
    <3> HIDE DEF seen
    <3> QED BY <3>1, <3>2 DEF NoTarget, Cpu
  <2> HIDE DEF seen, target
  <2>4. /\ exam' = [exam EXCEPT !.step = "surveyed", !.ask = ask, !.target = target,
                                !.env.visible = v, !.seen = seen]
        /\ findings' = SurveyRows(ask, target, seen)
    BY <2>2 DEF seen, target
  <2>5. /\ exam'.step = "surveyed" /\ exam'.ask = ask /\ exam'.target = target
        /\ exam'.env.visible = v /\ ExamOK'
    BY <2>4 DEF ExamOK
  <2>6. IsList(v.list)
    BY DeviceAssumption DEF IsList
  <2>7. AskOK'
    BY <2>3, <2>5, <2>6 DEF AskOK, Named
  <2>8. ask.engine # "auto" /\ ~ask.installed => <<"package", "fail">> \in findings'
    BY <2>4 DEF SurveyRows
  <2> QED BY <2>5, <2>7, <2>8 DEF ExamSteps, Probed, Told, Named
<1>2. CASE ProbeRuntime /\ UNCHANGED deviceVars
  <2>1. exam.step = "surveyed" /\ machine' = machine /\ AskOK
    BY <1>2 DEF ProbeRuntime, deviceVars, Surveyed
  <2>2. CASE ~Named \/ ~exam.ask.installed
    <3>1. exam' = [exam EXCEPT !.step = "probed"] /\ findings' = findings \cup {<<"runtime", "skip">>}
      BY <1>2, <2>2 DEF ProbeRuntime, ExamAt, Named
    <3>2. /\ exam'.step = "probed" /\ exam'.ask = exam.ask /\ exam'.env = exam.env
          /\ exam'.target = exam.target /\ ExamOK'
      BY <3>1 DEF ExamOK
    <3>3. findings \subseteq findings'
      BY <3>1
    <3> QED BY <2>1, <2>2, <3>2, <3>3, OnceTold DEF ExamSteps, Surveyed
  <2>3. CASE Named /\ exam.ask.installed
    <3>1. PICK answers \in BOOLEAN :
            LET sh == ProbeShell(answers) IN
              IF ~sh.ok THEN ExamAt("raised") /\ UNCHANGED findings
              ELSE \/ \E on \in ProbePlaces(sh) :
                        /\ exam' = [exam EXCEPT !.step = "probed", !.runtime = "ok", !.ran = on]
                        /\ findings' = findings \cup {<<"runtime", "ok">>}
                   \/ /\ exam' = [exam EXCEPT !.step = "probed", !.runtime = "failed"]
                      /\ findings' = findings \cup {<<"runtime", "fail">>}
      BY <1>2, <2>3 DEF ProbeRuntime, Named
    <3> DEFINE sh == ProbeShell(answers)
               found == Resolved(exam.target, exam.env.visible, answers)
    <3>2. CASE ~sh.ok
      BY <3>1, <3>2 DEF ExamAt, ExamOK, ExamSteps, Surveyed, Probed
    <3>3. ASSUME sh.ok, NEW on \in ProbePlaces(sh),
                 exam' = [exam EXCEPT !.step = "probed", !.runtime = "ok", !.ran = on],
                 findings' = findings \cup {<<"runtime", "ok">>}
          PROVE  ExamInv'
      <4>1. /\ exam'.step = "probed" /\ exam'.ask = exam.ask /\ exam'.env = exam.env
            /\ exam'.target = exam.target /\ exam'.runtime = "ok" /\ exam'.ran = on /\ ExamOK'
        BY <3>3 DEF ExamOK
      <4>2. /\ sh.device = IF WantsGpu(exam.target) THEN 0 ELSE Cpu
            /\ sh.env = LeasedEnvironment(found.uuid, exam.env) /\ found.ok
        BY <3>3 DEF ProbeShell
      <4>3. exam.target \in Int /\ exam.target >= Cpu /\ IsList(exam.env.visible.list)
        BY <2>1, <2>3 DEF AskOK
      <4> HIDE DEF sh
      <4>4. /\ (on = "cpu" <=> exam.target = Cpu)
            /\ WantsGpu(exam.target) => on = Resolved(exam.target, exam.env.visible, TRUE).uuid
        <5> DEFINE target == exam.target  v == exam.env.visible  e == exam.env
        <5>1. /\ target \in Int /\ target >= Cpu /\ IsList(v.list) /\ Resolved(target, v, answers).ok
              /\ on \in ProbePlaces(sh) /\ sh.device = IF WantsGpu(target) THEN 0 ELSE Cpu
              /\ sh.env = LeasedEnvironment(Resolved(target, v, answers).uuid, e)
          BY <3>3, <4>2, <4>3
        <5>2. /\ (on = "cpu" <=> target = Cpu)
              /\ WantsGpu(target) => on = Resolved(target, v, TRUE).uuid
          <6> HIDE DEF target, v, e, found
          <6> QED BY <5>1, ProbeIsThere
        <5> QED BY <5>2
      <4>5. \A d, v, a : Resolved(d, v, a)' = Resolved(d, v, a)
        BY <2>1 DEF Resolved, VisibleList
      <4>6. ComputedThere'
        BY <4>1, <4>4, <4>5 DEF ComputedThere
      <4>7. findings \subseteq findings'
        BY <3>3
      <4> QED BY <2>1, <4>1, <4>6, <4>7, OnceTold DEF ExamSteps, Surveyed
    <3>4. ASSUME exam' = [exam EXCEPT !.step = "probed", !.runtime = "failed"],
                 findings' = findings \cup {<<"runtime", "fail">>}
          PROVE  ExamInv'
      <4>1. /\ exam'.step = "probed" /\ exam'.ask = exam.ask /\ exam'.env = exam.env
            /\ exam'.target = exam.target /\ ExamOK'
        BY <3>4 DEF ExamOK
      <4>2. findings \subseteq findings' /\ Told("runtime")'
        BY <3>4 DEF Told
      <4> QED BY <2>1, <4>1, <4>2, OnceTold DEF ExamSteps, Surveyed
    <3> HIDE DEF sh
    <3>5. CASE sh.ok
      <4>1. \/ \E on \in ProbePlaces(sh) :
                   /\ exam' = [exam EXCEPT !.step = "probed", !.runtime = "ok", !.ran = on]
                   /\ findings' = findings \cup {<<"runtime", "ok">>}
            \/ /\ exam' = [exam EXCEPT !.step = "probed", !.runtime = "failed"]
               /\ findings' = findings \cup {<<"runtime", "fail">>}
        BY <3>1, <3>5, Zenon DEF sh
      <4> QED BY <3>3, <3>4, <3>5, <4>1, Zenon
    <3> QED BY <3>2, <3>5 DEF sh
  <2> QED BY <2>2, <2>3
<1>3. CASE JudgeCuda /\ UNCHANGED deviceVars
  <2>1. /\ exam.step = "probed" /\ findings \subseteq findings' /\ machine' = machine
        /\ exam' = [exam EXCEPT !.step = "judged"]
    BY <1>3 DEF JudgeCuda, ExamAt, deviceVars
  <2>2. /\ exam'.step = "judged" /\ exam'.ask = exam.ask /\ exam'.env = exam.env
        /\ exam'.target = exam.target /\ exam'.runtime = exam.runtime /\ exam'.ran = exam.ran /\ ExamOK'
    BY <2>1 DEF ExamOK
  <2> QED BY <2>1, <2>2, OnceTold DEF ExamSteps, Surveyed, Probed
<1>4. CASE ProbeModel /\ UNCHANGED deviceVars
  <2>1. exam.step = "judged" /\ machine' = machine /\ AskOK
    BY <1>4 DEF ProbeModel, deviceVars, Surveyed
  \* A step to the end: what it found and that it tried.
  <2>2. ASSUME exam'.step = "done", exam'.ask = exam.ask, exam'.env = exam.env,
               exam'.target = exam.target, exam'.runtime = exam.runtime, exam'.ran = exam.ran, ExamOK',
               findings \subseteq findings', Tried' \/ \E r \in findings' : r[2] = "fail"
        PROVE  ExamInv'
    BY <2>1, <2>2, OnceTold DEF ExamSteps, Surveyed, Probed
  <2>3. CASE exam.ask.model # "ready" \/ \E r \in RequestRows : r[1] = "load"
    <3>1. exam' = [exam EXCEPT !.step = "done"] /\ findings' = findings \cup RequestRows
      BY <1>4, <2>3 DEF ProbeModel, ExamAt
    <3>2. /\ exam'.step = "done" /\ exam'.ask = exam.ask /\ exam'.env = exam.env
          /\ exam'.target = exam.target /\ exam'.runtime = exam.runtime /\ exam'.ran = exam.ran
          /\ exam'.model = exam.model /\ ExamOK'
      BY <3>1 DEF ExamOK
    <3>3. Tried' \/ \E r \in findings' : r[2] = "fail"
      BY <2>1, <2>3, <3>1, <3>2, NothingLeftOut DEF Surveyed, Probed
    <3> QED BY <2>2, <3>1, <3>2, <3>3
  <2>4. CASE exam.ask.model = "ready" /\ ~\E r \in RequestRows : r[1] = "load"
    <3>1. PICK answers \in BOOLEAN :
             LET sh == ProbeShell(answers) IN
              IF ~sh.ok THEN ExamAt("raised") /\ UNCHANGED findings
              ELSE \/ \E on \in ModelPlaces(sh) :
                        /\ exam' = [exam EXCEPT !.step = "done", !.loaded = on, !.model =
                                IF exam.ask.structure = "ready" THEN "evaluated" ELSE "loaded"]
                        /\ findings' = findings \cup RequestRows \cup {<<"load", "ok">>}
                   \/ ExamAt("done") /\ findings' = findings \cup RequestRows \cup {<<"load", "fail">>}
      BY <1>4, <2>4 DEF ProbeModel
    <3>2. CASE ExamAt("raised")
      BY <3>2 DEF ExamAt, ExamOK, ExamSteps, Surveyed, Probed
    <3>3. ASSUME NEW on, exam' = [exam EXCEPT !.step = "done", !.loaded = on, !.model =
                           IF exam.ask.structure = "ready" THEN "evaluated" ELSE "loaded"],
                 findings' = findings \cup RequestRows \cup {<<"load", "ok">>}
          PROVE  ExamInv'
      <4>1. /\ exam'.step = "done" /\ exam'.ask = exam.ask /\ exam'.env = exam.env
            /\ exam'.target = exam.target /\ exam'.runtime = exam.runtime /\ exam'.ran = exam.ran
            /\ exam'.model = (IF exam.ask.structure = "ready" THEN "evaluated" ELSE "loaded") /\ ExamOK'
        BY <3>3 DEF ExamOK
      <4>2. exam.ask.structure # "absent"
        <5> SUFFICES ASSUME exam.ask.structure = "absent" PROVE FALSE
          OBVIOUS
        <5>1. \E load \in {<<"load", "fail">>, <<"load", "skip">>} : load \in RequestRows
          BY <2>4 DEF RequestRows
        <5>2. PICK load \in {<<"load", "fail">>, <<"load", "skip">>} : load \in RequestRows
          BY <5>1
        <5>3. load[1] = "load"
          OBVIOUS
        <5> QED BY <2>4, <5>2, <5>3
      <4>3. exam.ask.structure \in {"none", "absent", "ready"}
        BY <2>1 DEF AskOK, Questions
      <4>4. Tried'
        BY <4>1, <4>2, <4>3 DEF Tried
      <4>5. findings \subseteq findings'
        BY <3>3
      <4> QED BY <2>2, <4>1, <4>4, <4>5
    <3>4. ASSUME ExamAt("done"), findings' = findings \cup RequestRows \cup {<<"load", "fail">>}
          PROVE  ExamInv'
      <4>1. /\ exam'.step = "done" /\ exam'.ask = exam.ask /\ exam'.env = exam.env
            /\ exam'.target = exam.target /\ exam'.runtime = exam.runtime /\ exam'.ran = exam.ran /\ ExamOK'
        BY <3>4 DEF ExamAt, ExamOK
      <4>2. findings \subseteq findings' /\ <<"load", "fail">> \in findings' /\ <<"load", "fail">>[2] = "fail"
        BY <3>4
      <4>3. \E r \in findings' : r[2] = "fail"
        BY <4>2
      <4> QED BY <2>2, <4>1, <4>2, <4>3
    <3> QED BY <3>1, <3>2, <3>3, <3>4, Zenon
  <2> QED BY <2>3, <2>4
<1>5. CASE Conclude /\ UNCHANGED deviceVars
  <2>1. /\ exam.step = "done" /\ findings' = findings /\ machine' = machine
        /\ exam' = [exam EXCEPT !.step = IF \E r \in findings : r[2] = "fail" THEN "unhealthy" ELSE "healthy"]
    BY <1>5 DEF Conclude, ExamAt, deviceVars
  <2>2. /\ exam'.step = IF \E r \in findings : r[2] = "fail" THEN "unhealthy" ELSE "healthy"
        /\ exam'.ask = exam.ask /\ exam'.env = exam.env /\ exam'.model = exam.model
        /\ exam'.target = exam.target /\ exam'.runtime = exam.runtime /\ exam'.ran = exam.ran /\ ExamOK'
    BY <2>1 DEF ExamOK
  <2>3. Tried \/ \E r \in findings : r[2] = "fail"
    BY <2>1
  <2>4. Tried' <=> Tried
    BY <2>2 DEF Tried
  <2> QED BY <2>1, <2>2, <2>3, <2>4, OnceTold DEF ExamSteps, Surveyed, Probed
<1>6. ASSUME machine' = machine \/ ~AllWork', UNCHANGED doctorVars
      PROVE  ExamInv'
  <2>1. exam' = exam /\ findings' = findings
    BY <1>6 DEF doctorVars
  <2>2. Tried' <=> Tried
    BY <2>1 DEF Tried
  <2>3. ExamOK'
    BY <2>1 DEF ExamOK
  <2> QED BY <1>6, <2>1, <2>2, <2>3, OnceTold
<1>7. LoseGpu => ~AllWork'
  BY LosingKeepsTheMachine
<1>8. DeviceNext \/ UNCHANGED deviceVars => machine' = machine \/ LoseGpu
  BY DEF DeviceNext, deviceVars, AskForDevice, LeaseDevice, IsolateWorker, RestartIsolated, LoadBackend,
         ConfirmDevice
<1> QED BY <1>1, <1>2, <1>3, <1>4, <1>5, <1>6, <1>7, <1>8 DEF DoctorNext, doctorVars

\* What a calculation reports of its device and what doctor certifies is true, for any
\* GPUs in any order, any visibility, and whatever fails on the way (verify_runtime_uuid,
\* run_doctor).
THEOREM DevicesSafety ==
    DeviceInit /\ DoctorInit
    /\ [][DoctorNext \/ (DeviceNext /\ UNCHANGED doctorVars)]_<<deviceVars, doctorVars>>
        => []DevicesAreTrue
<1> DEFINE Step == DoctorNext \/ (DeviceNext /\ UNCHANGED doctorVars)
           All == DeviceInv /\ ReportInv /\ ExamInv
<1>1. DeviceInit /\ DoctorInit => All
  BY InitKeeps, ReportInit, ExamInit
<1>2. ASSUME All, [Step]_<<deviceVars, doctorVars>> PROVE All'
  <2>1. [DeviceNext]_deviceVars
    BY <1>2 DEF DoctorNext, DeviceNext
  <2>2. MachineOK
    BY <1>2 DEF ReportInv
  <2> QED BY <1>2, <2>1, <2>2, NextKeeps, ReportStep, ExamStep
<1>3. All => DevicesAreTrue
  <2>1. DeviceInv /\ ReportInv => RunsWhereItSays
    BY DEF DeviceInv, ReportInv, RunsWhereItSays
  <2>2. ExamInv => HealthIsTested
    <3> SUFFICES ASSUME ExamInv, exam.step = "healthy" PROVE HealthIsTested
      BY DEF HealthIsTested
    <3>1. \A name : ~Told(name)
      <4> SUFFICES ASSUME NEW name, Told(name) PROVE FALSE
        OBVIOUS
      <4>1. <<name, "fail">> \in findings /\ <<name, "fail">>[2] = "fail"
        BY DEF Told
      <4> QED BY <4>1 DEF ExamInv
    <3>2. Tried /\ (Named => ComputedThere)
      BY <3>1 DEF ExamInv, Surveyed, Probed
    <3> QED BY <3>2 DEF HealthIsTested, Tried, Named, ComputedThere, AllWork
  <2> QED BY <2>1, <2>2 DEF DevicesAreTrue
<1> HIDE DEF All
<1> QED BY <1>1, <1>2, <1>3, PTL

-------------------------------------------------------------------------------
(* The types of devices *)

\* Both lists of the machine have the same GPUs, each of them once.
MachineLists ==
    /\ machine.smi \in Seq(ToSet(Gpus)) /\ IsInjective(machine.smi)
    /\ machine.cuda \in Seq(ToSet(Gpus)) /\ IsInjective(machine.cuda)
    /\ ToSet(machine.smi) = ToSet(machine.cuda)

\* A list without one of its places lacks the element that was there, and no other.
LEMMA WithoutOne ==
    ASSUME NEW S, NEW s \in Seq(S), IsInjective(s), NEW i \in DOMAIN s
    PROVE  /\ RemoveAt(s, i) \in Seq(S) /\ IsInjective(RemoveAt(s, i))
           /\ ToSet(RemoveAt(s, i)) = ToSet(s) \ {s[i]}
<1> DEFINE n == Len(s)
           t == RemoveAt(s, i)
           At(k) == IF k < i THEN k ELSE k + 1
<1>1. n \in Nat /\ DOMAIN s = 1..n /\ i \in 1..n /\ \A k \in 1..n : s[k] \in S
  BY LenProperties, ElementOfSeq
<1>2. t \in Seq(S) /\ Len(t) = n - 1 /\ \A k \in 1..(n - 1) : t[k] = s[At(k)]
  <2> DEFINE a == SubSeq(s, 1, i - 1)  b == SubSeq(s, i + 1, n)
  <2>1. /\ a \in Seq(S) /\ Len(a) = i - 1 /\ \A k \in 1..(i - 1) : a[k] = s[k]
        /\ b \in Seq(S) /\ Len(b) = n - i /\ \A k \in 1..(n - i) : b[k] = s[i + k]
    <3>1. \A k \in 1..(i - 1) : s[k] \in S
      BY <1>1
    <3>2. a \in Seq(S) /\ Len(a) = i - 1 /\ \A k \in 1..(i - 1) : a[k] = s[k]
      <4> HIDE DEF n
      <4> QED BY <1>1, <3>1
    <3>3. b \in Seq(S) /\ Len(b) = n - i /\ \A k \in 1..(n - i) : b[k] = s[i + k]
      <4>1. \A k \in 1..(n - i) : i + k \in 1..n /\ s[i + k] \in S /\ (i + 1) + k - 1 = i + k
        BY <1>1
      <4> HIDE DEF n
      <4>2. n - (i + 1) + 1 = n - i /\ n - i \in Nat
        BY <1>1
      <4> QED BY <1>1, <4>1, <4>2
    <3> QED BY <3>2, <3>3
  <2>2. t = a \o b
    BY DEF RemoveAt
  <2> HIDE DEF a, b, t, n
  <2>3. t \in Seq(S) /\ Len(t) = n - 1
    <3>1. a \o b \in Seq(S) /\ Len(a \o b) = Len(a) + Len(b)
      BY <2>1, ConcatProperties
    <3> QED BY <1>1, <2>1, <2>2, <3>1
  <2>4. ASSUME NEW k \in 1..(n - 1) PROVE t[k] = s[At(k)]
    <3>1. t[k] = IF k <= Len(a) THEN a[k] ELSE b[k - Len(a)]
      BY <1>1, <2>1, <2>2
    <3>2. CASE k < i
      BY <1>1, <2>1, <3>1, <3>2
    <3>3. CASE k >= i
      <4>1. k - (i - 1) \in 1..(n - i) /\ i + (k - (i - 1)) = k + 1
        BY <1>1, <3>3
      <4>2. t[k] = b[k - (i - 1)]
        BY <1>1, <2>1, <3>1, <3>3
      <4>3. b[k - (i - 1)] = s[i + (k - (i - 1))]
        BY <2>1, <4>1
      <4> QED BY <1>1, <3>3, <4>1, <4>2, <4>3
    <3> QED BY <1>1, <3>2, <3>3
  <2> QED BY <2>3, <2>4
<1>3. DOMAIN t = 1..(n - 1)
  BY <1>2, LenProperties
<1>4. \A k, l \in 1..n : s[k] = s[l] => k = l
  BY <1>1 DEF IsInjective
<1>5. \A k \in 1..(n - 1) : At(k) \in 1..n /\ At(k) # i
  BY <1>1
<1>6. \A k, l \in 1..(n - 1) : At(k) = At(l) => k = l
  BY <1>1
<1>7. \A m \in 1..n : m # i => \E k \in 1..(n - 1) : At(k) = m
  <2> SUFFICES ASSUME NEW m \in 1..n, m # i PROVE \E k \in 1..(n - 1) : At(k) = m
    OBVIOUS
  <2>1. CASE m < i
    <3>1. m \in 1..(n - 1) /\ At(m) = m
      BY <1>1, <2>1
    <3> QED BY <3>1
  <2>2. CASE m > i
    <3>1. m - 1 \in 1..(n - 1) /\ At(m - 1) = m
      BY <1>1, <2>2
    <3> QED BY <3>1
  <2> QED BY <1>1, <2>1, <2>2
<1> HIDE DEF At, t, n
<1>8. IsInjective(t)
  BY <1>2, <1>3, <1>4, <1>5, <1>6 DEF IsInjective
<1>9. \A k \in 1..(n - 1) : t[k] \in ToSet(s) \ {s[i]}
  BY <1>1, <1>2, <1>4, <1>5 DEF ToSet
<1>10. \A m \in 1..n : s[m] # s[i] => s[m] \in ToSet(t)
  BY <1>1, <1>2, <1>3, <1>7 DEF ToSet
<1>11. ToSet(t) = ToSet(s) \ {s[i]}
  BY <1>1, <1>3, <1>9, <1>10 DEF ToSet
<1> QED BY <1>2, <1>8, <1>11 DEF t

\* The runtime counts all GPUs in the beginning.
LEMMA AllAreCounted ==
    ASSUME NEW p \in [1..Len(Gpus) -> ToSet(Gpus)], IsInjective(p)
    PROVE  p \in Seq(ToSet(Gpus)) /\ ToSet(p) = ToSet(Gpus)
<1> DEFINE n == Len(Gpus)  G == ToSet(Gpus)
<1>1. n \in Nat /\ DOMAIN Gpus = 1..n /\ Gpus \in [1..n -> G] /\ IsInjective(Gpus)
  BY DeviceAssumption, LenProperties
<1>2. G = {Gpus[i] : i \in 1..n}
  BY <1>1 DEF ToSet
<1> HIDE DEF n, G
<1>3. IsFiniteSet(1..n) /\ Cardinality(1..n) = n
  BY <1>1, FS_Interval
<1>4. Gpus \in Surjection(1..n, G) /\ Gpus \in Injection(1..n, G)
  BY <1>1, <1>2 DEF Surjection, Injection, IsInjective
<1>5. IsFiniteSet(G) /\ Cardinality(G) = n
  BY <1>3, <1>4, FS_Surjection
<1>6. p \in Injection(1..n, G)
  BY DEF Injection, n, G
<1>7. p \in Surjection(1..n, G)
  BY <1>3, <1>5, <1>6, FS_Injection
<1>8. p \in [1..n -> G] /\ \A g \in G : \E i \in 1..n : p[i] = g
  BY <1>7 DEF Surjection
<1>9. ToSet(p) = G
  BY <1>8 DEF ToSet
<1>10. p \in Seq(G)
  BY <1>1, <1>8, SeqDef
<1> QED BY <1>9, <1>10 DEF G

\* A set of numbers up to n that is not empty has a greatest one.
LEMMA GreatestUpTo ==
    ASSUME NEW n \in Nat, NEW S \in SUBSET (0..n), S # {}
    PROVE  \E m \in S : \A k \in S : m >= k
<1> DEFINE T == {n - k : k \in S}
           R == {ss \in Nat \X Nat : ss[1] < ss[2]}
<1>1. T \in SUBSET Nat /\ T # {}
  <2>1. \A k \in S : n - k \in Nat
    OBVIOUS
  <2> QED BY <2>1
<1>2. IsWellFoundedOn(R, Nat)
  BY NatLessThanWellFounded DEF OpToRel
<1>3. PICK t \in T : \A u \in T : ~ (<<u, t>> \in R)
  <2> HIDE DEF R, T
  <2> QED BY <1>1, <1>2, WFMin
<1>4. PICK m \in S : t = n - m
  OBVIOUS
<1>5. ASSUME NEW k \in S PROVE m >= k
  <2>1. n - k \in T /\ n - k \in Nat /\ n - m \in Nat
    OBVIOUS
  <2>2. ~ (<<n - k, n - m>> \in R)
    BY <1>3, <1>4, <2>1
  <2>3. CASE m < k
    <3>1. n - k < n - m
      BY <2>3
    <3>2. <<n - k, n - m>> \in R
      BY <2>1, <3>1
    <3> QED BY <2>2, <3>2
  <2> QED BY <2>3
<1> QED BY <1>5

\* What the runtime lets a process see are GPUs of the machine, in a list.
LEMMA SeenAreGpus ==
    ASSUME MachineLists, NEW v, IsList(v.list)
    PROVE  CudaSees(v) \in Seq(ToSet(Gpus))
<1> DEFINE n == Max(UsableTo(v))
           w == FirstOf(v, n)
<1>1. CASE ~v.set
  BY <1>1 DEF CudaSees, MachineLists
<1>2. CASE v.set
  <2>1. Len(v.list) \in Nat /\ v.list \in Seq(ToSet(v.list))
    BY LenProperties DEF IsList
  <2>2. 0 \in UsableTo(v)
    <3>1. FirstOf(v, 0).list = <<>>
      BY <2>1 DEF FirstOf
    <3>2. DOMAIN FirstOf(v, 0).list = {}
      BY <3>1
    <3>3. Unambiguous(FirstOf(v, 0), machine.cuda)
      BY <3>2 DEF Unambiguous, ReadsAs, IsInjective
    <3> QED BY <2>1, <3>3 DEF UsableTo
  <2>3. n \in UsableTo(v) /\ n \in 0..Len(v.list)
    <3> DEFINE U == UsableTo(v)
    <3>1. U \subseteq 0..Len(v.list)
      BY DEF UsableTo
    <3> HIDE DEF U
    <3>2. \E m \in U : \A k \in U : m >= k
      BY <2>1, <2>2, <3>1, GreatestUpTo DEF U
    <3>3. Max(U) \in U
      BY <3>2 DEF Max
    <3> QED BY <3>1, <3>3 DEF U
  <2> HIDE DEF n
  <2>4. w.list \in Seq(ToSet(v.list)) /\ Len(w.list) = n /\ DOMAIN w.list = 1..n /\ n \in Nat
    <3>1. w.list = SubSeq(v.list, 1, n)
      BY DEF FirstOf
    <3> HIDE DEF w
    <3>2. w.list \in Seq(ToSet(v.list)) /\ Len(w.list) = n
      BY <2>1, <2>3, <3>1
    <3> QED BY <2>1, <2>3, <3>2, LenProperties
  <2>5. Unambiguous(w, machine.cuda)
    BY <2>3 DEF UsableTo
  <2> HIDE DEF w
  <2>6. ASSUME NEW i \in 1..n PROVE ReadsAs(w, machine.cuda)[i] \in ToSet(machine.cuda)
    <3> DEFINE S == Selects(w.list[i], machine.cuda)
    <3>1. Cardinality(S) = 1
      BY <2>4, <2>5 DEF Unambiguous
    <3>2. S \subseteq ToSet(machine.cuda)
      BY DEF Selects, ToSet
    <3>3. ReadsAs(w, machine.cuda)[i] = CHOOSE g \in S : TRUE
      BY <2>4 DEF ReadsAs
    <3> HIDE DEF S
    <3>4. S # {}
      BY <3>1, FS_EmptySet
    <3> QED BY <3>2, <3>3, <3>4
  <2>7. ToSet(machine.cuda) \subseteq ToSet(Gpus)
    BY ElementOfSeq, LenProperties DEF MachineLists, ToSet
  <2>8. DOMAIN ReadsAs(w, machine.cuda) = 1..n /\ ReadsAs(w, machine.cuda) = [i \in 1..n |-> ReadsAs(w, machine.cuda)[i]]
    BY <2>4 DEF ReadsAs
  <2> DEFINE f == ReadsAs(w, machine.cuda)
  <2> HIDE DEF f
  <2>9. f \in [1..n -> ToSet(Gpus)]
    BY <2>6, <2>7, <2>8 DEF f
  <2>10. f \in Seq(ToSet(Gpus))
    BY <2>4, <2>9, SeqDef
  <2>11. CudaSees(v) = f
    BY <1>2 DEF CudaSees, f, w, n
  <2> QED BY <2>10, <2>11
<1> QED BY <1>1, <1>2

\* A model is put on the CPU or on a GPU of the machine.
LEMMA PlacesAreGpus ==
    ASSUME MachineLists, NEW kind \in Kinds, NEW device \in Int, device >= Cpu,
           NEW e, IsList(e.visible.list), NEW on \in PlacesOf(kind, device, e)
    PROVE  on \in {"cpu"} \cup ToSet(Gpus)
<1> DEFINE seen == CudaSees(e.visible)
<1>1. seen \in Seq(ToSet(Gpus)) /\ Len(seen) \in Nat
  BY SeenAreGpus, LenProperties
<1>2. CASE device = Cpu
  BY <1>2 DEF PlacesOf
<1>3. CASE device # Cpu
  <2>1. device \in Nat
    BY <1>3 DEF Cpu
  <2>2. on = "cpu" \/ (device < Len(seen) /\ on = seen[device + 1]) \/ (seen # <<>> /\ on = seen[1])
    <3> HIDE DEF seen
    <3> QED BY <1>3 DEF PlacesOf, Kinds, seen
  <2> HIDE DEF seen
  <2>3. CASE device < Len(seen) /\ on = seen[device + 1]
    <3>1. device + 1 \in 1..Len(seen)
      BY <1>1, <2>1, <2>3
    <3> QED BY <1>1, <2>3, <3>1, ElementOfSeq
  <2>4. CASE seen # <<>> /\ on = seen[1]
    <3>1. 1 \in 1..Len(seen)
      BY <1>1, <2>4
    <3> QED BY <1>1, <2>4, <3>1, ElementOfSeq
  <2> QED BY <2>2, <2>3, <2>4
<1> QED BY <1>2, <1>3

DeviceSteps == {"new", "queued", "leased", "started", "computing", "reported", "failed", "unisolated"}

DeviceTypes ==
    /\ MachineLists
    /\ wanted.on \in {NoDevice, "cpu"} \cup ToSet(Gpus)
    /\ wanted.step \in DeviceSteps

LEMMA DeviceTypesInit == DeviceInit => DeviceTypes
<1> SUFFICES ASSUME DeviceInit PROVE DeviceTypes
  OBVIOUS
<1>1. /\ machine.smi = Gpus
      /\ machine.cuda \in [1..Len(Gpus) -> ToSet(Gpus)] /\ IsInjective(machine.cuda)
  BY DEF DeviceInit
<1>2. machine.cuda \in Seq(ToSet(Gpus)) /\ ToSet(machine.cuda) = ToSet(Gpus)
  BY <1>1, AllAreCounted
<1>3. MachineLists
  BY <1>1, <1>2, DeviceAssumption DEF MachineLists
<1>4. wanted.on = NoDevice /\ wanted.step = "new"
  BY DEF DeviceInit, NoRequest
<1> QED BY <1>3, <1>4 DEF DeviceTypes, DeviceSteps

\* A GPU that fails leaves both lists with the same GPUs.
LEMMA LosingKeepsTheLists ==
    ASSUME MachineLists, LoseGpu
    PROVE  MachineLists'
<1>1. PICK i \in DOMAIN machine.smi, j \in DOMAIN machine.cuda :
        /\ machine.smi[i] = machine.cuda[j]
        /\ machine' = [smi |-> RemoveAt(machine.smi, i), cuda |-> RemoveAt(machine.cuda, j)]
  BY DEF LoseGpu
<1> DEFINE s == machine.smi  c == machine.cuda  G == ToSet(Gpus)
<1>2. /\ s \in Seq(G) /\ IsInjective(s) /\ c \in Seq(G) /\ IsInjective(c) /\ ToSet(s) = ToSet(c)
      /\ i \in DOMAIN s /\ j \in DOMAIN c /\ s[i] = c[j]
  BY <1>1 DEF MachineLists
<1>3. machine'.smi = RemoveAt(s, i) /\ machine'.cuda = RemoveAt(c, j)
  BY <1>1
<1> HIDE DEF s, c, G
<1>4. /\ RemoveAt(s, i) \in Seq(G) /\ IsInjective(RemoveAt(s, i))
      /\ ToSet(RemoveAt(s, i)) = ToSet(s) \ {s[i]}
  BY <1>2, WithoutOne
<1>5. /\ RemoveAt(c, j) \in Seq(G) /\ IsInjective(RemoveAt(c, j))
      /\ ToSet(RemoveAt(c, j)) = ToSet(c) \ {c[j]}
  BY <1>2, WithoutOne
<1> QED BY <1>2, <1>3, <1>4, <1>5 DEF MachineLists, G

LEMMA DeviceTypesStep ==
    ASSUME DeviceInv, ReportInv, DeviceTypes, [DeviceNext]_deviceVars
    PROVE  DeviceTypes'
<1> USE DEF DeviceTypes
<1> ShellsAreRecords
  BY DEF DeviceInv
<1>1. CASE AskForDevice
  BY <1>1 DEF AskForDevice, NoRequest, MachineLists, DeviceSteps
<1>2. CASE LeaseDevice
  BY <1>2 DEF LeaseDevice, ShellsAreRecords, MachineLists, DeviceSteps
<1>3. CASE IsolateWorker
  BY <1>3 DEF IsolateWorker, Proceed, ShellsAreRecords, MachineLists, DeviceSteps
<1>4. CASE RestartIsolated
  BY <1>4 DEF RestartIsolated, Proceed, ShellsAreRecords, MachineLists, DeviceSteps
<1>5. CASE LoadBackend
  <2>1. CASE Proceed("unisolated") \/ Proceed("failed")
    BY <1>5, <2>1 DEF LoadBackend, Proceed, ShellsAreRecords, MachineLists, DeviceSteps
  <2>2. ASSUME NEW on \in PlacesOf(wanted.kind, shell.device, shell.env),
               wanted' = [wanted EXCEPT !.step = "computing", !.on = on]
        PROVE  DeviceTypes'
    <3>1. /\ wanted.kind \in Kinds /\ shell.device \in Int /\ shell.device >= Cpu
          /\ IsList(shell.env.visible.list) /\ machine' = machine
      BY <1>5 DEF LoadBackend, DeviceInv, ReportInv
    <3>2. on \in {"cpu"} \cup ToSet(Gpus)
      <4> DEFINE kind == wanted.kind  device == shell.device  e == shell.env
      <4>1. /\ kind \in Kinds /\ device \in Int /\ device >= Cpu /\ IsList(e.visible.list)
            /\ on \in PlacesOf(kind, device, e)
        BY <2>2, <3>1
      <4> HIDE DEF kind, device, e
      <4> QED BY <4>1, PlacesAreGpus
    <3>3. wanted'.on = on /\ wanted'.step = "computing"
      BY <2>2 DEF ShellsAreRecords
    <3> QED BY <3>1, <3>2, <3>3 DEF MachineLists, DeviceSteps
  <2> QED BY <1>5, <2>1, <2>2 DEF LoadBackend
<1>6. CASE ConfirmDevice
  BY <1>6 DEF ConfirmDevice, ShellsAreRecords, MachineLists, DeviceSteps
<1>7. CASE LoseGpu
  <2>1. MachineLists' /\ UNCHANGED <<wanted, shell>>
    BY <1>7, LosingKeepsTheLists DEF LoseGpu
  <2> QED BY <2>1
<1>8. CASE UNCHANGED deviceVars
  BY <1>8 DEF deviceVars, MachineLists
<1> QED BY <1>1, <1>2, <1>3, <1>4, <1>5, <1>6, <1>7, <1>8 DEF DeviceNext

\* The type invariant of the devices follows.
LEMMA DeviceTypesHold == DeviceTypes => DeviceTypeOK
<1> SUFFICES ASSUME DeviceTypes PROVE DeviceTypeOK
  OBVIOUS
<1>1. ToSet(machine.smi) \subseteq ToSet(Gpus)
  <2> DEFINE G == ToSet(Gpus)  s == machine.smi
  <2>1. s \in Seq(G)
    BY DEF DeviceTypes, MachineLists
  <2>2. ToSet(s) = {s[i] : i \in DOMAIN s}
    BY DEF ToSet
  <2> HIDE DEF G, s
  <2>3. \A i \in DOMAIN s : s[i] \in G
    BY <2>1, ElementOfSeq, LenProperties
  <2> QED BY <2>2, <2>3 DEF G, s
<1> QED BY <1>1 DEF DeviceTypes, DeviceSteps, MachineLists, DeviceTypeOK

\* Both lists have the same GPUs of the machine, whichever fail, and a calculation is
\* nowhere, on the CPU or on a GPU of the machine.
THEOREM DeviceTypesCorrect == DeviceSpec => []DeviceTypeOK
<1> DEFINE All == DeviceInv /\ ReportInv /\ DeviceTypes
<1>1. DeviceInit => All
  BY InitKeeps, ReportInit, DeviceTypesInit
<1>2. All /\ [DeviceNext]_deviceVars => All'
  BY NextKeeps, ReportStep, DeviceTypesStep
<1>3. All => DeviceTypeOK
  BY DeviceTypesHold
<1> HIDE DEF All
<1> QED BY <1>1, <1>2, <1>3, PTL DEF DeviceSpec

-------------------------------------------------------------------------------
(* The types of doctor *)

ProbeRan == exam.ran \in {NoDevice, "cpu"} \cup ToSet(Gpus)

LEMMA ProbeRanInit == DoctorInit => ProbeRan
BY DEF DoctorInit, NoExam, ProbeRan

LEMMA ProbeRanStep ==
    ASSUME ExamInv, DeviceTypes, ProbeRan,
           DoctorNext \/ (DeviceNext /\ UNCHANGED doctorVars) \/ UNCHANGED <<deviceVars, doctorVars>>
    PROVE  ProbeRan'
<1> USE DEF ProbeRan
<1> ExamOK
  BY DEF ExamInv
<1>1. CASE Survey
  BY <1>1 DEF Survey, ExamOK
<1>2. CASE ProbeRuntime
  <2>1. ASSUME NEW answers \in BOOLEAN, NEW on \in ProbePlaces(ProbeShell(answers))
        PROVE  on \in {"cpu"} \cup ToSet(Gpus)
    <3> DEFINE sh == ProbeShell(answers)  seen == CudaSees(sh.env.visible)
               uuid == Resolved(exam.target, exam.env.visible, answers).uuid
    <3>1. sh.env.visible = IF uuid = NoDevice THEN NoGpu ELSE OnlyGpu(uuid)
      BY DEF ProbeShell, LeasedEnvironment
    <3>2. IsList(sh.env.visible.list)
      <4> HIDE DEF sh, uuid
      <4> QED BY <3>1, ListsOfAProcess
    <3>3. seen \in Seq(ToSet(Gpus))
      <4> HIDE DEF sh
      <4> QED BY <3>2, SeenAreGpus DEF DeviceTypes
    <3>4. on \in IF sh.device = Cpu THEN {"cpu"} ELSE {seen[i] : i \in DOMAIN seen \cap {1}}
      BY DEF ProbePlaces
    <3> HIDE DEF sh, seen
    <3>5. \A i \in DOMAIN seen : seen[i] \in ToSet(Gpus)
      BY <3>3, ElementOfSeq, LenProperties
    <3> QED BY <3>4, <3>5
  <2>2. \/ exam'.ran = exam.ran
        \/ \E answers \in BOOLEAN : \E on \in ProbePlaces(ProbeShell(answers)) : exam'.ran = on
    BY <1>2 DEF ProbeRuntime, ExamAt, ExamOK
  <2> QED BY <2>1, <2>2
<1>3. CASE JudgeCuda
  BY <1>3 DEF JudgeCuda, ExamAt, ExamOK
<1>4. CASE ProbeModel
  BY <1>4 DEF ProbeModel, ExamAt, ExamOK
<1>5. CASE Conclude
  BY <1>5 DEF Conclude, ExamAt, ExamOK
<1>6. CASE UNCHANGED doctorVars
  BY <1>6 DEF doctorVars
<1> QED BY <1>1, <1>2, <1>3, <1>4, <1>5, <1>6 DEF DoctorNext, doctorVars

\* A probe of doctor computed nowhere, on the CPU or on a GPU of the machine.
THEOREM DoctorTypesCorrect ==
    DeviceInit /\ DoctorInit
    /\ [][DoctorNext \/ (DeviceNext /\ UNCHANGED doctorVars)]_<<deviceVars, doctorVars>>
        => [](DeviceTypeOK /\ DoctorTypeOK)
<1> DEFINE Step == DoctorNext \/ (DeviceNext /\ UNCHANGED doctorVars)
           All == DeviceInv /\ ReportInv /\ ExamInv /\ DeviceTypes /\ ProbeRan
           Good == DeviceTypeOK /\ DoctorTypeOK
<1>1. DeviceInit /\ DoctorInit => All
  BY InitKeeps, ReportInit, ExamInit, DeviceTypesInit, ProbeRanInit
<1>2. ASSUME All, [Step]_<<deviceVars, doctorVars>> PROVE All'
  <2>1. [DeviceNext]_deviceVars
    BY <1>2 DEF DoctorNext, DeviceNext
  <2>2. MachineOK
    BY <1>2 DEF ReportInv
  <2>3. DeviceInv' /\ ReportInv' /\ DeviceTypes'
    BY <1>2, <2>1, NextKeeps, ReportStep, DeviceTypesStep
  <2> QED BY <1>2, <2>2, <2>3, ExamStep, ProbeRanStep
<1>3. All => Good
  BY DeviceTypesHold DEF ExamInv, ExamSteps, ProbeRan, DoctorTypeOK
<1> HIDE DEF All, Good
<1>4. DeviceInit /\ DoctorInit /\ [][Step]_<<deviceVars, doctorVars>> => []Good
  BY <1>1, <1>2, <1>3, PTL
<1> QED BY <1>4 DEF Good
===============================================================================
