---------------------------- MODULE WorkerIdentity ----------------------------
(***************************************************************************)
(* Whom a process number means (jobs.py, queue.py).  The kernel gives the  *)
(* number of a process that is gone to another one.  A record of a running *)
(* job therefore holds the number of its worker and the tick at which that *)
(* process was started; the reaper and the user's kill compare both with   *)
(* what runs under the number now.  JobQueue takes workers that cannot be  *)
(* mistaken for one another for granted; this module is the reason.        *)
(*                                                                         *)
(* A number is not handed out again within the moment between the check    *)
(* and the signal, or between the end of a child and the search for its    *)
(* record: the kernel goes through all the other numbers first.            *)
(***************************************************************************)
EXTENDS Naturals, FiniteSets

CONSTANTS Number,      \* process numbers
          Work,        \* jobs
          Stranger,    \* stands for the purpose of any other process
          MaxForks     \* bound: processes started

ASSUME IdentityAssumption == Stranger \notin Work /\ MaxForks \in Nat

VARIABLES process,   \* what the kernel runs under each number
          ticks,     \* the start ticks handed out
          ledger,    \* the records
          daemon,    \* whether a scheduler runs
          gaps,      \* numbers in somebody's hand, and for what
          struck     \* signals delivered: for which job, and to whom

identityVars == <<process, ticks, ledger, daemon, gaps, struck>>

-------------------------------------------------------------------------------
Free == [state |-> "none", job |-> Stranger, tick |-> 0, ours |-> FALSE]
NoWorker == [number |-> 0, tick |-> 0]

InUse(n) == process[n].state # "none"
BetweenSteps == \A g \in gaps : g.for = "signal"   \* the scheduler is between two steps
InHand(n) == \E g \in gaps : g.number = n

\* Mutation: any process under the number will do.
SomethingRuns(n, tick) == n \in Number /\ InUse(n)

\* _process_identity reads the tick of whatever has the number, a zombie too.
PidMatches(n, tick) == n \in Number /\ InUse(n) /\ process[n].tick = tick

\* A process that ends stays as a zombie until its parent asks after it.
Ending(n) ==
    IF process[n].ours THEN [process EXCEPT ![n].state = "zombie"] ELSE [process EXCEPT ![n] = Free]

Fork(n, job, ours) ==
    /\ ~InUse(n) /\ ~InHand(n) /\ ticks < MaxForks
    /\ ticks' = ticks + 1
    /\ process' = [process EXCEPT ![n] = [state |-> "alive", job |-> job, tick |-> ticks', ours |-> ours]]

Settle(j, status) == ledger' = [ledger EXCEPT ![j].status = status]

-------------------------------------------------------------------------------
IdentityInit ==
    /\ process = [n \in Number |-> Free] /\ ticks = 0
    /\ ledger = [j \in Work |-> [status |-> "pending", worker |-> NoWorker]]
    /\ daemon = TRUE /\ gaps = {} /\ struck = {}

\* The scheduler starts a worker for a job it has claimed.
SpawnFor(j) ==
    /\ daemon /\ ledger[j].status = "pending" /\ BetweenSteps
    /\ \E n \in Number :
         /\ Fork(n, j, TRUE)
         /\ gaps' = gaps \cup {[for |-> "promotion", job |-> j, number |-> n]}
    /\ Settle(j, "claimed")
    /\ UNCHANGED <<daemon, struck>>

\* mark_running pins the identity of the child, which the scheduler has not yet
\* waited for; a job that was cancelled meanwhile has its worker killed.
Promote(g) ==
    /\ g \in gaps /\ g.for = "promotion"
    /\ LET n == g.number  j == g.job IN
       /\ gaps' = gaps \ {g}
       /\ IF ledger[j].status = "claimed"
          THEN /\ ledger' = [ledger EXCEPT ![j] =
                               [status |-> "running", worker |-> [number |-> n, tick |-> process[n].tick]]]
               /\ UNCHANGED <<process, struck>>
          ELSE /\ struck' = struck \cup {[meant |-> j, hit |-> process[n].job]}
               /\ process' = IF process[n].state = "alive" THEN Ending(n) ELSE process
               /\ UNCHANGED ledger
    /\ UNCHANGED <<ticks, daemon>>

\* A worker publishes its own end, or is killed with no chance to.
WorkerFinishes(n) ==
    /\ process[n].state = "alive"
    /\ LET j == process[n].job IN
       /\ j \in Work
       /\ IF ledger[j].status = "running" /\ ledger[j].worker.number = n
          THEN Settle(j, "done") ELSE UNCHANGED ledger
       /\ process' = Ending(n)
    /\ UNCHANGED <<ticks, daemon, gaps, struck>>

ProcessDies(n) ==
    /\ process[n].state = "alive"
    /\ process' = Ending(n)
    /\ UNCHANGED <<ticks, ledger, daemon, gaps, struck>>

OtherStarts(n) ==
    /\ Fork(n, Stranger, FALSE)
    /\ UNCHANGED <<ledger, daemon, gaps, struck>>

\* The scheduler ends and its children are the system's; another one takes over,
\* and what the first had claimed is claimed anew.
SchedulerDies ==
    /\ daemon /\ daemon' = FALSE
    /\ process' = [n \in Number |->
                     IF process[n].state = "zombie" THEN Free ELSE [process[n] EXCEPT !.ours = FALSE]]
    /\ gaps' = {g \in gaps : g.for = "signal"}
    /\ UNCHANGED <<ticks, ledger, struck>>

SchedulerReturns ==
    /\ ~daemon /\ daemon' = TRUE
    /\ ledger' = [j \in Work |-> IF ledger[j].status = "claimed"
                                 THEN [ledger[j] EXCEPT !.status = "pending"] ELSE ledger[j]]
    /\ UNCHANGED <<process, ticks, gaps, struck>>

\* _reap_stale_running, first part: the number of a child that has ended is free
\* from here on; the record that has it is failed in a step of its own.
ReapChild(n) ==
    /\ daemon /\ process[n].state = "zombie" /\ BetweenSteps
    /\ process' = [process EXCEPT ![n] = Free]
    /\ gaps' = gaps \cup {[for |-> "failure", job |-> Stranger, number |-> n]}
    /\ UNCHANGED <<ticks, ledger, daemon, struck>>

FailReaped(g) ==
    /\ g \in gaps /\ g.for = "failure"
    /\ gaps' = gaps \ {g}
    /\ LET named == {j \in Work : ledger[j].status = "running" /\ ledger[j].worker.number = g.number}
       IN  IF named = {} THEN UNCHANGED ledger ELSE \E j \in named : Settle(j, "failed")
    /\ UNCHANGED <<process, ticks, daemon, struck>>

\* Second part: a running record whose process is not there any more.
FailUnmatched(j) ==
    /\ daemon /\ BetweenSteps
    /\ ledger[j].status = "running"
    /\ ~PidMatches(ledger[j].worker.number, ledger[j].worker.tick)
    /\ Settle(j, "failed")
    /\ UNCHANGED <<process, ticks, daemon, gaps, struck>>

\* kill_job: the check and the verdict under the lock, the signal after it.
CancelWork(j) ==
    /\ \/ /\ ledger[j].status \in {"pending", "claimed"} /\ UNCHANGED gaps
       \/ /\ ledger[j].status = "running"
          /\ PidMatches(ledger[j].worker.number, ledger[j].worker.tick)
          /\ gaps' = gaps \cup {[for |-> "signal", job |-> j, number |-> ledger[j].worker.number]}
    /\ Settle(j, "cancelled")
    /\ UNCHANGED <<process, ticks, daemon, struck>>

SignalGroup(g) ==
    /\ g \in gaps /\ g.for = "signal"
    /\ gaps' = gaps \ {g}
    /\ IF InUse(g.number)
       THEN /\ struck' = struck \cup {[meant |-> g.job, hit |-> process[g.number].job]}
            /\ process' = IF process[g.number].state = "alive" THEN Ending(g.number) ELSE process
       ELSE UNCHANGED <<process, struck>>
    /\ UNCHANGED <<ticks, ledger, daemon>>

IdentityNext ==
    \/ \E j \in Work : SpawnFor(j) \/ FailUnmatched(j) \/ CancelWork(j)
    \/ \E g \in gaps : Promote(g) \/ FailReaped(g) \/ SignalGroup(g)
    \/ \E n \in Number : WorkerFinishes(n) \/ ProcessDies(n) \/ OtherStarts(n) \/ ReapChild(n)
    \/ SchedulerDies \/ SchedulerReturns

IdentitySpec == IdentityInit /\ [][IdentityNext]_identityVars

-------------------------------------------------------------------------------
(* Properties *)

IdentityTypeOK ==
    /\ \A n \in Number : process[n].state \in {"none", "alive", "zombie"} /\ process[n].tick \in 0..MaxForks
    /\ \A j \in Work : ledger[j].status \in {"pending", "claimed", "running", "done", "failed", "cancelled"}
    /\ \A g \in gaps : g.for \in {"promotion", "failure", "signal"}

\* A signal finds the worker of the job it is meant for, and a job is not failed
\* while its worker lives, whoever else has had the worker's number by then and
\* however often a scheduler ends in between.  (The comment in kill_job: never
\* signal a PID that cannot be tied to the worker originally launched for the job.)
WorkersAreNotMistaken ==
    /\ \A s \in struck : s.hit = s.meant
    /\ \A j \in Work, n \in Number :
         ledger[j].status = "failed" /\ process[n].state = "alive" /\ process[n].job = j =>
             process[n].tick # ledger[j].worker.tick

================================================================================
