------------------------------ MODULE LeasedQueue ------------------------------
(***************************************************************************)
(* What the job queue promises, with no processes, records or tokens: jobs *)
(* wait, may be put aside, and are admitted one holder per GPU; the        *)
(* calculation of a job begins at most once; a job returns to the queue    *)
(* only while it has not begun; a finished job stays finished.  JobQueue   *)
(* implements this specification.                                          *)
(***************************************************************************)
EXTENDS Naturals

CONSTANTS Jobs, Gpus, NoGpu, Device

VARIABLES
    life,    \* absent, queued, aside, active, ended or removed
    holder,  \* the job each GPU is leased to, 0 when it is free
    begun    \* jobs whose calculation has been started

vars == <<life, holder, begun>>

LeasedTo(S) == [g \in Gpus |-> IF holder[g] \in S THEN 0 ELSE holder[g]]

Init ==
    /\ life = [j \in Jobs |-> "absent"]
    /\ holder = [g \in Gpus |-> 0]
    /\ begun = {}

\* The jobs of S leave the states "from" together and give their leases back.
Move(S, from, to) ==
    /\ S # {} /\ \A j \in S : life[j] \in from
    /\ life' = [j \in Jobs |-> IF j \in S THEN to ELSE life[j]]
    /\ holder' = LeasedTo(S)
    /\ UNCHANGED begun

Submit(S)  == Move(S, {"absent"}, "queued")
SetAside(S) == Move(S, {"queued"}, "aside")
Readmit(S) == Move(S, {"aside"}, "queued")
Requeue(S) == S \cap begun = {} /\ Move(S, {"active"}, "queued")
Finish(S)  == Move(S, {"queued", "aside", "active"}, "ended")
Remove(S)  == Move(S, {"queued", "aside", "ended"}, "removed")

Admit(j) ==
    /\ life[j] = "queued"
    /\ Device[j] = NoGpu \/ holder[Device[j]] = 0
    /\ life' = [life EXCEPT ![j] = "active"]
    /\ holder' = [g \in Gpus |-> IF g = Device[j] THEN j ELSE holder[g]]
    /\ UNCHANGED begun

\* A calculation begins for a job that was active when its worker looked; a
\* cancellation may have ended the job in the meantime.
Begin(j) ==
    /\ life[j] \in {"active", "ended", "removed"}
    /\ j \notin begun
    /\ begun' = begun \cup {j}
    /\ UNCHANGED <<life, holder>>

Next ==
    \/ \E S \in SUBSET Jobs :
          \/ Submit(S) \/ SetAside(S) \/ Readmit(S)
          \/ Requeue(S) \/ Finish(S) \/ Remove(S)
    \/ \E j \in Jobs : Admit(j) \/ Begin(j)

Spec == Init /\ [][Next]_vars
===============================================================================
