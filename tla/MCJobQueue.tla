------------------------------ MODULE MCJobQueue ------------------------------
(* Instances of JobQueue for TLC. *)
EXTENDS JobQueueInvariant

CONSTANTS g1, g2

\* All jobs but the last compete for one GPU, the last runs on the CPU.
SharedGpu == [j \in Jobs |-> IF j = NJobs /\ NJobs > 1 THEN NoGpu ELSE g1]

\* All jobs compete for one GPU.
OneGpu == [j \in Jobs |-> g1]

\* No job needs a GPU: only --max-concurrent limits the launches.
AllCpu == [j \in Jobs |-> NoGpu]
===============================================================================
