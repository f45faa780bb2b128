----------------------------- MODULE DurableLatest -----------------------------
(***************************************************************************)
(* What a NEB checkpoint store promises of its latest link, with no files, *)
(* locks or processes: the link only moves to later checkpoints, and after *)
(* a power loss it still names a checkpoint at least as late as the last   *)
(* one the run has announced.  CheckpointStore implements this.            *)
(***************************************************************************)
EXTENDS Naturals

VARIABLES
    current,  \* the checkpoint latest names, 0 for none
    kept      \* the last checkpoint that is safe from a power loss

Init == current = 0 /\ kept = 0

Advance == /\ current' \in Nat /\ current' > current
           /\ UNCHANGED kept

Keep == /\ kept' \in kept..current
        /\ UNCHANGED current

FallBack == /\ current' \in kept..current
            /\ UNCHANGED kept

Next == Advance \/ Keep \/ FallBack

Spec == Init /\ [][Next]_<<current, kept>>
===============================================================================
