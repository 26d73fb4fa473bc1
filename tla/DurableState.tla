---------------------------- MODULE DurableState ----------------------------
(***************************************************************************)
(* What a state file under data/ promises, with nothing said of how it is  *)
(* written: the program holds a current value, the disk a stable one, each *)
(* named by the number of changes made so far.  A flush may lag behind the *)
(* program but never carries the disk back to an older value, and a restart*)
(* resumes from the disk.                                                  *)
(***************************************************************************)
EXTENDS Naturals

VARIABLES
    current,    \* changes made by the running process
    stable      \* changes the file holds

durableVars == <<current, stable>>

DurableInit == current = 0 /\ stable = 0

Update ==
    /\ current' = current + 1
    /\ UNCHANGED stable

\* The file catches up with the program, in full or in part.
Flush ==
    /\ stable' \in stable .. current
    /\ UNCHANGED current

Restart ==
    /\ current' = stable
    /\ UNCHANGED stable

DurableNext == Update \/ Flush \/ Restart

DurableSpec == DurableInit /\ [][DurableNext]_durableVars
=============================================================================
