--------------------------- MODULE MCParallelSim ---------------------------
(* Small instances of ParallelSim for TLC.                                 *)
EXTENDS ParallelSimInv

(* Partition 0's vehicles depart at once, the others' a step later.        *)
MCLastDepart == [p \in Part |-> IF p = 0 THEN -1 ELSE 0]

(* Vehicles depart until after the end time, so no partition is ever empty. *)
MCLateDepart == [p \in Part |-> 5]

MCNoEndTime == -1

MCAllButTheFirst == Part \ {0}

MCNone == {}
=============================================================================
