------------------------------ MODULE LockStep ------------------------------
(***************************************************************************)
(* What the sync sockets promise the partitions of a run, without sockets, *)
(* messages, flags or processes: a sequence of barriers. A participant     *)
(* arrives at its next barrier, says of which kind it takes it to be, and  *)
(* at a step barrier votes whether it may be finished. The barrier opens   *)
(* when everyone has arrived and all mean the same kind. Whoever crosses a *)
(* step barrier hears the conjunction of the votes.                        *)
(***************************************************************************)
EXTENDS Naturals

CONSTANT Participant

VARIABLES
  waits,    \* the kind of barrier each participant waits at, "none" if none
  crossed,  \* how many barriers each has crossed
  vote,     \* its last vote
  heard,    \* the last verdict it heard
  opened,   \* how many barriers have opened
  verdict   \* the verdict of the last step barrier that opened

vars == <<waits, crossed, vote, heard, opened, verdict>>

Init ==
  /\ waits   = [p \in Participant |-> "none"]
  /\ crossed = [p \in Participant |-> 0]
  /\ vote    = [p \in Participant |-> FALSE]
  /\ heard   = [p \in Participant |-> FALSE]
  /\ opened = 0
  /\ verdict = FALSE

ArriveAtBarrier(p) ==
  /\ waits[p] = "none"
  /\ waits' = [waits EXCEPT ![p] = "barrier"]
  /\ UNCHANGED <<crossed, vote, heard, opened, verdict>>

ArriveAtStep(p, v) ==
  /\ waits[p] = "none"
  /\ waits' = [waits EXCEPT ![p] = "step"]
  /\ vote' = [vote EXCEPT ![p] = v]
  /\ UNCHANGED <<crossed, heard, opened, verdict>>

AllWaitAt(kind) == \A p \in Participant : waits[p] = kind /\ crossed[p] = opened

OpenBarrier ==
  /\ AllWaitAt("barrier")
  /\ opened' = opened + 1
  /\ UNCHANGED <<waits, crossed, vote, heard, verdict>>

OpenStep ==
  /\ AllWaitAt("step")
  /\ opened' = opened + 1
  /\ verdict' = (\A p \in Participant : vote[p])
  /\ UNCHANGED <<waits, crossed, vote, heard>>

Cross(p) ==
  /\ waits[p] # "none" /\ crossed[p] < opened
  /\ waits' = [waits EXCEPT ![p] = "none"]
  /\ crossed' = [crossed EXCEPT ![p] = @ + 1]
  /\ heard' = IF waits[p] = "step" THEN [heard EXCEPT ![p] = verdict] ELSE heard
  /\ UNCHANGED <<vote, opened, verdict>>

Next ==
  \/ OpenBarrier \/ OpenStep
  \/ \E p \in Participant :
       \/ ArriveAtBarrier(p) \/ Cross(p)
       \/ \E v \in BOOLEAN : ArriveAtStep(p, v)

Spec == Init /\ [][Next]_vars
=============================================================================
