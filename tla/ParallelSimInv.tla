--------------------------- MODULE ParallelSimInv ---------------------------
(***************************************************************************)
(* The inductive invariant of ParallelSim. The correctness properties of   *)
(* that module are not inductive: they speak of clocks and program         *)
(* counters, and what keeps these together is where the current request or *)
(* reply of each partition is, and which barrier round it belongs to.      *)
(***************************************************************************)
EXTENDS ParallelSim

(* The coordinator has opened p's barrier and not yet come to p's reply.   *)
ReplyDue(p) == cpc \in {"barrierReplies", "stepReplies"} /\ p \in todo

(* p's barrier has opened.                                                 *)
Answered(p) == rep[p] # "none" \/ ReplyDue(p)

(* A partition's message is in one place: on the way to the coordinator,   *)
(* held behind a raised flag, due for a reply, or on the way back.         *)
OnePlace ==
  \A p \in Part :
    /\ req[p] # "none" => ~Answered(p) /\ p \notin atBarrier \cup atStep
    /\ p \in atBarrier \cup atStep => ~Answered(p)
    /\ rep[p] # "none" => ~ReplyDue(p)

(* That message is the one p's program counter stands at.                  *)
MessagesFit ==
  \A p \in Part :
    /\ req[p] = "BARRIER" \/ p \in atBarrier \/ (cpc = "barrierReplies" /\ p \in todo)
         => pc[p] \in {"startBarrier", "endBarrier"}
    /\ req[p] \in {"STEP_EMPTY", "STEP_BUSY"} \/ p \in atStep
         \/ (cpc = "stepReplies" /\ p \in todo)
         => pc[p] = "stepBarrier"
    /\ req[p] = "FINISHED" => pc[p] = "finishing" /\ p \notin stopped
    /\ p \in stopped => pc[p] \in {"finishing", "closing"}

(* The vote that travels and the verdict that comes back are the current   *)
(* ones.                                                                   *)
VotesFit ==
  \A p \in Part :
    /\ req[p] = "STEP_EMPTY" => maybeFinished[p]
    /\ req[p] = "STEP_BUSY" => ~maybeFinished[p]
    /\ p \in atStep => (p \in empty <=> maybeFinished[p])
    /\ rep[p] = "allEmpty" => allEmpty
    /\ rep[p] = "notEmpty" => ~allEmpty
    /\ maybeFinished[p] => simTime[p] > LastDepart[p] + 1

(* Where p can be, relative to the rounds the coordinator has opened.      *)
Position(p) ==
  CASE pc[p] = "loading" ->
         /\ syncBarrierTimes = 0 /\ steps = 0 /\ simTime[p] = 0
         /\ finished[p] = allEmpty
    [] pc[p] = "startBarrier" ->
         /\ syncBarrierTimes = (IF Answered(p) THEN 1 ELSE 0)
         /\ steps = 0 /\ simTime[p] = 0
         /\ finished[p] = allEmpty
    [] pc[p] \in {"loop", "terminating"} ->
         /\ syncBarrierTimes = 1 /\ simTime[p] = steps
         /\ finished[p] = allEmpty
    [] pc[p] = "stepBarrier" ->
         /\ syncBarrierTimes = 1
         /\ IF Answered(p) THEN simTime[p] = steps
            ELSE simTime[p] = steps + 1 /\ ~IsFinished(steps, allEmpty)
    [] pc[p] = "endBarrier" ->
         /\ syncBarrierTimes = (IF Answered(p) THEN 2 ELSE 1)
         /\ simTime[p] = steps /\ finished[p] = allEmpty
         /\ IsFinished(steps, allEmpty)
    [] OTHER ->
         /\ syncBarrierTimes = 2
         /\ simTime[p] = steps /\ finished[p] = allEmpty
         /\ IsFinished(steps, allEmpty)

Positions == \A p \in Part : Position(p)

(* Each counter counts its flags.                                          *)
CountersMatch ==
  /\ barrierPartitions = Cardinality(atBarrier)
  /\ stepPartitions = Cardinality(atStep)
  /\ stoppedPartitions = Cardinality(stopped)

(* A verdict "all empty" that ends the run stays true of every partition.  *)
VerdictStands ==
  EndTime < 0 /\ allEmpty =>
    \A p \in Part : maybeFinished[p] /\ simTime[p] = steps

(* Who is still to be killed or reaped, against who is still running.      *)
Processes ==
  /\ \A p \in Part : wpc = "wait" /\ p \notin pids => proc[p] \in Dead
  /\ \A p \in Part : wpc = "kill" /\ p \notin toKill => proc[p] \in Dead
  /\ wpc = "returned" \/ control # 0 \/ finishStatus # 0
       => wpc = "returned" /\ \A p \in Part : proc[p] \in Dead
  /\ cpc = "exit" => wpc = "returned"
  /\ cpc \in {"join", "exit"} /\ finishStatus = 0 => allFinished
  /\ allFinished => stopped = Part

(* What the sync sockets and the clocks agree on, whatever the processes   *)
(* do.                                                                     *)
SyncInv ==
  /\ OnePlace
  /\ MessagesFit
  /\ RepliesFit
  /\ VotesFit
  /\ Positions
  /\ CountersMatch
  /\ VerdictStands

IInv ==
  /\ TypeOK
  /\ SyncInv
  /\ Processes
=============================================================================
