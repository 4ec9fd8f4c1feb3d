---------------------------- MODULE ParallelSim ----------------------------
(***************************************************************************)
(* One parallel run: the coordinator process and the partition processes   *)
(* it spawns.                                                              *)
(*                                                                         *)
(*   - the coordinator's main thread serves the barriers                   *)
(*     (ParallelSim::coordinatePartitionsSync);                            *)
(*   - its wait thread reaps the partition processes and kills the rest    *)
(*     when one of them fails (ParallelSim::waitForPartitions);            *)
(*   - every partition process runs PartitionManager::runSimulation: a     *)
(*     start barrier, one step barrier per simulated step, an end barrier, *)
(*     a FINISHED message, and the end of the process.                     *)
(*                                                                         *)
(* A partition talks to the coordinator over a REQ/REP socket pair, so at  *)
(* most one request or one reply is on its way; req[p] and rep[p] hold it. *)
(* What happens inside a step (the handoff of vehicles to neighbours) is   *)
(* not in this module: a step only decides what the partition reports.     *)
(***************************************************************************)
EXTENDS Integers, FiniteSets

CONSTANTS
  N,           \* numThreads: how many partitions
  EndTime,     \* endTime of the run; negative when the configuration has none
  LastDepart,  \* lastDepartTime of each partition's own vehicles
  QuietTime,   \* from this time on no partition holds a vehicle (SUMO's part)
  MayFail      \* the partitions that may stop with an error

Part == 0 .. N - 1

ASSUME ConstantsAssumption ==
  /\ N \in Nat \ {0}
  /\ EndTime \in Int
  /\ LastDepart \in [Part -> Int]
  /\ QuietTime \in Nat
  /\ MayFail \subseteq Part

VARIABLES
  (* the partition processes *)
  pc,                  \* where runSimulation stands
  simTime,             \* Simulation::getTime(), counted from the start
  maybeFinished,       \* what it reported to the last step barrier
  finished,            \* the verdict of the last step barrier
  proc,                \* the operating system's view of the process
  open,                \* its sockets that are not closed, see Sockets
  (* the sync sockets *)
  req, rep,
  (* the coordinator's main thread *)
  cpc,
  todo,                \* partitions its current for loop has still to visit
  atBarrier,           \* partitionReachedBarrier, as the set of the raised flags
  atStep,              \* partitionReachedStepBarrier
  empty,               \* partitionEmpty
  stopped,             \* partitionStopped
  barrierPartitions, stepPartitions, stoppedPartitions,
  syncBarrierTimes, steps,
  allEmpty,            \* the verdict of the last step barrier that opened
  allFinished,
  finishStatus,        \* what coordinatePartitionsSync returns
  (* the wait thread *)
  wpc,
  pids,                \* processes it has not reaped
  toKill,              \* processes its kill loop has still to visit
  control              \* the PAIR control socket; 0 when nothing is on it

processes == <<proc, open>>
partVars  == <<pc, simTime, maybeFinished, finished>>
sockets   == <<req, rep>>
flags     == <<atBarrier, atStep, empty, stopped>>
counters  == <<barrierPartitions, stepPartitions, stoppedPartitions>>
progress  == <<syncBarrierTimes, steps, allEmpty>>
outcome   == <<allFinished, finishStatus>>
coordVars == <<cpc, todo, flags, counters, progress, outcome>>
waitVars  == <<wpc, pids, toKill, control>>
vars      == <<partVars, processes, sockets, coordVars, waitVars>>

Waiting   == {"startBarrier", "stepBarrier", "endBarrier", "finishing"}
AfterLoop == {"endBarrier", "finishing", "closing"}
Dead      == {"ended", "failed", "killed"}
Failure   == 1   \* stands for every status that is not zero

(* The sockets of a partition: coordinatorSocket, and, for each neighbour, *)
(* the one of the stub and the three of the handler. They are made with    *)
(* the PartitionManager.                                                   *)
Sockets   == {"coordinator", "stubs", "handlers"}

Init ==
  /\ pc       = [p \in Part |-> "loading"]
  /\ simTime  = [p \in Part |-> 0]
  /\ maybeFinished = [p \in Part |-> FALSE]
  /\ finished = [p \in Part |-> FALSE]
  /\ proc     = [p \in Part |-> "alive"]
  /\ open     = [p \in Part |-> Sockets]
  /\ req = [p \in Part |-> "none"]
  /\ rep = [p \in Part |-> "none"]
  /\ cpc = "poll" /\ todo = {}
  /\ atBarrier = {} /\ atStep = {} /\ empty = {} /\ stopped = {}
  /\ barrierPartitions = 0 /\ stepPartitions = 0 /\ stoppedPartitions = 0
  /\ syncBarrierTimes = 0 /\ steps = 0 /\ allEmpty = FALSE
  /\ allFinished = FALSE /\ finishStatus = 0
  /\ wpc = "wait" /\ pids = Part /\ toKill = {} /\ control = 0

-----------------------------------------------------------------------------
(* The partitions.                                                         *)

(* isFinished: with an end time the clock decides, without one the verdict *)
IsFinished(time, verdict) ==
  IF EndTime > -1 THEN time >= EndTime ELSE verdict

(* A faulty isMaybeFinished that forgets the vehicles yet to depart.       *)
MaybeFinishedTooSoon(p, time) == {b \in BOOLEAN : time >= QuietTime => b}

(* isMaybeFinished: the answers a partition may give at this time. Which   *)
(* vehicles it holds is SUMO's business; from QuietTime on it holds none.  *)
MaybeFinished(p, time) ==
  {b \in BOOLEAN : /\ b => time > LastDepart[p] + 1
                   /\ time > LastDepart[p] + 1 /\ time >= QuietTime => b}

Send(p, request) ==
  /\ req' = [req EXCEPT ![p] = request]
  /\ UNCHANGED rep

Receive(p) ==
  /\ rep[p] # "none"
  /\ rep' = [rep EXCEPT ![p] = "none"]
  /\ UNCHANGED req

Running(p) == proc[p] = "alive"

(* A faulty Start that does not wait at the start barrier.                 *)
StartUnawaited(p) ==
  /\ Running(p) /\ pc[p] = "loading"
  /\ pc' = [pc EXCEPT ![p] = "loop"]
  /\ UNCHANGED <<simTime, maybeFinished, finished, processes, sockets, coordVars, waitVars>>

(* The simulation loads, the handlers start, and the partition arrives at  *)
(* the barrier that ensures all servers have started.                      *)
Start(p) ==
  /\ Running(p) /\ pc[p] = "loading"
  /\ pc' = [pc EXCEPT ![p] = "startBarrier"]
  /\ Send(p, "BARRIER")
  /\ UNCHANGED <<simTime, maybeFinished, finished, processes, coordVars, waitVars>>

PassStartBarrier(p) ==
  /\ Running(p) /\ pc[p] = "startBarrier"
  /\ Receive(p)
  /\ pc' = [pc EXCEPT ![p] = "loop"]
  /\ UNCHANGED <<simTime, maybeFinished, finished, processes, coordVars, waitVars>>

(* One turn of the loop up to the request of finishStepWait.               *)
Step(p) ==
  /\ Running(p) /\ pc[p] = "loop"
  /\ ~IsFinished(simTime[p], finished[p])
  /\ simTime' = [simTime EXCEPT ![p] = @ + 1]
  /\ \E maybe \in MaybeFinished(p, simTime[p] + 1) :
       /\ maybeFinished' = [maybeFinished EXCEPT ![p] = maybe]
       /\ Send(p, IF maybe THEN "STEP_EMPTY" ELSE "STEP_BUSY")
  /\ pc' = [pc EXCEPT ![p] = "stepBarrier"]
  /\ UNCHANGED <<finished, processes, coordVars, waitVars>>

(* A faulty finishStepWait that believes the partition's own report.       *)
PassStepBarrierAlone(p) ==
  /\ Running(p) /\ pc[p] = "stepBarrier"
  /\ Receive(p)
  /\ finished' = [finished EXCEPT ![p] = maybeFinished[p]]
  /\ pc' = [pc EXCEPT ![p] = "loop"]
  /\ UNCHANGED <<simTime, maybeFinished, processes, coordVars, waitVars>>

(* finishStepWait copies one byte of the reply into the flag: any reply    *)
(* that is not a false verdict reads as true.                              *)
PassStepBarrier(p) ==
  /\ Running(p) /\ pc[p] = "stepBarrier"
  /\ Receive(p)
  /\ finished' = [finished EXCEPT ![p] = rep[p] # "notEmpty"]
  /\ pc' = [pc EXCEPT ![p] = "loop"]
  /\ UNCHANGED <<simTime, maybeFinished, processes, coordVars, waitVars>>

LeaveLoop(p) ==
  /\ Running(p) /\ pc[p] = "loop"
  /\ IsFinished(simTime[p], finished[p])
  /\ Send(p, "BARRIER")
  /\ pc' = [pc EXCEPT ![p] = "endBarrier"]
  /\ UNCHANGED <<simTime, maybeFinished, finished, processes, coordVars, waitVars>>

(* Behind the end barrier the handlers are stopped, the stubs disconnected *)
(* and FINISHED is sent.                                                   *)
PassEndBarrier(p) ==
  /\ Running(p) /\ pc[p] = "endBarrier" /\ rep[p] # "none"
  /\ rep' = [rep EXCEPT ![p] = "none"]
  /\ req' = [req EXCEPT ![p] = "FINISHED"]
  /\ open' = [open EXCEPT ![p] = @ \ {"stubs", "handlers"}]
  /\ pc' = [pc EXCEPT ![p] = "finishing"]
  /\ UNCHANGED <<simTime, maybeFinished, finished, proc, coordVars, waitVars>>

(* A faulty PassFinish that leaves coordinatorSocket open.                 *)
PassFinishKeepsSocket(p) ==
  /\ Running(p) /\ pc[p] = "finishing"
  /\ Receive(p)
  /\ pc' = [pc EXCEPT ![p] = "closing"]
  /\ UNCHANGED <<simTime, maybeFinished, finished, processes, coordVars, waitVars>>

PassFinish(p) ==
  /\ Running(p) /\ pc[p] = "finishing"
  /\ Receive(p)
  /\ open' = [open EXCEPT ![p] = @ \ {"coordinator"}]
  /\ pc' = [pc EXCEPT ![p] = "closing"]
  /\ UNCHANGED <<simTime, maybeFinished, finished, proc, coordVars, waitVars>>

(* A step, a call to a neighbour or an operation of one throws; main       *)
(* catches the exception and goes on to destroyAll, and nobody has closed  *)
(* a socket.                                                               *)
Throw(p) ==
  /\ Running(p) /\ p \in MayFail /\ pc[p] = "loop"
  /\ pc' = [pc EXCEPT ![p] = "terminating"]
  /\ UNCHANGED <<simTime, maybeFinished, finished, processes, sockets, coordVars,
                 waitVars>>

(* main comes to destroyAll, after Simulation::close or from an exception. *)
(* To close a context is to wait until its sockets are closed; then main   *)
(* returns 0.                                                              *)
Exit(p) ==
  /\ Running(p) /\ pc[p] \in {"closing", "terminating"} /\ open[p] = {}
  /\ proc' = [proc EXCEPT ![p] = "ended"]
  /\ UNCHANGED <<partVars, open, sockets, coordVars, waitVars>>

(* The process ends with a status other than 0, or from a signal, wherever *)
(* it stands; in destroyAll, for one, when a listen thread that is in its  *)
(* poll finds its context shut down. A request the coordinator's poll has  *)
(* not seen may be lost.                                                   *)
Fail(p) ==
  /\ Running(p) /\ p \in MayFail
  /\ proc' = [proc EXCEPT ![p] = "failed"]
  /\ \/ UNCHANGED req
     \/ p \notin todo /\ req' = [req EXCEPT ![p] = "none"]
  /\ UNCHANGED <<partVars, open, rep, coordVars, waitVars>>

-----------------------------------------------------------------------------
(* The coordinator's main thread. The for loops run over the partitions    *)
(* in the order of their ids.                                              *)

First(p, S) == p \in S /\ \A q \in S : p <= q

Pending == {p \in Part : req[p] # "none"}

(* zmq::poll returns the sockets that have a message at this moment.       *)
Poll ==
  /\ cpc = "poll" /\ control = 0 /\ Pending # {}
  /\ todo' = Pending
  /\ cpc' = "receive"
  /\ UNCHANGED <<partVars, processes, sockets, flags, counters, progress, outcome, waitVars>>

PollControl ==
  /\ cpc = "poll" /\ control # 0
  /\ finishStatus' = control
  /\ control' = 0
  /\ cpc' = "join"
  /\ UNCHANGED <<partVars, processes, sockets, todo, flags, counters, progress,
                 allFinished, wpc, pids, toKill>>

(* Takes the request off socket p. A first arrival at a barrier gets no    *)
(* reply yet; a second one is told "repeated".                             *)
Take(p, reply) ==
  /\ cpc = "receive" /\ First(p, todo)
  /\ todo' = todo \ {p}
  /\ req' = [req EXCEPT ![p] = "none"]
  /\ rep' = [rep EXCEPT ![p] = reply]
  /\ UNCHANGED <<partVars, processes, cpc, progress, outcome, waitVars>>

(* A faulty Count that counts downwards.                                   *)
CountDown(counter, p, S) == counter - (IF p \in S THEN 0 ELSE 1)

Count(counter, p, S) == counter + (IF p \in S THEN 0 ELSE 1)

ReceiveBarrier(p) ==
  /\ req[p] = "BARRIER"
  /\ Take(p, IF p \in atBarrier THEN "repeated" ELSE "none")
  /\ atBarrier' = atBarrier \cup {p}
  /\ barrierPartitions' = Count(barrierPartitions, p, atBarrier)
  /\ UNCHANGED <<atStep, empty, stopped, stepPartitions, stoppedPartitions>>

ReceiveStep(p) ==
  /\ req[p] \in {"STEP_EMPTY", "STEP_BUSY"}
  /\ Take(p, IF p \in atStep THEN "repeated" ELSE "none")
  /\ atStep' = atStep \cup {p}
  /\ empty' = IF p \in atStep THEN empty
              ELSE IF req[p] = "STEP_EMPTY" THEN empty \cup {p} ELSE empty \ {p}
  /\ stepPartitions' = Count(stepPartitions, p, atStep)
  /\ UNCHANGED <<atBarrier, stopped, barrierPartitions, stoppedPartitions>>

(* Stopping blocks nobody, so the first FINISHED is answered at once.      *)
ReceiveFinished(p) ==
  /\ req[p] = "FINISHED"
  /\ Take(p, IF p \in stopped THEN "repeated" ELSE "ok")
  /\ stopped' = stopped \cup {p}
  /\ stoppedPartitions' = Count(stoppedPartitions, p, stopped)
  /\ UNCHANGED <<atBarrier, atStep, empty, barrierPartitions, stepPartitions>>

AllReceived == cpc = "receive" /\ todo = {}

(* The loop is left and the sockets are closed, without a linger period    *)
(* (makeSocket): of the replies the partitions have not got, those that    *)
(* have not left the coordinator are discarded.                            *)
AllStopped ==
  /\ AllReceived /\ stoppedPartitions >= N
  /\ allFinished' = TRUE
  /\ cpc' = "join"
  /\ \E gone \in SUBSET Part :
       rep' = [p \in Part |-> IF p \in gone THEN "none" ELSE rep[p]]
  /\ UNCHANGED <<partVars, processes, req, todo, flags, counters, progress,
                 finishStatus, waitVars>>

(* A faulty OpenBarrier that leaves the flags raised.                      *)
OpenBarrierKeepsFlags ==
  /\ AllReceived /\ stoppedPartitions < N /\ barrierPartitions >= N
  /\ syncBarrierTimes' = syncBarrierTimes + 1
  /\ barrierPartitions' = 0
  /\ todo' = Part
  /\ cpc' = "barrierReplies"
  /\ UNCHANGED <<partVars, processes, sockets, flags, stepPartitions, stoppedPartitions,
                 steps, allEmpty, outcome, waitVars>>

OpenBarrier ==
  /\ AllReceived /\ stoppedPartitions < N /\ barrierPartitions >= N
  /\ syncBarrierTimes' = syncBarrierTimes + 1
  /\ barrierPartitions' = 0
  /\ atBarrier' = {}
  /\ todo' = Part
  /\ cpc' = "barrierReplies"
  /\ UNCHANGED <<partVars, processes, sockets, atStep, empty, stopped, stepPartitions,
                 stoppedPartitions, steps, allEmpty, outcome, waitVars>>

BarrierNotFull ==
  /\ AllReceived /\ stoppedPartitions < N /\ barrierPartitions < N
  /\ cpc' = "stepCheck"
  /\ UNCHANGED <<partVars, processes, sockets, todo, flags, counters, progress,
                 outcome, waitVars>>

(* Once the last partition has its reply the step counter is looked at.    *)
ReplyBarrier(p) ==
  /\ cpc = "barrierReplies" /\ First(p, todo)
  /\ rep' = [rep EXCEPT ![p] = "ok"]
  /\ todo' = todo \ {p}
  /\ cpc' = IF todo = {p} THEN "stepCheck" ELSE cpc
  /\ UNCHANGED <<partVars, processes, req, flags, counters, progress, outcome, waitVars>>

(* A faulty OpenStepBarrier that opens one arrival too soon, and one that  *)
(* does not reset its counter.                                             *)
OpenStepBarrierEarly ==
  /\ cpc = "stepCheck" /\ stepPartitions >= N - 1
  /\ steps' = steps + 1
  /\ stepPartitions' = 0
  /\ atStep' = {}
  /\ allEmpty' = (\A p \in Part : p \in empty)
  /\ todo' = Part
  /\ cpc' = "stepReplies"
  /\ UNCHANGED <<partVars, processes, sockets, atBarrier, empty, stopped, barrierPartitions,
                 stoppedPartitions, syncBarrierTimes, outcome, waitVars>>

OpenStepBarrierKeepsCount ==
  /\ cpc = "stepCheck" /\ stepPartitions >= N
  /\ steps' = steps + 1
  /\ atStep' = {}
  /\ allEmpty' = (\A p \in Part : p \in empty)
  /\ todo' = Part
  /\ cpc' = "stepReplies"
  /\ UNCHANGED <<partVars, processes, sockets, atBarrier, empty, stopped, counters,
                 syncBarrierTimes, outcome, waitVars>>

OpenStepBarrier ==
  /\ cpc = "stepCheck" /\ stepPartitions >= N
  /\ steps' = steps + 1
  /\ stepPartitions' = 0
  /\ atStep' = {}
  /\ allEmpty' = (\A p \in Part : p \in empty)
  /\ todo' = Part
  /\ cpc' = "stepReplies"
  /\ UNCHANGED <<partVars, processes, sockets, atBarrier, empty, stopped, barrierPartitions,
                 stoppedPartitions, syncBarrierTimes, outcome, waitVars>>

StepNotFull ==
  /\ cpc = "stepCheck" /\ stepPartitions < N
  /\ cpc' = "poll"
  /\ UNCHANGED <<partVars, processes, sockets, todo, flags, counters, progress,
                 outcome, waitVars>>

ReplyStep(p) ==
  /\ cpc = "stepReplies" /\ First(p, todo)
  /\ rep' = [rep EXCEPT ![p] = IF allEmpty THEN "allEmpty" ELSE "notEmpty"]
  /\ todo' = todo \ {p}
  /\ cpc' = IF todo = {p} THEN "poll" ELSE cpc
  /\ UNCHANGED <<partVars, processes, req, flags, counters, progress, outcome, waitVars>>

(* A faulty Join that does not wait for the thread.                        *)
JoinUnawaited ==
  /\ cpc = "join"
  /\ cpc' = "exit"
  /\ UNCHANGED <<partVars, processes, sockets, todo, flags, counters, progress,
                 outcome, waitVars>>

(* startSim joins the wait thread before it looks at the status.           *)
Join ==
  /\ cpc = "join" /\ wpc = "returned"
  /\ cpc' = "exit"
  /\ UNCHANGED <<partVars, processes, sockets, todo, flags, counters, progress,
                 outcome, waitVars>>

-----------------------------------------------------------------------------
(* The coordinator's wait thread.                                          *)

Reapable(p) == wpc = "wait" /\ p \in pids /\ proc[p] \in Dead

(* A faulty ReapQuietly that does not look at the status.                  *)
ReapBlindly(p) ==
  /\ Reapable(p)
  /\ pids' = pids \ {p}
  /\ wpc' = IF pids = {p} THEN "returned" ELSE wpc
  /\ UNCHANGED <<partVars, processes, sockets, coordVars, toKill, control>>

(* A child that ended well, or badly once everything had finished.         *)
ReapQuietly(p) ==
  /\ Reapable(p) /\ (proc[p] = "ended" \/ allFinished)
  /\ pids' = pids \ {p}
  /\ wpc' = IF pids = {p} THEN "returned" ELSE wpc
  /\ UNCHANGED <<partVars, processes, sockets, coordVars, toKill, control>>

ReapFailure(p) ==
  /\ Reapable(p) /\ proc[p] # "ended" /\ ~allFinished
  /\ pids' = pids \ {p}
  /\ toKill' = pids \ {p}
  /\ wpc' = "kill"
  /\ UNCHANGED <<partVars, processes, sockets, coordVars, control>>

Kill(p) ==
  /\ wpc = "kill" /\ p \in toKill
  /\ toKill' = toKill \ {p}
  /\ proc' = [proc EXCEPT ![p] = IF @ \in Dead THEN @ ELSE "killed"]
  /\ UNCHANGED <<partVars, open, sockets, coordVars, wpc, pids, control>>

(* A faulty SendControl that does not wait for the kill loop.              *)
SendControlEarly ==
  /\ wpc = "kill"
  /\ control' = Failure
  /\ wpc' = "returned"
  /\ UNCHANGED <<partVars, processes, sockets, coordVars, pids, toKill>>

SendControl ==
  /\ wpc = "kill" /\ toKill = {}
  /\ control' = Failure
  /\ wpc' = "returned"
  /\ UNCHANGED <<partVars, processes, sockets, coordVars, pids, toKill>>

-----------------------------------------------------------------------------
PartitionNext(p) ==
  \/ Start(p) \/ PassStartBarrier(p)
  \/ Step(p) \/ PassStepBarrier(p) \/ LeaveLoop(p)
  \/ PassEndBarrier(p) \/ PassFinish(p) \/ Exit(p)

ErrorNext(p) == Throw(p) \/ Fail(p)

CoordinatorNext ==
  \/ Poll \/ PollControl
  \/ \E p \in Part : ReceiveBarrier(p) \/ ReceiveStep(p) \/ ReceiveFinished(p)
  \/ AllStopped \/ OpenBarrier \/ BarrierNotFull
  \/ OpenStepBarrier \/ StepNotFull
  \/ \E p \in Part : ReplyBarrier(p) \/ ReplyStep(p)
  \/ Join

WaitNext ==
  \/ \E p \in Part : ReapQuietly(p) \/ ReapFailure(p) \/ Kill(p)
  \/ SendControl

(* The run is over: nothing is left to do.                                 *)
Over == cpc = "exit" /\ UNCHANGED vars

Next ==
  \/ \E p \in Part : PartitionNext(p) \/ ErrorNext(p)
  \/ CoordinatorNext
  \/ WaitNext
  \/ Over

(* Every process and thread that can go on does: the scheduler is fair and *)
(* Simulation::step returns. Nothing makes a partition fail.               *)
Fairness ==
  /\ \A p \in Part : WF_vars(PartitionNext(p))
  /\ WF_vars(CoordinatorNext)
  /\ WF_vars(WaitNext)

Spec == Init /\ [][Next]_vars

FairSpec == Spec /\ Fairness

-----------------------------------------------------------------------------
(* Correctness.                                                            *)

TypeOK ==
  /\ pc \in [Part -> Waiting \cup {"loading", "loop", "closing", "terminating"}]
  /\ simTime \in [Part -> Nat]
  /\ maybeFinished \in [Part -> BOOLEAN]
  /\ finished \in [Part -> BOOLEAN]
  /\ proc \in [Part -> Dead \cup {"alive"}]
  /\ open \in [Part -> SUBSET Sockets]
  /\ req \in [Part -> {"none", "BARRIER", "STEP_EMPTY", "STEP_BUSY", "FINISHED"}]
  /\ rep \in [Part -> {"none", "ok", "repeated", "allEmpty", "notEmpty"}]
  /\ cpc \in {"poll", "receive", "barrierReplies", "stepCheck", "stepReplies",
             "join", "exit"}
  /\ todo \subseteq Part
  /\ atBarrier \subseteq Part /\ atStep \subseteq Part
  /\ empty \subseteq Part /\ stopped \subseteq Part
  /\ barrierPartitions \in Nat /\ stepPartitions \in Nat /\ stoppedPartitions \in Nat
  /\ syncBarrierTimes \in Nat /\ steps \in Nat /\ allEmpty \in BOOLEAN
  /\ allFinished \in BOOLEAN /\ finishStatus \in {0, Failure}
  /\ wpc \in {"wait", "kill", "returned"}
  /\ pids \subseteq Part /\ toKill \subseteq Part
  /\ control \in {0, Failure}

(* "Make sure every time step across partitions is synchronized"           *)
(* (PartitionManager.cpp:713): no clock is more than a step ahead of       *)
(* another, and one that is ahead waits at the step barrier without reply. *)
StepsSynchronized ==
  \A p, q \in Part :
    simTime[p] > simTime[q] => /\ simTime[p] = simTime[q] + 1
                               /\ pc[p] = "stepBarrier" /\ rep[p] = "none"

(* Every partition draws the same conclusion from a step: once one of them *)
(* has left the loop, none starts another step, whatever way the end is    *)
(* decided (isFinished). Otherwise one would wait at the end barrier and   *)
(* another at the step barrier, for ever.                                  *)
EndAgreed ==
  \A p, q \in Part :
    pc[p] \in AfterLoop =>
      /\ simTime[q] = simTime[p]
      /\ pc[q] = "loop" => IsFinished(simTime[q], finished[q])

(* "Ensure all servers have started before simulation begins"              *)
(* (PartitionManager.cpp:657), and its counterpart at the end: while a     *)
(* partition may call its neighbours, the handlers of every partition have *)
(* been started and not yet stopped. (An exception or an error takes them  *)
(* down with their process, in whatever order.)                            *)
ServersUp ==
  \A p, q \in Part :
    pc[p] \in {"loop", "stepBarrier"} => pc[q] \notin {"loading", "finishing", "closing"}

(* A partition is woken only by the answer to what it asked: a verdict for *)
(* a step (finishStepWait copies its first byte into a bool, whatever it   *)
(* is), "ok" for the rest, and never "repeated", the answer that the code  *)
(* calls undefined behaviour.                                              *)
RepliesFit ==
  \A p \in Part :
    rep[p] # "none" =>
      IF pc[p] = "stepBarrier" THEN rep[p] \in {"allEmpty", "notEmpty"}
      ELSE rep[p] = "ok" /\ pc[p] \in Waiting

(* Without an end time the run ends only when, in one and the same step,   *)
(* every partition reported itself empty, which none does before its own   *)
(* last departure (isMaybeFinished, and the loop over partitionEmpty).     *)
NoEarlyEnd ==
  \A p, q \in Part :
    EndTime < 0 /\ pc[p] \in AfterLoop =>
      maybeFinished[q] /\ simTime[p] > LastDepart[q] + 1

(* The barriers the partitions cross, as LockStep sees them: the start     *)
(* barrier, one per step, and the end barrier.                             *)
Crossed(p) ==
  CASE pc[p] \in {"loading", "startBarrier"}           -> 0
    [] pc[p] = "stepBarrier"                           -> simTime[p]
    [] pc[p] \in {"loop", "terminating", "endBarrier"} -> simTime[p] + 1
    [] OTHER                                           -> simTime[p] + 2

WaitsAt(p) ==
  CASE pc[p] \in {"startBarrier", "endBarrier"}    -> "barrier"
    [] pc[p] = "stepBarrier"                       -> "step"
    [] OTHER                                       -> "none"

LS == INSTANCE LockStep WITH
        Participant <- Part,
        waits   <- [p \in Part |-> WaitsAt(p)],
        crossed <- [p \in Part |-> Crossed(p)],
        vote    <- maybeFinished,
        heard   <- finished,
        opened  <- syncBarrierTimes + steps,
        verdict <- allEmpty

(* The sockets, flags and counters of coordinatePartitionsSync implement a *)
(* sequence of barriers, also while partitions fail.                       *)
ImplementsLockStep == LS!Spec

(* The wait thread speaks to the main thread only when no partition is     *)
(* left running, so no partition outlives a run that reports a failure.    *)
FailureKillsAll ==
  control # 0 \/ finishStatus # 0 => \A p \in Part : proc[p] \in Dead

(* The coordinator leaves no partition process behind, and exits with 0    *)
(* only if every partition simulated to the end.                           *)
CleanExit ==
  cpc = "exit" =>
    /\ \A p \in Part : proc[p] \in Dead
    /\ finishStatus = 0 =>
         \A p \in Part : /\ pc[p] \in {"finishing", "closing"}
                        /\ IsFinished(simTime[p], finished[p])

(* p waits for the answer to FINISHED, and the socket is closed.           *)
Abandoned(p) ==
  Running(p) /\ cpc = "join" /\ pc[p] = "finishing" /\ rep[p] = "none"

(* p waits in destroyAll for a socket that nobody will close.              *)
Blocked(p) == Running(p) /\ pc[p] = "terminating" /\ open[p] # {}

(* The coordinator comes to its exit: the barriers never block for good,   *)
(* every partition that has finished gets through destroyAll, and one that *)
(* fails ends the run ("check for partition pids in case of unexpected     *)
(* exit", ParallelSim.cpp:325). Only a partition that stays in destroyAll  *)
(* after an exception, or whose last reply was discarded, can keep it from *)
(* that, and only if it stays there for good.                              *)
Terminates ==
  <>(cpc = "exit") \/ \E p \in Part : <>[](Blocked(p) \/ Abandoned(p))

(* A partition that dies before it has announced its end makes the run     *)
(* exit with its status.                                                   *)
FailureReported ==
  \A p \in Part :
    (proc[p] = "failed" /\ pc[p] \notin {"finishing", "closing"})
      ~> (cpc = "exit" /\ finishStatus # 0)

(* "Partition stopping doesn't block signaling partition, so immediately   *)
(* respond" (ParallelSim.cpp:486): whoever sends FINISHED goes on.         *)
FinishAnswered ==
  \A p \in Part : pc[p] = "finishing" ~> pc[p] = "closing" \/ ~Running(p)
=============================================================================
