-------------------------- MODULE NeighborHandler --------------------------
(***************************************************************************)
(* One directed link between two neighbouring partitions. The client       *)
(* partition calls the owner partition through its PartitionEdgesStub; at  *)
(* the owner a NeighborPartitionHandler answers on a listen thread of its  *)
(* own, while the owner's main thread switches that thread on and off,     *)
(* applies the operations it has queued, and stops it at the end.          *)
(*                                                                         *)
(* The flags listening, stop_, term and threadWaiting are plain members    *)
(* that both threads read and write, for the most part without a lock:     *)
(* every access is a step of its own. The two partitions go through the    *)
(* same barriers (module LockStep); arrived counts their arrivals, so the  *)
(* step a partition is working at is arrived[c].                           *)
(***************************************************************************)
EXTENDS Naturals, Sequences

CONSTANTS
  MaxSteps,  \* steps of the simulation
  MaxCalls,  \* calls the client makes in one step, at most
  Capacity   \* OPERATION_QUEUE_SIZE

ASSUME BoundsAssumption ==
  MaxSteps \in Nat /\ MaxCalls \in Nat /\ Capacity \in Nat

VARIABLES
  (* the client's main thread *)
  cpc, calls,
  (* the owner's main thread *)
  mpc, wasListening,
  (* the listen thread, and the request it has in hand *)
  tpc, request,
  (* members of the handler *)
  listening, stop, term, threadWaiting, queue,
  notified,       \* the condition variable has been signalled
  (* the REQ/REP socket pair and the control socket *)
  req, rep, control,
  (* barriers *)
  arrived,
  (* what has become of the operations, in order, for the properties *)
  accepted, refused, applied

flags    == <<listening, stop, term, threadWaiting, notified>>
sockets  == <<req, rep, control>>
history  == <<accepted, refused, applied>>
client   == <<cpc, calls>>
main     == <<mpc, wasListening>>
thread   == <<tpc, request>>
vars     == <<client, main, thread, flags, queue, sockets, arrived, history>>

Setters == {"addVehicle", "setVehicleSpeed"}
Getter  == "get"   \* getEdgeVehicles, hasVehicle or hasVehicleInEdge
NoCall  == [op |-> "none", step |-> 0, num |-> 0]

Init ==
  /\ cpc = "work" /\ calls = 0
  /\ mpc = "loading" /\ wasListening = FALSE
  /\ tpc = "while" /\ request = NoCall
  /\ listening = FALSE /\ stop = FALSE /\ term = FALSE
  /\ threadWaiting = FALSE /\ notified = FALSE
  /\ queue = [s \in Setters |-> <<>>]
  /\ req = NoCall /\ rep = "none" /\ control = FALSE
  /\ arrived = [client |-> 0, owner |-> 0]
  /\ accepted = [s \in Setters |-> <<>>]
  /\ refused  = [s \in Setters |-> <<>>]
  /\ applied  = [s \in Setters |-> <<>>]

EndRound == MaxSteps + 2   \* start barrier, one barrier per step, end barrier

-----------------------------------------------------------------------------
(* A faulty client that goes on calling after its last step.               *)
CallLate(op) ==
  /\ cpc = "work" /\ arrived.client >= 1 /\ calls < MaxCalls
  /\ calls' = calls + 1
  /\ req' = [op |-> op, step |-> arrived.client, num |-> calls']
  /\ cpc' = "await"
  /\ UNCHANGED <<main, thread, flags, queue, rep, control, arrived, history>>

(* The client partition. It calls only during a step.                      *)

Call(op) ==
  /\ cpc = "work" /\ arrived.client \in 1 .. MaxSteps /\ calls < MaxCalls
  /\ calls' = calls + 1
  /\ req' = [op |-> op, step |-> arrived.client, num |-> calls']
  /\ cpc' = "await"
  /\ UNCHANGED <<main, thread, flags, queue, rep, control, arrived, history>>

Return ==
  /\ cpc = "await" /\ rep # "none"
  /\ rep' = "none"
  /\ cpc' = "work"
  /\ UNCHANGED <<calls, main, thread, flags, queue, req, control, arrived, history>>

ClientArrive ==
  /\ cpc = "work"
  /\ arrived' = [arrived EXCEPT !.client = @ + 1]
  /\ calls' = 0
  /\ cpc' = "barrier"
  /\ UNCHANGED <<main, thread, flags, queue, sockets, history>>

(* Behind the end barrier the stub is disconnected.                        *)
ClientCross ==
  /\ cpc = "barrier" /\ arrived.owner >= arrived.client
  /\ cpc' = IF arrived.client = EndRound THEN "gone" ELSE "work"
  /\ UNCHANGED <<calls, main, thread, flags, queue, sockets, arrived, history>>

-----------------------------------------------------------------------------
(* The owner's main thread.                                                *)

OwnerArrive ==
  /\ mpc \in {"loading", "work"}
  /\ arrived' = [arrived EXCEPT !.owner = @ + 1]
  /\ mpc' = "barrier"
  /\ UNCHANGED <<client, wasListening, thread, flags, queue, sockets, history>>

(* Behind the start barrier comes listenOn, behind a step barrier          *)
(* applyMutableOperations, behind the end barrier stop.                    *)
OwnerCross ==
  /\ mpc = "barrier" /\ arrived.client >= arrived.owner
  /\ mpc' = IF arrived.owner = 1 THEN "listenOn"
            ELSE IF arrived.owner = EndRound THEN "stop" ELSE "apply"
  /\ UNCHANGED <<client, wasListening, thread, flags, queue, sockets, arrived, history>>

(* A faulty applyMutableOperations that may leave operations for later.    *)
ApplyLater ==
  /\ mpc = "apply"
  /\ mpc' = "work"
  /\ UNCHANGED <<client, wasListening, thread, flags, queue, sockets, arrived, history>>

(* applyMutableOperations looks at the queues without the lock and has     *)
(* nothing to do when they are empty.                                      *)
ApplyNothing ==
  /\ mpc = "apply" /\ \A s \in Setters : queue[s] = <<>>
  /\ mpc' = "work"
  /\ UNCHANGED <<client, wasListening, thread, flags, queue, sockets, arrived, history>>

ApplyBegin ==
  /\ mpc = "apply" /\ \E s \in Setters : queue[s] # <<>>
  /\ wasListening' = listening
  /\ mpc' = "listenOff"
  /\ UNCHANGED <<client, thread, flags, queue, sockets, arrived, history>>

(* listenOff only raises a flag; it does not wait for the thread.          *)
ListenOff ==
  /\ mpc = "listenOff"
  /\ stop' = (listening \/ stop)
  /\ mpc' = "lock"
  /\ UNCHANGED <<client, wasListening, thread, listening, term, threadWaiting,
                 notified, queue, sockets, arrived, history>>

(* operationsBufferLock is held from here to ClearQueues.                  *)
LockQueues ==
  /\ mpc = "lock"
  /\ mpc' = "applying"
  /\ UNCHANGED <<client, wasListening, thread, flags, queue, sockets, arrived, history>>

(* Vehicle::add for each queued vehicle, then slowDown for each speed.     *)
ApplyQueues ==
  /\ mpc = "applying"
  /\ applied' = [s \in Setters |-> applied[s] \o queue[s]]
  /\ mpc' = "clear"
  /\ UNCHANGED <<client, wasListening, thread, flags, queue, sockets, arrived,
                 accepted, refused>>

(* A faulty end of applyMutableOperations that does not empty the queues,  *)
(* and one that turns listening on whether it was on before or not.        *)
KeepQueues ==
  /\ mpc = "clear"
  /\ mpc' = IF wasListening THEN "listenOn" ELSE "work"
  /\ UNCHANGED <<client, wasListening, thread, flags, queue, sockets, arrived, history>>

ClearAndListen ==
  /\ mpc = "clear"
  /\ queue' = [s \in Setters |-> <<>>]
  /\ mpc' = "listenOn"
  /\ UNCHANGED <<client, wasListening, thread, flags, sockets, arrived, history>>

ClearQueues ==
  /\ mpc = "clear"
  /\ queue' = [s \in Setters |-> <<>>]
  /\ mpc' = IF wasListening THEN "listenOn" ELSE "work"
  /\ UNCHANGED <<client, wasListening, thread, flags, sockets, arrived, history>>

(* A handler without operationsBufferLock.                                 *)
OpsLockMissing == FALSE

OpsLockHeld == mpc \in {"applying", "clear"}

(* listenOn, under secondThreadSignalLock.                                 *)
ListenOn ==
  /\ mpc = "listenOn"
  /\ listening' = TRUE
  /\ mpc' = "stopFalse"
  /\ UNCHANGED <<client, wasListening, thread, stop, term, threadWaiting, notified,
                 queue, sockets, arrived, history>>

StopFalse ==
  /\ mpc = "stopFalse"
  /\ stop' = FALSE
  /\ mpc' = "notify"
  /\ UNCHANGED <<client, wasListening, thread, listening, term, threadWaiting,
                 notified, queue, sockets, arrived, history>>

(* A faulty listenOn that wakes nobody.                                    *)
NotifyNobody ==
  /\ mpc = "notify"
  /\ mpc' = "work"
  /\ UNCHANGED <<client, wasListening, thread, flags, queue, sockets, arrived, history>>

Notify ==
  /\ mpc = "notify"
  /\ notified' = (notified \/ (threadWaiting /\ tpc = "sleeping"))
  /\ mpc' = "work"
  /\ UNCHANGED <<client, wasListening, thread, listening, stop, term, threadWaiting,
                 queue, sockets, arrived, history>>

SignalLockHeld == mpc \in {"stopFalse", "notify"}

(* stop returns at once when the thread has been told to stop before.      *)
Stop ==
  /\ mpc = "stop"
  /\ term' = (term \/ ~stop)
  /\ mpc' = IF stop THEN "join" ELSE "stopTrue"
  /\ UNCHANGED <<client, wasListening, thread, listening, stop, threadWaiting,
                 notified, queue, sockets, arrived, history>>

StopTrue ==
  /\ mpc = "stopTrue"
  /\ stop' = TRUE
  /\ mpc' = "stopMessage"
  /\ UNCHANGED <<client, wasListening, thread, listening, term, threadWaiting,
                 notified, queue, sockets, arrived, history>>

StopMessage ==
  /\ mpc = "stopMessage"
  /\ control' = TRUE
  /\ mpc' = "join"
  /\ UNCHANGED <<client, wasListening, thread, flags, queue, req, rep, arrived, history>>

Join ==
  /\ mpc = "join" /\ tpc = "done"
  /\ mpc' = "closed"
  /\ UNCHANGED <<client, wasListening, thread, flags, queue, sockets, arrived, history>>

-----------------------------------------------------------------------------
(* The listen thread, listenThreadLogic and listenCheck.                   *)

Goto(from, to) == tpc = from /\ tpc' = to

Quiet == UNCHANGED <<client, main, request, flags, queue, sockets, arrived, history>>

WhileNotTerm  == ~term /\ Goto("while", "ifListening") /\ Quiet
WhileTerm     == term /\ Goto("while", "done") /\ Quiet
IfListening   == listening /\ Goto("ifListening", "inner") /\ Quiet
IfNotListening == ~listening /\ Goto("ifListening", "markWaiting") /\ Quiet
InnerGoOn     == ~stop /\ Goto("inner", "poll") /\ Quiet
InnerStop     == stop /\ Goto("inner", "stopped") /\ Quiet

(* zmq::poll blocks until a request or the message of stop is there; the   *)
(* latter stays on its socket.                                             *)
PollControl == control /\ Goto("poll", "inner") /\ Quiet

PollRequest ==
  /\ ~control /\ req # NoCall
  /\ Goto("poll", "handle")
  /\ request' = req
  /\ req' = NoCall
  /\ UNCHANGED <<client, main, flags, queue, rep, control, arrived, history>>

HandleGetter ==
  /\ request.op = Getter
  /\ Goto("handle", "inner")
  /\ rep' = "value"
  /\ UNCHANGED <<client, main, request, flags, queue, req, control, arrived, history>>

(* Under operationsBufferLock. A full queue refuses the operation; the     *)
(* caller is told "ok" all the same.                                       *)
HandleSetter ==
  /\ request.op \in Setters /\ ~OpsLockHeld
  /\ Goto("handle", "reply")
  /\ LET s == request.op IN
       IF Len(queue[s]) < Capacity
       THEN /\ queue' = [queue EXCEPT ![s] = Append(@, request)]
            /\ accepted' = [accepted EXCEPT ![s] = Append(@, request)]
            /\ UNCHANGED refused
       ELSE /\ refused' = [refused EXCEPT ![s] = Append(@, request)]
            /\ UNCHANGED <<queue, accepted>>
  /\ UNCHANGED <<client, main, request, flags, sockets, arrived, applied>>

ReplyOk ==
  /\ Goto("reply", "inner")
  /\ rep' = "ok"
  /\ UNCHANGED <<client, main, request, flags, queue, req, control, arrived, history>>

LeaveInner ==
  /\ Goto("stopped", "while")
  /\ listening' = FALSE
  /\ UNCHANGED <<client, main, request, stop, term, threadWaiting, notified, queue,
                 sockets, arrived, history>>

MarkWaiting ==
  /\ Goto("markWaiting", "lockSignal")
  /\ threadWaiting' = TRUE
  /\ UNCHANGED <<client, main, request, listening, stop, term, notified, queue,
                 sockets, arrived, history>>

(* The wait has a predicate: it is over only when listening is true.       *)
WaitOver ==
  /\ ~SignalLockHeld /\ listening
  /\ tpc = "lockSignal" \/ (tpc = "sleeping" /\ notified)
  /\ tpc' = "while"
  /\ threadWaiting' = FALSE
  /\ notified' = FALSE
  /\ UNCHANGED <<client, main, request, listening, stop, term, queue, sockets,
                 arrived, history>>

Sleep ==
  /\ ~SignalLockHeld /\ ~listening
  /\ tpc = "lockSignal" \/ (tpc = "sleeping" /\ notified)
  /\ tpc' = "sleeping"
  /\ notified' = FALSE
  /\ UNCHANGED <<client, main, request, listening, stop, term, threadWaiting, queue,
                 sockets, arrived, history>>

-----------------------------------------------------------------------------
ClientNext ==
  \/ \E op \in Setters \cup {Getter} : Call(op)
  \/ Return \/ ClientArrive \/ ClientCross

MainNext ==
  \/ OwnerArrive \/ OwnerCross
  \/ ApplyNothing \/ ApplyBegin \/ ListenOff \/ LockQueues \/ ApplyQueues \/ ClearQueues
  \/ ListenOn \/ StopFalse \/ Notify
  \/ Stop \/ StopTrue \/ StopMessage \/ Join

ThreadNext ==
  \/ WhileNotTerm \/ WhileTerm \/ IfListening \/ IfNotListening
  \/ InnerGoOn \/ InnerStop \/ PollControl \/ PollRequest
  \/ HandleGetter \/ HandleSetter \/ ReplyOk \/ LeaveInner
  \/ MarkWaiting \/ WaitOver \/ Sleep

Next == ClientNext \/ MainNext \/ ThreadNext

(* The three threads are scheduled fairly.                                 *)
Fairness == WF_vars(ClientNext) /\ WF_vars(MainNext) /\ WF_vars(ThreadNext)

Spec == Init /\ [][Next]_vars

FairSpec == Spec /\ Fairness

-----------------------------------------------------------------------------
(* Correctness.                                                            *)

Op == [op : Setters, step : 1 .. MaxSteps, num : 1 .. MaxCalls]

TypeOK ==
  /\ cpc \in {"work", "await", "barrier", "gone"} /\ calls \in 0 .. MaxCalls
  /\ mpc \in {"loading", "work", "barrier", "apply", "listenOff", "lock", "applying",
             "clear", "listenOn", "stopFalse", "notify", "stop", "stopTrue",
             "stopMessage", "join", "closed"}
  /\ wasListening \in BOOLEAN
  /\ tpc \in {"while", "ifListening", "inner", "poll", "handle", "reply", "stopped",
             "markWaiting", "lockSignal", "sleeping", "done"}
  /\ \A c \in {request, req} :
       c = NoCall \/ c \in [op : Setters \cup {Getter}, step : 1 .. MaxSteps,
                           num : 1 .. MaxCalls]
  /\ {listening, stop, term, threadWaiting, notified, control} \subseteq BOOLEAN
  /\ rep \in {"none", "ok", "value"}
  /\ \A s \in Setters :
       {queue[s], accepted[s], refused[s], applied[s]} \subseteq Seq(Op)
  /\ arrived \in [{"client", "owner"} -> 0 .. EndRound]

(* Every operation the queue accepted is applied once and in the order of  *)
(* the calls (operationsBufferLock: "to be 100% sure with the applying of  *)
(* operations later"): what is not applied yet is what is still queued.    *)
AppliedOnceInOrder ==
  \A s \in Setters :
    accepted[s] = IF mpc = "clear" THEN applied[s] ELSE applied[s] \o queue[s]

(* An operation of step k is applied when the owner comes to step k + 1    *)
(* (PartitionManager.cpp:718), at the earliest in the barrier before that, *)
(* when the client is already in step k and the owner still applying.      *)
AppliedInTheirStep ==
  \A s \in Setters :
    /\ mpc = "work" =>
         \A i \in 1 .. Len(accepted[s]) :
           accepted[s][i].step < arrived.owner => i <= Len(applied[s])
    /\ \A i \in 1 .. Len(applied[s]) : applied[s][i].step <= arrived.owner

(* When stop is called the client has nothing under way and no operation   *)
(* is left in the queues: nothing is lost at the end of the run.           *)
NothingLeftAtStop ==
  mpc \in {"stop", "stopTrue", "stopMessage", "join", "closed"} =>
    /\ \A s \in Setters : queue[s] = <<>>
    /\ req = NoCall /\ tpc \notin {"handle", "reply"} /\ cpc \in {"barrier", "gone"}

(* The queue never refuses an operation as long as it has room for the     *)
(* calls of two steps: those of the step just ended and those a client     *)
(* that is one step ahead makes before the owner has applied them.         *)
NeverRefused ==
  Capacity >= 2 * MaxCalls => \A s \in Setters : refused[s] = <<>>

(* The listen thread sleeps, and nobody is about to turn listening on.     *)
LostWakeup ==
  /\ tpc = "sleeping" /\ ~listening /\ ~notified
  /\ mpc \notin {"loading", "listenOn", "stopFalse", "notify"}
  /\ mpc = "barrier" => arrived.owner > 1
  /\ wasListening => mpc \notin {"listenOff", "lock", "applying", "clear"}

(* The only way a call stays without an answer, or the owner does not come *)
(* to its end, is the listen thread having missed a listenOn: it stores    *)
(* listening = false after the main thread has set it to true again.       *)
AnsweredUnlessAsleep == cpc = "await" ~> cpc # "await" \/ LostWakeup
ClosesUnlessAsleep   == <>(mpc = "closed" \/ LostWakeup)

(* And then it sleeps for good: applyMutableOperations only turns          *)
(* listening on again if it was on before, and stop only sends a message.  *)
LostForever == [][LostWakeup => LostWakeup']_vars

(* "Immediately reply to getter requests ... Will immediately reply to     *)
(* setters too" (NeighborPartitionHandler.hpp:66): every call is answered. *)
EveryCallAnswered == cpc = "await" ~> cpc # "await"

(* "Apply them after to avoid interference" (PartitionManager.cpp:718):    *)
(* no getter reads the simulation while the owner changes it.              *)
NoInterference == ~(mpc = "applying" /\ tpc = "handle" /\ request.op = Getter)
=============================================================================
