----------------------- MODULE NeighborHandlerProofs -----------------------
(***************************************************************************)
(* Proofs about one neighbour handler, for every number of steps, every    *)
(* number of calls in a step and every capacity of the queues.             *)
(*                                                                         *)
(* The two partitions are never more than a barrier apart (InStep), and a  *)
(* call is in one place until it is answered (OneCall).  So the operations *)
(* in a queue belong to the step the owner has come to or to the one       *)
(* before, and stand in the order of their calls (Queued): there are at    *)
(* most two steps' calls in it, and none is left when the owner stops.     *)
(***************************************************************************)
EXTENDS NeighborHandler, SequenceTheorems, TLAPS

Stopping == {"stop", "stopTrue", "stopMessage", "join", "closed"}

(* Where the operations of the last step have been applied.                *)
Settled == {"listenOn", "stopFalse", "notify", "work"}

Serving == {"inner", "poll", "handle", "reply", "stopped"}

Request == [op : Setters \cup {Getter}, step : 1 .. MaxSteps, num : 1 .. MaxCalls]

InStep ==
  /\ arrived.client <= arrived.owner + 1
  /\ cpc # "barrier" => arrived.client <= arrived.owner
  /\ cpc \in {"work", "await"} => arrived.client < EndRound
  /\ cpc = "await" => arrived.client \in 1 .. MaxSteps /\ calls \in 1 .. MaxCalls
  /\ arrived.owner <= arrived.client + 1
  /\ mpc # "loading" => 1 <= arrived.owner
  /\ mpc \notin {"loading", "barrier"} => arrived.owner <= arrived.client
  /\ mpc \notin Stopping \cup {"barrier"} => arrived.owner < EndRound
  /\ mpc \in Stopping => arrived.owner = EndRound
  /\ mpc = "loading" => arrived.owner = 0

(* The call in hand is on its way, being handled, or answered.             *)
OneCall ==
  /\ cpc # "await" \/ rep # "none" => req = NoCall /\ tpc \notin {"handle", "reply"}
  /\ cpc # "await" => rep = "none"
  /\ tpc \in {"handle", "reply"} => req = NoCall
  /\ req # NoCall => req.step = arrived.client /\ req.num = calls
  /\ tpc = "handle" => request # NoCall /\ request.step = arrived.client /\ request.num = calls

Unhandled == req # NoCall \/ tpc = "handle"

(* Nothing is served before the first barrier.                             *)
NotYet ==
  mpc = "loading" \/ (mpc = "barrier" /\ arrived.owner <= 1) =>
    ~listening /\ tpc \notin Serving /\ \A s \in Setters : queue[s] = <<>>

(* The operation o at place i of a queue.                                  *)
InPlace(o, i) ==
  /\ o.step <= arrived.owner /\ o.step <= arrived.client /\ arrived.owner <= o.step + 1
  /\ o.step = arrived.client => o.num <= calls /\ (Unhandled => o.num < calls)
  /\ o.step < arrived.owner => i <= o.num
  /\ i <= MaxCalls + o.num
  /\ mpc \in Settled => o.step = arrived.owner /\ i <= o.num

Queued == \A s \in Setters : \A i \in 1 .. Len(queue[s]) : InPlace(queue[s][i], i)

Lists ==
  /\ queue \in [Setters -> Seq(Op)] /\ accepted \in [Setters -> Seq(Op)]
  /\ refused \in [Setters -> Seq(Op)] /\ applied \in [Setters -> Seq(Op)]

AppliedBefore ==
  \A s \in Setters : \A i \in 1 .. Len(applied[s]) : applied[s][i].step <= arrived.owner

IInv ==
  /\ TypeOK /\ Lists /\ InStep /\ OneCall /\ NotYet /\ Queued
  /\ AppliedOnceInOrder /\ AppliedBefore /\ NeverRefused

USE BoundsAssumption DEF BoundsAssumption

-----------------------------------------------------------------------------
(* The invariant holds at the start.                                       *)
LEMMA Start == Init => IInv
<1> SUFFICES ASSUME Init PROVE IInv
  OBVIOUS
<1>1. Lists
  BY DEF Init, Lists
<1>2. InStep /\ OneCall /\ NotYet /\ Queued /\ AppliedBefore /\ NeverRefused
  BY DEF Init, InStep, OneCall, NotYet, Queued, AppliedBefore, NeverRefused, EndRound, Stopping,
         Serving, NoCall
<1>3. AppliedOnceInOrder
  BY DEF Init, AppliedOnceInOrder
<1>4. TypeOK
  <2>1. {listening, stop, term, threadWaiting, notified, control} \subseteq BOOLEAN /\ wasListening \in BOOLEAN
    BY Zenon DEF Init
  <2>2. \A s \in Setters : {queue[s], accepted[s], refused[s], applied[s]} \subseteq Seq(Op)
    BY <1>1 DEF Lists
  <2>3. arrived \in [{"client", "owner"} -> 0 .. EndRound] /\ calls \in 0 .. MaxCalls
    BY DEF Init, EndRound
  <2> QED BY <2>1, <2>2, <2>3 DEF Init, TypeOK
<1> QED BY <1>1, <1>2, <1>3, <1>4 DEF IInv

(* Barriers.                                                               *)
LEMMA InStepStep == ASSUME TypeOK, InStep, [Next]_vars PROVE InStep'
<1>1. arrived \in [{"client", "owner"} -> 0 .. EndRound] /\ calls \in 0 .. MaxCalls
  BY DEF TypeOK
<1> USE <1>1 DEF InStep, EndRound, Stopping
<1>2. CASE ClientNext
  <2>1. ASSUME NEW op \in Setters \cup {Getter}, Call(op) PROVE InStep'
    BY <2>1 DEF Call, main
  <2>2. CASE Return
    BY <2>2 DEF Return, main
  <2>3. CASE ClientArrive
    BY <2>3 DEF ClientArrive, main
  <2>4. CASE ClientCross
    BY <2>4 DEF ClientCross, main
  <2> QED BY <1>2, <2>1, <2>2, <2>3, <2>4 DEF ClientNext
<1>3. CASE MainNext
  <2>1. CASE OwnerArrive
    BY <2>1 DEF OwnerArrive, client
  <2>2. CASE OwnerCross
    BY <2>2 DEF OwnerCross, client
  <2>3. CASE ApplyNothing \/ ApplyBegin \/ ListenOff \/ LockQueues \/ ApplyQueues \/ ClearQueues
    BY <2>3 DEF ApplyNothing, ApplyBegin, ListenOff, LockQueues, ApplyQueues, ClearQueues, client
  <2>4. CASE ListenOn \/ StopFalse \/ Notify \/ Stop \/ StopTrue \/ StopMessage \/ Join
    BY <2>4 DEF ListenOn, StopFalse, Notify, Stop, StopTrue, StopMessage, Join, client
  <2> QED BY <1>3, <2>1, <2>2, <2>3, <2>4 DEF MainNext
<1>4. CASE ThreadNext
  BY <1>4 DEF ThreadNext, WhileNotTerm, WhileTerm, IfListening, IfNotListening, InnerGoOn, InnerStop,
     PollControl, PollRequest, HandleGetter, HandleSetter, ReplyOk, LeaveInner, MarkWaiting,
     WaitOver, Sleep, Quiet, client, main
<1>5. CASE UNCHANGED vars
  BY <1>5 DEF vars, client, main
<1> QED BY <1>2, <1>3, <1>4, <1>5 DEF Next

(* The call and its answer.                                                *)
LEMMA OneCallStep == ASSUME TypeOK, InStep, OneCall, [Next]_vars PROVE OneCall'
<1>1. arrived \in [{"client", "owner"} -> 0 .. EndRound] /\ calls \in 0 .. MaxCalls
  BY DEF TypeOK
<1> USE <1>1 DEF OneCall, InStep
<1>2. CASE ClientNext
  <2>1. ASSUME NEW op \in Setters \cup {Getter}, Call(op) PROVE OneCall'
    BY <2>1 DEF Call, thread, Setters, Getter, NoCall
  <2>2. CASE Return
    BY <2>2 DEF Return, thread
  <2>3. CASE ClientArrive \/ ClientCross
    BY <2>3 DEF ClientArrive, ClientCross, thread, sockets
  <2> QED BY <1>2, <2>1, <2>2, <2>3 DEF ClientNext
<1>3. CASE MainNext
  <2>1. CASE OwnerArrive
    BY <2>1 DEF OwnerArrive, client, thread, sockets
  <2>2. CASE OwnerCross \/ ApplyNothing \/ ApplyBegin \/ ListenOff \/ LockQueues \/ ApplyQueues \/ ClearQueues
    BY <2>2 DEF OwnerCross, ApplyNothing, ApplyBegin, ListenOff, LockQueues, ApplyQueues,
                ClearQueues, client, thread, sockets
  <2>3. CASE ListenOn \/ StopFalse \/ Notify \/ Stop \/ StopTrue \/ StopMessage \/ Join
    BY <2>3 DEF ListenOn, StopFalse, Notify, Stop, StopTrue, StopMessage, Join, client, thread,
                sockets
  <2> QED BY <1>3, <2>1, <2>2, <2>3 DEF MainNext
<1>4. CASE ThreadNext
  <2>1. CASE PollRequest
    BY <2>1 DEF PollRequest, Goto, client
  <2>2. CASE HandleGetter \/ HandleSetter \/ ReplyOk
    BY <2>2 DEF HandleGetter, HandleSetter, ReplyOk, Goto, client, sockets
  <2>3. CASE \/ WhileNotTerm \/ WhileTerm \/ IfListening \/ IfNotListening \/ InnerGoOn \/ InnerStop
             \/ PollControl \/ LeaveInner \/ MarkWaiting \/ WaitOver \/ Sleep
    BY <2>3 DEF WhileNotTerm, WhileTerm, IfListening, IfNotListening, InnerGoOn, InnerStop,
       PollControl, LeaveInner, MarkWaiting, WaitOver, Sleep, Goto, Quiet, client, sockets
  <2> QED BY <1>4, <2>1, <2>2, <2>3 DEF ThreadNext
<1>5. CASE UNCHANGED vars
  BY <1>5 DEF vars, client, thread, sockets
<1> QED BY <1>2, <1>3, <1>4, <1>5 DEF Next

(* Before the first barrier.                                               *)
LEMMA NotYetStep == ASSUME TypeOK, InStep, NotYet, [Next]_vars PROVE NotYet'
<1>1. arrived \in [{"client", "owner"} -> 0 .. EndRound]
  BY DEF TypeOK
<1> USE <1>1 DEF NotYet, InStep, Serving
<1>2. CASE ClientNext
  BY <1>2 DEF ClientNext, Call, Return, ClientArrive, ClientCross, main, thread, flags
<1>3. CASE MainNext
  <2>1. CASE OwnerArrive
    BY <2>1 DEF OwnerArrive, thread, flags
  <2>2. CASE OwnerCross \/ ApplyNothing \/ ApplyBegin \/ ListenOff \/ LockQueues \/ ApplyQueues \/ ClearQueues
    BY <2>2 DEF OwnerCross, ApplyNothing, ApplyBegin, ListenOff, LockQueues, ApplyQueues, ClearQueues
  <2>3. CASE ListenOn \/ StopFalse \/ Notify \/ Stop \/ StopTrue \/ StopMessage \/ Join
    BY <2>3 DEF ListenOn, StopFalse, Notify, Stop, StopTrue, StopMessage, Join
  <2> QED BY <1>3, <2>1, <2>2, <2>3 DEF MainNext
<1>4. CASE ThreadNext
  <2>1. CASE HandleGetter \/ HandleSetter \/ ReplyOk \/ PollRequest \/ PollControl \/ InnerGoOn \/ InnerStop \/ LeaveInner
    BY <2>1 DEF HandleGetter, HandleSetter, ReplyOk, PollRequest, PollControl, InnerGoOn, InnerStop, LeaveInner, Goto,
       Quiet, main, flags
  <2>2. CASE \/ WhileNotTerm \/ WhileTerm \/ IfListening \/ IfNotListening \/ MarkWaiting \/ WaitOver \/ Sleep
    BY <2>2 DEF WhileNotTerm, WhileTerm, IfListening, IfNotListening, MarkWaiting, WaitOver,
       Sleep, Goto, Quiet, main, flags
  <2> QED BY <1>4, <2>1, <2>2 DEF ThreadNext
<1>5. CASE UNCHANGED vars
  BY <1>5 DEF vars, main, thread, flags
<1> QED BY <1>2, <1>3, <1>4, <1>5 DEF Next

-----------------------------------------------------------------------------
(* The queues.                                                             *)

(* What stands in a queue is an operation.                                 *)
LEMMA QueuedOp ==
  ASSUME Lists, NEW s \in Setters, NEW i \in 1 .. Len(queue[s])
  PROVE  queue[s][i] \in Op /\ queue[s][i].step \in 1 .. MaxSteps /\ queue[s][i].num \in 1 .. MaxCalls
<1>1. queue[s] \in Seq(Op)
  BY DEF Lists
<1>2. queue[s][i] \in Op
  BY <1>1
<1> QED BY <1>2 DEF Op

(* What the listen thread appends is the request in hand.                  *)
LEMMA Handled ==
  ASSUME TypeOK, Lists, OneCall, HandleSetter
  PROVE  /\ request.op \in Setters /\ request \in Op /\ tpc = "handle"
         /\ request.step = arrived.client /\ request.num = calls
<1>1. request.op \in Setters /\ tpc = "handle"
  BY DEF HandleSetter, Goto
<1>2. request \in Request
  BY <1>1, Zenon DEF TypeOK, OneCall, Request
<1> QED BY <1>1, <1>2 DEF OneCall, Request, Op

(* Queues and histories stay lists of operations.                          *)
LEMMA ListsStep == ASSUME TypeOK, Lists, OneCall, [Next]_vars PROVE Lists'
<1> USE DEF Lists
<1>1. CASE ClientNext
  BY <1>1 DEF ClientNext, Call, Return, ClientArrive, ClientCross, history
<1>2. CASE MainNext
  <2>1. CASE ApplyQueues
    BY <2>1, ConcatProperties DEF ApplyQueues
  <2>2. CASE ClearQueues
    <3>1. <<>> \in Seq(Op)
      OBVIOUS
    <3>2. queue' \in [Setters -> Seq(Op)]
      BY <2>2, <3>1, Zenon DEF ClearQueues
    <3> QED BY <2>2, <3>2 DEF ClearQueues, history
  <2>3. CASE \/ OwnerArrive \/ OwnerCross \/ ApplyNothing \/ ApplyBegin \/ ListenOff \/ LockQueues
             \/ ListenOn \/ StopFalse \/ Notify \/ Stop \/ StopTrue \/ StopMessage \/ Join
    BY <2>3 DEF OwnerArrive, OwnerCross, ApplyNothing, ApplyBegin, ListenOff, LockQueues, ListenOn,
                StopFalse, Notify, Stop, StopTrue, StopMessage, Join, history
  <2> QED BY <1>2, <2>1, <2>2, <2>3 DEF MainNext
<1>3. CASE ThreadNext
  <2>1. CASE HandleSetter
    <3>1. request.op \in Setters /\ request \in Op
      BY <2>1, Handled
    <3>2. \A q \in Seq(Op) : Append(q, request) \in Seq(Op)
      BY <3>1, AppendProperties
    <3>3. /\ queue' = queue \/ queue' = [queue EXCEPT ![request.op] = Append(@, request)]
          /\ accepted' = accepted \/ accepted' = [accepted EXCEPT ![request.op] = Append(@, request)]
          /\ refused' = refused \/ refused' = [refused EXCEPT ![request.op] = Append(@, request)]
          /\ applied' = applied
      BY <2>1 DEF HandleSetter
    <3>4. ASSUME NEW q \in [Setters -> Seq(Op)]
          PROVE  [q EXCEPT ![request.op] = Append(@, request)] \in [Setters -> Seq(Op)]
      BY <3>1, <3>2
    <3> QED BY <3>3, <3>4, Zenon
  <2>2. CASE \/ WhileNotTerm \/ WhileTerm \/ IfListening \/ IfNotListening \/ InnerGoOn \/ InnerStop
             \/ PollControl
    BY <2>2 DEF WhileNotTerm, WhileTerm, IfListening, IfNotListening, InnerGoOn, InnerStop,
                PollControl, Quiet, history
  <2>3. CASE PollRequest \/ HandleGetter \/ ReplyOk \/ LeaveInner \/ MarkWaiting \/ WaitOver \/ Sleep
    BY <2>3 DEF PollRequest, HandleGetter, ReplyOk, LeaveInner, MarkWaiting, WaitOver, Sleep, history
  <2> QED BY <1>3, <2>1, <2>2, <2>3 DEF ThreadNext
<1>4. CASE UNCHANGED vars
  BY <1>4 DEF vars, history
<1> QED BY <1>1, <1>2, <1>3, <1>4 DEF Next

(* There is room for the request in hand behind the queue.                 *)
LEMMA NextPlace ==
  ASSUME TypeOK, Lists, InStep, OneCall, NotYet, Queued, HandleSetter
  PROVE  LET n == Len(queue[request.op]) + 1
         IN /\ n <= MaxCalls + request.num
            /\ request.step < arrived.owner => n <= request.num
            /\ mpc \in Settled => request.step = arrived.owner /\ n <= request.num
            /\ request.step <= arrived.owner /\ arrived.owner <= request.step + 1
<1> DEFINE q == queue[request.op]
<1>1. request.op \in Setters /\ request.step = arrived.client /\ request.num = calls /\ tpc = "handle"
  BY Handled
<1>2. q \in Seq(Op) /\ Len(q) \in Nat
  BY <1>1 DEF Lists
<1>3. arrived.client \in Nat /\ arrived.owner \in Nat /\ calls \in Nat
  BY DEF TypeOK, EndRound
<1>4. /\ cpc = "await" /\ calls >= 1 /\ calls <= MaxCalls
      /\ arrived.client <= arrived.owner /\ arrived.owner <= arrived.client + 1
  BY <1>1, <1>3 DEF OneCall, InStep
<1>5. mpc \in Settled => arrived.owner = arrived.client
  BY <1>3, <1>4 DEF InStep, Settled
<1>6. CASE Len(q) = 0
  BY <1>1, <1>3, <1>4, <1>5, <1>6
<1>7. CASE Len(q) > 0
  <2>1. Len(q) \in 1 .. Len(q)
    BY <1>2, <1>7
  <2> DEFINE o == q[Len(q)]
  <2>2. InPlace(o, Len(q)) /\ o.step \in 1 .. MaxSteps /\ o.num \in 1 .. MaxCalls
    BY <1>1, <2>1, QueuedOp DEF Queued
  <2>3. o.step = arrived.client => o.num < calls
    BY <1>1, <2>2 DEF InPlace, Unhandled
  <2>4. o.step # arrived.client => o.step < arrived.owner /\ o.step < arrived.client /\ arrived.client = arrived.owner
    BY <1>3, <1>4, <2>2 DEF InPlace
  <2> HIDE DEF o
  <2> QED BY <1>1, <1>2, <1>3, <1>4, <1>5, <2>2, <2>3, <2>4 DEF InPlace
<1> QED BY <1>2, <1>6, <1>7

(* Where the queues stay as they are, each operation is looked at alone.   *)
LEMMA Kept ==
  ASSUME Lists, Queued, queue' = queue,
         \A o \in Op : \A i \in Nat : InPlace(o, i) => InPlace(o, i)'
  PROVE  Queued'
<1> SUFFICES ASSUME NEW s \in Setters, NEW i \in 1 .. Len(queue'[s]) PROVE InPlace(queue[s][i], i)'
  BY DEF Queued
<1>1. i \in 1 .. Len(queue[s]) /\ i \in Nat
  BY DEF Lists
<1>2. PICK o \in Op : o = queue[s][i]
  BY <1>1, QueuedOp
<1>3. InPlace(o, i)
  BY <1>1, <1>2 DEF Queued
<1>4. InPlace(o, i)'
  BY <1>1, <1>3
<1>5. o = queue'[s][i]
  BY <1>2
<1> QED BY <1>4, <1>5 DEF InPlace

(* A new operation goes behind those of its step and of the step before.   *)
LEMMA QueuedSetter ==
  ASSUME TypeOK, Lists, InStep, OneCall, NotYet, Queued, HandleSetter,
         queue' = [queue EXCEPT ![request.op] = Append(@, request)]
  PROVE  Queued'
<1> DEFINE r == request  s == request.op
<1>1. s \in Setters /\ r \in Op /\ r.step = arrived.client /\ r.num = calls /\ calls \in Nat
  BY Handled DEF TypeOK
<1>2. queue[s] \in Seq(Op) /\ Len(queue[s]) \in Nat
  BY <1>1 DEF Lists
<1>3. UNCHANGED <<arrived, calls, mpc>> /\ ~Unhandled' /\ Unhandled
  BY DEF HandleSetter, Goto, sockets, OneCall, client, main, Unhandled
<1>4. queue'[s] = Append(queue[s], r) /\ \A t \in Setters \ {s} : queue'[t] = queue[t]
  BY <1>1 DEF Lists
<1>5. /\ Len(queue'[s]) = Len(queue[s]) + 1 /\ queue'[s][Len(queue[s]) + 1] = r
      /\ \A i \in 1 .. Len(queue[s]) : queue'[s][i] = queue[s][i]
  BY <1>1, <1>2, <1>4, AppendProperties
<1> SUFFICES ASSUME NEW t \in Setters, NEW i \in 1 .. Len(queue'[t]) PROVE InPlace(queue[t][i], i)'
  BY DEF Queued
<1>6. CASE t = s /\ i = Len(queue[s]) + 1
  <2>1. PICK o : o = r
    OBVIOUS
  <2>2. /\ o.step = arrived.client /\ o.num = calls
        /\ i <= MaxCalls + o.num
        /\ o.step < arrived.owner => i <= o.num
        /\ mpc \in Settled => o.step = arrived.owner /\ i <= o.num
        /\ o.step <= arrived.owner /\ arrived.owner <= o.step + 1
    BY <1>1, <1>6, <2>1, NextPlace
  <2>3. arrived.client \in Nat /\ queue'[t][i] = o
    BY <1>5, <1>6, <2>1 DEF TypeOK, EndRound
  <2>4. o.step <= arrived.client /\ o.num <= calls
    BY <1>1, <2>2, <2>3
  <2>5. InPlace(o, i)'
    BY <1>3, <2>2, <2>4 DEF InPlace
  <2> QED BY <2>3, <2>5 DEF InPlace
<1>7. CASE ~(t = s /\ i = Len(queue[s]) + 1)
  <2>1. i \in 1 .. Len(queue[t]) /\ queue'[t][i] = queue[t][i]
    <3>1. CASE t = s
      BY <1>2, <1>5, <1>7, <3>1
    <3>2. CASE t # s
      BY <1>4, <3>2
    <3> QED BY <3>1, <3>2
  <2>2. PICK o \in Op : o = queue[t][i]
    BY <2>1, QueuedOp
  <2>3. InPlace(o, i)
    BY <2>1, <2>2 DEF Queued
  <2>4. /\ o.step <= arrived.owner /\ o.step <= arrived.client /\ arrived.owner <= o.step + 1
        /\ o.step = arrived.client => o.num <= calls
        /\ o.step < arrived.owner => i <= o.num
        /\ i <= MaxCalls + o.num
        /\ mpc \in Settled => o.step = arrived.owner /\ i <= o.num
    BY <2>3 DEF InPlace
  <2> HIDE DEF r, s
  <2> QED BY <1>3, <2>1, <2>2, <2>4 DEF InPlace
<1> QED BY <1>6, <1>7

(* A step of the client or of the owner brings its end no further than the *)
(* operations in the queues allow.                                         *)
LEMMA QueuedStep ==
  ASSUME TypeOK, Lists, InStep, OneCall, NotYet, Queued, [Next]_vars
  PROVE  Queued'
<1>1. /\ arrived \in [{"client", "owner"} -> 0 .. EndRound] /\ arrived.client \in Nat
      /\ arrived.owner \in Nat /\ calls \in Nat
  BY DEF TypeOK, EndRound
<1>2. CASE HandleSetter
  <2>1. CASE queue' = [queue EXCEPT ![request.op] = Append(@, request)]
    BY <1>2, <2>1, QueuedSetter
  <2>2. CASE queue' = queue
    <3>1. UNCHANGED <<arrived, calls, mpc>> /\ Unhandled
      BY <1>2 DEF HandleSetter, Goto, client, main, Unhandled
    <3>2. ~Unhandled'
      BY <1>2 DEF HandleSetter, Goto, OneCall, sockets, Unhandled
    <3>3. ASSUME NEW o \in Op, NEW i \in Nat, InPlace(o, i) PROVE InPlace(o, i)'
      BY <3>1, <3>2, <3>3 DEF InPlace
    <3> QED BY <2>2, <3>3, Kept
  <2> QED BY <1>2, <2>1, <2>2 DEF HandleSetter
<1>3. CASE ClearQueues
  BY <1>3 DEF ClearQueues, Queued
<1>4. CASE OwnerCross /\ arrived.owner = 1
  <2>1. \A s \in Setters : queue'[s] = <<>>
    BY <1>4 DEF OwnerCross, NotYet
  <2> QED BY <2>1 DEF Queued
<1>5. CASE OwnerArrive /\ mpc = "loading"
  <2>1. \A s \in Setters : queue'[s] = <<>>
    BY <1>5 DEF OwnerArrive, NotYet
  <2> QED BY <2>1 DEF Queued
<1>6. CASE ApplyNothing
  <2>1. \A s \in Setters : queue'[s] = <<>>
    BY <1>6 DEF ApplyNothing
  <2> QED BY <2>1 DEF Queued
<1> SUFFICES ASSUME ~HandleSetter, ~ClearQueues, ~(OwnerCross /\ arrived.owner = 1),
                    ~(OwnerArrive /\ mpc = "loading"), ~ApplyNothing
             PROVE  Queued'
  BY <1>2, <1>3, <1>4, <1>5, <1>6
<1>7. queue' = queue
  <2>1. CASE ClientNext
    BY <2>1 DEF ClientNext, Call, Return, ClientArrive, ClientCross
  <2>2. CASE MainNext
    BY <2>2 DEF MainNext, OwnerArrive, OwnerCross, ApplyBegin, ListenOff, LockQueues, ApplyQueues,
       ListenOn, StopFalse, Notify, Stop, StopTrue, StopMessage, Join
  <2>3. CASE ThreadNext
    BY <2>3 DEF ThreadNext, WhileNotTerm, WhileTerm, IfListening, IfNotListening, InnerGoOn,
       InnerStop, PollControl, PollRequest, HandleGetter, ReplyOk, LeaveInner, MarkWaiting,
       WaitOver, Sleep, Quiet
  <2>4. CASE UNCHANGED vars
    BY <2>4 DEF vars
  <2> QED BY <2>1, <2>2, <2>3, <2>4 DEF Next
<1>8. ASSUME NEW o \in Op, NEW i \in Nat, InPlace(o, i) PROVE InPlace(o, i)'
  <2>1. o.step \in 1 .. MaxSteps /\ o.num \in 1 .. MaxCalls
    BY DEF Op
  <2> USE <1>1, <1>8, <2>1 DEF InPlace, Settled
  <2>2. ASSUME NEW op \in Setters \cup {Getter}, Call(op) PROVE InPlace(o, i)'
    BY <2>2 DEF Call, main, thread, OneCall, Unhandled
  <2>3. CASE Return \/ ClientCross
    BY <2>3 DEF Return, ClientCross, main, thread, sockets, Unhandled
  <2>4. CASE ClientArrive
    BY <2>4 DEF ClientArrive, main, thread, sockets, Unhandled
  <2>5. CASE OwnerArrive
    BY <2>5 DEF OwnerArrive, Unhandled, client, thread, sockets
  <2>6. CASE OwnerCross
    BY <2>6 DEF OwnerCross, InStep, Unhandled, client, thread, sockets
  <2>7. CASE ApplyBegin \/ ListenOff \/ LockQueues \/ ApplyQueues
    BY <2>7 DEF ApplyBegin, ListenOff, LockQueues, ApplyQueues, Unhandled, client, thread, sockets
  <2>8. CASE ListenOn \/ StopFalse \/ Notify \/ Stop \/ StopTrue \/ StopMessage \/ Join
    BY <2>8 DEF ListenOn, StopFalse, Notify, Stop, StopTrue, StopMessage, Join, Unhandled, client,
                thread, sockets
  <2>9. CASE ThreadNext
    <3>1. UNCHANGED <<arrived, calls, mpc>>
      BY <2>9 DEF ThreadNext, WhileNotTerm, WhileTerm, IfListening, IfNotListening, InnerGoOn,
         InnerStop, PollControl, PollRequest, HandleGetter, ReplyOk, LeaveInner, MarkWaiting,
         WaitOver, Sleep, Quiet, client, main
    <3>2. Unhandled' => Unhandled
      BY <2>9 DEF ThreadNext, WhileNotTerm, WhileTerm, IfListening, IfNotListening, InnerGoOn,
         InnerStop, PollControl, PollRequest, HandleGetter, ReplyOk, LeaveInner, MarkWaiting,
         WaitOver, Sleep, Quiet, Goto, Unhandled, sockets
    <3> QED BY <3>1, <3>2
  <2>10. CASE UNCHANGED vars
    BY <2>10 DEF vars, client, main, thread, sockets, Unhandled
  <2> QED BY <2>2, <2>3, <2>4, <2>5, <2>6, <2>7, <2>8, <2>9, <2>10 DEF Next, ClientNext, MainNext
<1> QED BY <1>7, <1>8, Kept

-----------------------------------------------------------------------------
(* What is accepted, refused and applied.                                  *)

(* The operation added last comes last of all.                             *)
LEMMA AppendToConcat ==
  \A a, b \in Seq(Op) : \A e \in Op : Append(a \o b, e) = a \o Append(b, e)
<1> SUFFICES ASSUME NEW a \in Seq(Op), NEW b \in Seq(Op), NEW e \in Op
             PROVE  Append(a \o b, e) = a \o Append(b, e)
  OBVIOUS
<1>1. <<e>> \in Seq(Op)
  OBVIOUS
<1>2. a \o b \in Seq(Op)
  BY ConcatProperties
<1>3. Append(a \o b, e) = (a \o b) \o <<e>>
  BY <1>2, AppendIsConcat
<1>4. Append(b, e) = b \o <<e>>
  BY AppendIsConcat
<1>5. (a \o b) \o <<e>> = a \o (b \o <<e>>)
  BY <1>1, ConcatAssociative
<1> QED BY <1>3, <1>4, <1>5

(* Between ApplyQueues and ClearQueues nobody touches the queues.          *)
LEMMA AppliedOnceStep ==
  ASSUME TypeOK, Lists, OneCall, AppliedOnceInOrder, [Next]_vars
  PROVE  AppliedOnceInOrder'
<1> USE DEF AppliedOnceInOrder
<1>1. CASE ClientNext
  BY <1>1 DEF ClientNext, Call, Return, ClientArrive, ClientCross, main, history
<1>2. CASE MainNext
  <2>1. CASE ApplyQueues
    BY <2>1 DEF ApplyQueues
  <2>2. CASE ClearQueues
    <3> SUFFICES ASSUME NEW s \in Setters PROVE accepted'[s] = applied'[s] \o queue'[s]
      BY <2>2 DEF ClearQueues
    <3>1. applied[s] \o <<>> = applied[s]
      BY ConcatEmptySeq DEF Lists
    <3>2. queue'[s] = <<>> /\ accepted'[s] = accepted[s] /\ applied'[s] = applied[s] /\ mpc = "clear"
      BY <2>2 DEF ClearQueues, history
    <3> QED BY <3>1, <3>2
  <2>3. CASE \/ OwnerArrive \/ OwnerCross \/ ApplyNothing \/ ApplyBegin \/ ListenOff \/ LockQueues
    BY <2>3 DEF OwnerArrive, OwnerCross, ApplyNothing, ApplyBegin, ListenOff, LockQueues, history
  <2>4. CASE ListenOn \/ StopFalse \/ Notify \/ Stop \/ StopTrue \/ StopMessage \/ Join
    BY <2>4 DEF ListenOn, StopFalse, Notify, Stop, StopTrue, StopMessage, Join, history
  <2> QED BY <1>2, <2>1, <2>2, <2>3, <2>4 DEF MainNext
<1>3. CASE ThreadNext
  <2>1. CASE HandleSetter
    <3>1. request.op \in Setters /\ request \in Op
      BY <2>1, Handled
    <3>2. ASSUME NEW s \in Setters
          PROVE  Append(applied[s] \o queue[s], request) = applied[s] \o Append(queue[s], request)
      <4>1. applied[s] \in Seq(Op) /\ queue[s] \in Seq(Op)
        BY DEF Lists
      <4> QED BY <3>1, <4>1, AppendToConcat, Zenon
    <3>3. mpc' = mpc /\ mpc # "clear" /\ applied' = applied
      BY <2>1 DEF HandleSetter, OpsLockHeld, main
    <3>4. \/ queue' = queue /\ accepted' = accepted
          \/ /\ queue' = [queue EXCEPT ![request.op] = Append(@, request)]
             /\ accepted' = [accepted EXCEPT ![request.op] = Append(@, request)]
      BY <2>1 DEF HandleSetter
    <3> QED BY <3>1, <3>2, <3>3, <3>4 DEF Lists
  <2>2. CASE \/ WhileNotTerm \/ WhileTerm \/ IfListening \/ IfNotListening \/ InnerGoOn \/ InnerStop
             \/ PollControl
    BY <2>2 DEF WhileNotTerm, WhileTerm, IfListening, IfNotListening, InnerGoOn, InnerStop,
                PollControl, Quiet, main, history
  <2>3. CASE PollRequest \/ HandleGetter \/ ReplyOk \/ LeaveInner \/ MarkWaiting \/ WaitOver \/ Sleep
    BY <2>3 DEF PollRequest, HandleGetter, ReplyOk, LeaveInner, MarkWaiting, WaitOver, Sleep, main,
                history
  <2> QED BY <1>3, <2>1, <2>2, <2>3 DEF ThreadNext
<1>4. CASE UNCHANGED vars
  BY <1>4 DEF vars, main, history
<1> QED BY <1>1, <1>2, <1>3, <1>4 DEF Next

(* What is in a queue belongs to a step the owner has come to.             *)
LEMMA AppliedBeforeStep ==
  ASSUME TypeOK, Lists, Queued, AppliedBefore, [Next]_vars
  PROVE  AppliedBefore'
<1>1. arrived \in [{"client", "owner"} -> 0 .. EndRound] /\ arrived.owner \in Nat
  BY DEF TypeOK, EndRound
<1>2. \A s \in Setters : \A i \in 1 .. Len(applied[s]) : applied[s][i].step \in Nat
  <2> SUFFICES ASSUME NEW s \in Setters, NEW i \in 1 .. Len(applied[s]) PROVE applied[s][i].step \in Nat
    OBVIOUS
  <2>1. applied[s] \in Seq(Op)
    BY DEF Lists
  <2>2. applied[s][i] \in Op
    BY <2>1, ElementOfSeq
  <2> QED BY <2>2 DEF Op
<1> USE <1>1, <1>2 DEF AppliedBefore
<1>3. CASE ApplyQueues
  <2>1. ASSUME NEW s \in Setters
        PROVE  /\ Len(applied'[s]) = Len(applied[s]) + Len(queue[s])
               /\ Len(applied[s]) \in Nat /\ Len(queue[s]) \in Nat
               /\ \A i \in 1 .. Len(applied'[s]) : applied'[s][i] =
                    IF i <= Len(applied[s]) THEN applied[s][i] ELSE queue[s][i - Len(applied[s])]
    <3>1. applied[s] \in Seq(Op) /\ queue[s] \in Seq(Op)
      BY DEF Lists
    <3>2. applied'[s] = applied[s] \o queue[s]
      BY <1>3 DEF ApplyQueues
    <3>3. Len(applied[s]) \in Nat /\ Len(queue[s]) \in Nat
      BY <3>1, LenProperties
    <3>4. Len(applied[s] \o queue[s]) = Len(applied[s]) + Len(queue[s])
      BY <3>1, ConcatProperties
    <3>5. ASSUME NEW i \in 1 .. Len(applied[s]) + Len(queue[s])
          PROVE  (applied[s] \o queue[s])[i] =
                    IF i <= Len(applied[s]) THEN applied[s][i] ELSE queue[s][i - Len(applied[s])]
      BY <3>1, ConcatProperties
    <3> QED BY <3>2, <3>3, <3>4, <3>5
  <2>2. arrived' = arrived
    BY <1>3 DEF ApplyQueues
  <2>3. ASSUME NEW s \in Setters, NEW i \in 1 .. Len(applied'[s])
        PROVE  applied'[s][i].step <= arrived.owner
    <3>1. CASE i <= Len(applied[s])
      <4>1. applied'[s][i] = applied[s][i]
        BY <2>1, <3>1
      <4>2. i \in 1 .. Len(applied[s])
        BY <2>1, <3>1
      <4> QED BY <4>1, <4>2
    <3>2. CASE ~(i <= Len(applied[s]))
      <4>0. i \in 1 .. Len(applied[s]) + Len(queue[s])
        BY <2>1
      <4>1. i - Len(applied[s]) \in 1 .. Len(queue[s])
        <5>1. Len(applied[s]) \in Nat /\ Len(queue[s]) \in Nat
          BY <2>1
        <5>2. ASSUME NEW n \in Nat, NEW m \in Nat, i \in 1 .. n + m, ~(i <= n) PROVE i - n \in 1 .. m
          BY <5>2
        <5> QED BY <3>2, <4>0, <5>1, <5>2
      <4>2. queue[s][i - Len(applied[s])].step <= arrived.owner
        BY <4>1 DEF Queued, InPlace
      <4> QED BY <2>1, <3>2, <4>2
    <3>3. i <= Len(applied[s]) \/ ~(i <= Len(applied[s]))
      OBVIOUS
    <3> QED BY <3>1, <3>2, <3>3
  <2> QED BY <2>2, <2>3
<1>4. CASE OwnerArrive
  BY <1>4 DEF OwnerArrive, history
<1>5. CASE ClientNext
  BY <1>5 DEF ClientNext, Call, Return, ClientArrive, ClientCross, history
<1>6. CASE \/ OwnerCross \/ ApplyNothing \/ ApplyBegin \/ ListenOff \/ LockQueues \/ ClearQueues
  BY <1>6 DEF OwnerCross, ApplyNothing, ApplyBegin, ListenOff, LockQueues, ClearQueues, history
<1>7. CASE ListenOn \/ StopFalse \/ Notify \/ Stop \/ StopTrue \/ StopMessage \/ Join
  BY <1>7 DEF ListenOn, StopFalse, Notify, Stop, StopTrue, StopMessage, Join, history
<1>8. CASE ThreadNext
  BY <1>8 DEF ThreadNext, WhileNotTerm, WhileTerm, IfListening, IfNotListening, InnerGoOn,
     InnerStop, PollControl, PollRequest, HandleGetter, HandleSetter, ReplyOk, LeaveInner,
     MarkWaiting, WaitOver, Sleep, Quiet, history
<1>9. CASE UNCHANGED vars
  BY <1>9 DEF vars, history
<1> QED BY <1>3, <1>4, <1>5, <1>6, <1>7, <1>8, <1>9 DEF Next, MainNext

(* The place behind the queue is within the capacity.                      *)
LEMMA NeverRefusedStep ==
  ASSUME TypeOK, Lists, InStep, OneCall, NotYet, Queued, NeverRefused, [Next]_vars
  PROVE  NeverRefused'
<1> SUFFICES ASSUME Capacity >= 2 * MaxCalls PROVE \A s \in Setters : refused'[s] = <<>>
  BY DEF NeverRefused
<1>1. CASE HandleSetter
  <2>1. request.op \in Setters /\ request.num \in 1 .. MaxCalls
    BY <1>1, Handled DEF Op
  <2>2. Len(queue[request.op]) \in Nat
    BY <2>1 DEF Lists
  <2>3. Len(queue[request.op]) + 1 <= MaxCalls + request.num
    BY <1>1, NextPlace
  <2>4. Len(queue[request.op]) < Capacity
    BY <2>1, <2>2, <2>3
  <2> QED BY <1>1, <2>4 DEF HandleSetter, NeverRefused
<1> USE DEF NeverRefused
<1>2. CASE ClientNext
  BY <1>2 DEF ClientNext, Call, Return, ClientArrive, ClientCross, history
<1>3. CASE \/ OwnerArrive \/ OwnerCross \/ ApplyNothing \/ ApplyBegin \/ ListenOff \/ LockQueues
           \/ ApplyQueues \/ ClearQueues
  BY <1>3 DEF OwnerArrive, OwnerCross, ApplyNothing, ApplyBegin, ListenOff, LockQueues, ApplyQueues,
              ClearQueues, history
<1>4. CASE ListenOn \/ StopFalse \/ Notify \/ Stop \/ StopTrue \/ StopMessage \/ Join
  BY <1>4 DEF ListenOn, StopFalse, Notify, Stop, StopTrue, StopMessage, Join, history
<1>5. CASE \/ WhileNotTerm \/ WhileTerm \/ IfListening \/ IfNotListening \/ InnerGoOn \/ InnerStop
           \/ PollControl
  BY <1>5 DEF WhileNotTerm, WhileTerm, IfListening, IfNotListening, InnerGoOn, InnerStop,
              PollControl, Quiet, history
<1>6. CASE PollRequest \/ HandleGetter \/ ReplyOk \/ LeaveInner \/ MarkWaiting \/ WaitOver \/ Sleep
  BY <1>6 DEF PollRequest, HandleGetter, ReplyOk, LeaveInner, MarkWaiting, WaitOver, Sleep, history
<1>7. CASE UNCHANGED vars
  BY <1>7 DEF vars, history
<1> QED BY <1>1, <1>2, <1>3, <1>4, <1>5, <1>6, <1>7 DEF Next, MainNext, ThreadNext

Flags == {listening, stop, term, threadWaiting, notified, control, wasListening}

(* A flag becomes true, false, or the value of a condition.                *)
LEMMA FlagsStep == ASSUME Flags \subseteq BOOLEAN, [Next]_vars PROVE Flags' \subseteq BOOLEAN
<1> USE DEF Flags
<1>1. CASE ClientNext
  BY <1>1, Zenon DEF ClientNext, Call, Return, ClientArrive, ClientCross, main, flags, sockets
<1>2. CASE OwnerArrive \/ OwnerCross \/ ApplyNothing \/ ApplyBegin \/ LockQueues \/ ApplyQueues \/ ClearQueues
  BY <1>2, Zenon DEF OwnerArrive, OwnerCross, ApplyNothing, ApplyBegin, LockQueues, ApplyQueues,
                     ClearQueues, flags, sockets
<1>3. CASE ListenOff
  BY <1>3, Zenon DEF ListenOff, sockets
<1>4. CASE Notify
  <2>1. notified' \in BOOLEAN
    BY <1>4, Zenon DEF Notify
  <2> QED BY <1>4, <2>1, Zenon DEF Notify, sockets
<1>5. CASE Stop
  <2>1. term' \in BOOLEAN
    BY <1>5, Zenon DEF Stop
  <2> QED BY <1>5, <2>1, Zenon DEF Stop, sockets
<1>6. CASE ListenOn \/ StopFalse \/ StopTrue \/ StopMessage \/ Join
  BY <1>6, Zenon DEF ListenOn, StopFalse, StopTrue, StopMessage, Join, flags, sockets
<1>7. CASE \/ WhileNotTerm \/ WhileTerm \/ IfListening \/ IfNotListening \/ InnerGoOn \/ InnerStop
           \/ PollControl
  BY <1>7, Zenon DEF WhileNotTerm, WhileTerm, IfListening, IfNotListening, InnerGoOn, InnerStop,
                     PollControl, Quiet, main, flags, sockets
<1>8. CASE PollRequest \/ HandleGetter \/ HandleSetter \/ ReplyOk
  BY <1>8, Zenon DEF PollRequest, HandleGetter, HandleSetter, ReplyOk, main, flags, sockets
<1>9. CASE LeaveInner \/ MarkWaiting \/ WaitOver \/ Sleep
  BY <1>9, Zenon DEF LeaveInner, MarkWaiting, WaitOver, Sleep, main, sockets
<1>10. CASE UNCHANGED vars
  BY <1>10, Zenon DEF vars, main, flags, sockets
<1> QED BY <1>1, <1>2, <1>3, <1>4, <1>5, <1>6, <1>7, <1>8, <1>9, <1>10 DEF Next, MainNext, ThreadNext

Places ==
  /\ cpc \in {"work", "await", "barrier", "gone"}
  /\ mpc \in {"loading", "work", "barrier", "apply", "listenOff", "lock", "applying",
             "clear", "listenOn", "stopFalse", "notify", "stop", "stopTrue",
             "stopMessage", "join", "closed"}
  /\ tpc \in {"while", "ifListening", "inner", "poll", "handle", "reply", "stopped",
             "markWaiting", "lockSignal", "sleeping", "done"}
  /\ rep \in {"none", "ok", "value"}

(* The places of the three threads.                                        *)
LEMMA PlacesStep == ASSUME Places, [Next]_vars PROVE Places'
<1> USE DEF Places
<1>1. CASE ClientNext
  BY <1>1 DEF ClientNext, Call, Return, ClientArrive, ClientCross, main, thread, sockets
<1>2. CASE MainNext
  BY <1>2 DEF MainNext, OwnerArrive, OwnerCross, ApplyNothing, ApplyBegin, ListenOff, LockQueues,
     ApplyQueues, ClearQueues, ListenOn, StopFalse, Notify, Stop, StopTrue, StopMessage, Join,
     client, thread, sockets
<1>3. CASE ThreadNext
  BY <1>3 DEF ThreadNext, WhileNotTerm, WhileTerm, IfListening, IfNotListening, InnerGoOn,
     InnerStop, PollControl, PollRequest, HandleGetter, HandleSetter, ReplyOk, LeaveInner,
     MarkWaiting, WaitOver, Sleep, Goto, Quiet, client, main, sockets
<1>4. CASE UNCHANGED vars
  BY <1>4 DEF vars, client, main, thread, sockets
<1> QED BY <1>1, <1>2, <1>3, <1>4 DEF Next

Calls ==
  /\ request = NoCall \/ request \in Request
  /\ req = NoCall \/ req \in Request

(* The request on its way and the one in hand.                             *)
LEMMA CallsStep == ASSUME TypeOK, Calls, [Next]_vars PROVE Calls'
<1> USE DEF Calls
<1>1. ASSUME NEW op \in Setters \cup {Getter}, Call(op) PROVE Calls'
  <2>1. arrived.client \in 1 .. MaxSteps /\ calls' \in 1 .. MaxCalls
    BY <1>1 DEF Call, TypeOK
  <2> QED BY <1>1, <2>1 DEF Call, Request, thread
<1>2. CASE Return \/ ClientArrive \/ ClientCross
  BY <1>2 DEF Return, ClientArrive, ClientCross, thread, sockets
<1>3. CASE MainNext
  BY <1>3 DEF MainNext, OwnerArrive, OwnerCross, ApplyNothing, ApplyBegin, ListenOff, LockQueues,
     ApplyQueues, ClearQueues, ListenOn, StopFalse, Notify, Stop, StopTrue, StopMessage, Join,
     thread, sockets
<1>4. CASE ThreadNext
  BY <1>4 DEF ThreadNext, WhileNotTerm, WhileTerm, IfListening, IfNotListening, InnerGoOn,
     InnerStop, PollControl, PollRequest, HandleGetter, HandleSetter, ReplyOk, LeaveInner,
     MarkWaiting, WaitOver, Sleep, Quiet, sockets
<1>5. CASE UNCHANGED vars
  BY <1>5 DEF vars, thread, sockets
<1> QED BY <1>1, <1>2, <1>3, <1>4, <1>5 DEF Next, ClientNext

(* Together, with the bounds that InStep gives the arrivals.               *)
LEMMA TypeOKStep ==
  ASSUME TypeOK, Lists', InStep', InStep, [Next]_vars
  PROVE  TypeOK'
<1>1. Places'
  <2>1. Places
    BY DEF TypeOK, Places
  <2> QED BY <2>1, PlacesStep
<1>2. Flags' \subseteq BOOLEAN
  <2>1. Flags \subseteq BOOLEAN
    BY Zenon DEF TypeOK, Flags
  <2> QED BY <2>1, FlagsStep
<1>3. Calls'
  <2>1. Calls
    BY Zenon DEF TypeOK, Calls, Request
  <2> QED BY <2>1, CallsStep
<1>4. calls' \in 0 .. MaxCalls /\ arrived' \in [{"client", "owner"} -> 0 .. EndRound]
  <2>1. calls \in 0 .. MaxCalls /\ arrived \in [{"client", "owner"} -> 0 .. EndRound] /\ EndRound \in Nat
    BY DEF TypeOK, EndRound
  <2>2. CASE ClientArrive
    BY <2>1, <2>2 DEF ClientArrive, InStep
  <2>3. CASE OwnerArrive
    BY <2>1, <2>3 DEF OwnerArrive, InStep, Stopping, client
  <2>4. ASSUME NEW op \in Setters \cup {Getter}, Call(op)
        PROVE  calls' \in 0 .. MaxCalls /\ arrived' = arrived
    BY <2>1, <2>4 DEF Call
  <2>5. CASE Return \/ ClientCross
    BY <2>1, <2>5 DEF Return, ClientCross
  <2>6. CASE \/ OwnerCross \/ ApplyNothing \/ ApplyBegin \/ ListenOff \/ LockQueues \/ ApplyQueues
             \/ ClearQueues
    BY <2>1, <2>6 DEF OwnerCross, ApplyNothing, ApplyBegin, ListenOff, LockQueues, ApplyQueues,
                      ClearQueues, client
  <2>7. CASE ListenOn \/ StopFalse \/ Notify \/ Stop \/ StopTrue \/ StopMessage \/ Join
    BY <2>1, <2>7 DEF ListenOn, StopFalse, Notify, Stop, StopTrue, StopMessage, Join, client
  <2>8. CASE ThreadNext
    BY <2>1, <2>8 DEF ThreadNext, WhileNotTerm, WhileTerm, IfListening, IfNotListening, InnerGoOn,
       InnerStop, PollControl, PollRequest, HandleGetter, HandleSetter, ReplyOk, LeaveInner,
       MarkWaiting, WaitOver, Sleep, Quiet, client
  <2>9. CASE UNCHANGED vars
    BY <2>1, <2>9 DEF vars, client
  <2> QED BY <2>1, <2>2, <2>3, <2>4, <2>5, <2>6, <2>7, <2>8, <2>9 DEF Next, ClientNext, MainNext
<1>5. \A s \in Setters : {queue'[s], accepted'[s], refused'[s], applied'[s]} \subseteq Seq(Op)
  BY DEF Lists
<1> QED BY <1>1, <1>2, <1>3, <1>4, <1>5, Zenon DEF TypeOK, Places, Flags, Calls, Request

-----------------------------------------------------------------------------
(* The invariant holds of every behaviour.                                 *)
THEOREM Invariance == Spec => []IInv
<1>1. Init => IInv
  BY Start
<1>2. ASSUME IInv, [Next]_vars PROVE IInv'
  <2> USE <1>2
  <2>1. TypeOK /\ Lists /\ InStep /\ OneCall /\ NotYet /\ Queued
        /\ AppliedOnceInOrder /\ AppliedBefore /\ NeverRefused
    BY DEF IInv
  <2>2. InStep'
    BY <2>1, InStepStep
  <2>3. OneCall'
    BY <2>1, OneCallStep
  <2>4. NotYet'
    BY <2>1, NotYetStep
  <2>5. Lists'
    BY <2>1, ListsStep
  <2>6. Queued'
    BY <2>1, QueuedStep
  <2>7. AppliedOnceInOrder'
    BY <2>1, AppliedOnceStep
  <2>8. AppliedBefore'
    BY <2>1, AppliedBeforeStep
  <2>9. NeverRefused'
    BY <2>1, NeverRefusedStep
  <2>10. TypeOK'
    BY <2>1, <2>2, <2>5, TypeOKStep
  <2> QED BY <2>2, <2>3, <2>4, <2>5, <2>6, <2>7, <2>8, <2>9, <2>10 DEF IInv
<1> QED BY <1>1, <1>2, PTL DEF Spec

(* Every variable of the handler, of its sockets and of the two main       *)
(* threads keeps its type.                                                 *)
THEOREM Typing == Spec => []TypeOK
<1>1. IInv => TypeOK
  BY DEF IInv
<1> QED BY <1>1, Invariance, PTL

(* applyMutableOperations applies each accepted operation once and in the  *)
(* order of the calls, whatever calls come while it is at work.            *)
THEOREM OnceInOrder == Spec => []AppliedOnceInOrder
<1>1. IInv => AppliedOnceInOrder
  BY DEF IInv
<1> QED BY <1>1, Invariance, PTL

(* A queue with room for two steps' calls never refuses an operation:      *)
(* OPERATION_QUEUE_SIZE need not grow with the length of the run.          *)
THEOREM NoRefusal == Spec => []NeverRefused
<1>1. IInv => NeverRefused
  BY DEF IInv
<1> QED BY <1>1, Invariance, PTL

(* What a client asked for in one step is applied before the owner works   *)
(* at the next, and not before the client has asked for it.                *)
THEOREM InTheirStep == Spec => []AppliedInTheirStep
<1>1. IInv => AppliedInTheirStep
  <2> SUFFICES ASSUME IInv, NEW s \in Setters
               PROVE  /\ mpc = "work" =>
                           \A i \in 1 .. Len(accepted[s]) :
                             accepted[s][i].step < arrived.owner => i <= Len(applied[s])
                      /\ \A i \in 1 .. Len(applied[s]) : applied[s][i].step <= arrived.owner
    BY DEF AppliedInTheirStep
  <2>1. \A i \in 1 .. Len(applied[s]) : applied[s][i].step <= arrived.owner
    BY DEF IInv, AppliedBefore
  <2>2. ASSUME mpc = "work", NEW i \in 1 .. Len(accepted[s]), accepted[s][i].step < arrived.owner
        PROVE  i <= Len(applied[s])
    <3>1. applied[s] \in Seq(Op) /\ queue[s] \in Seq(Op)
      BY DEF IInv, Lists
    <3>2. Len(applied[s]) \in Nat /\ Len(queue[s]) \in Nat
      BY <3>1, LenProperties
    <3>3. accepted[s] = applied[s] \o queue[s]
      BY <2>2 DEF IInv, AppliedOnceInOrder
    <3>4. Len(accepted[s]) = Len(applied[s]) + Len(queue[s])
      BY <3>1, <3>3, ConcatProperties
    <3>5. SUFFICES ASSUME ~(i <= Len(applied[s])) PROVE FALSE
      OBVIOUS
    <3>6. i - Len(applied[s]) \in 1 .. Len(queue[s])
      <4>1. ASSUME NEW n \in Nat, NEW m \in Nat, i \in 1 .. n + m, ~(i <= n) PROVE i - n \in 1 .. m
        BY <4>1
      <4> QED BY <3>2, <3>4, <3>5, <4>1
    <3>7. accepted[s][i] = queue[s][i - Len(applied[s])]
      BY <3>1, <3>2, <3>3, <3>4, <3>5, ConcatProperties
    <3>8. queue[s][i - Len(applied[s])].step = arrived.owner
      BY <2>2, <3>6 DEF IInv, Queued, InPlace, Settled
    <3>9. arrived.owner \in Nat
      BY DEF IInv, TypeOK, EndRound
    <3> QED BY <2>2, <3>7, <3>8, <3>9
  <2> QED BY <2>1, <2>2
<1> QED BY <1>1, Invariance, PTL

(* When the owner calls stop, the queues are empty and no call is under    *)
(* way: the last step's calls have been applied before.                    *)
THEOREM NothingLeft == Spec => []NothingLeftAtStop
<1>1. IInv => NothingLeftAtStop
  <2> SUFFICES ASSUME IInv, mpc \in Stopping
               PROVE  /\ \A s \in Setters : queue[s] = <<>>
                      /\ req = NoCall /\ tpc \notin {"handle", "reply"} /\ cpc \in {"barrier", "gone"}
    BY DEF NothingLeftAtStop, Stopping
  <2>1. arrived.client \in 0 .. EndRound /\ arrived.owner = EndRound /\ arrived.owner <= arrived.client
    BY DEF IInv, TypeOK, InStep, Stopping
  <2>2. arrived.client = EndRound
    BY <2>1 DEF EndRound
  <2>3. cpc \in {"barrier", "gone"}
    BY <2>2 DEF IInv, TypeOK, InStep, EndRound
  <2>4. req = NoCall /\ tpc \notin {"handle", "reply"}
    BY <2>3 DEF IInv, OneCall
  <2>5. ASSUME NEW s \in Setters PROVE queue[s] = <<>>
    <3>1. queue[s] \in Seq(Op)
      BY DEF IInv, Lists
    <3>2. ASSUME 1 \in 1 .. Len(queue[s]) PROVE FALSE
      <4>1. queue[s][1].step \in 1 .. MaxSteps
        BY <3>2, QueuedOp DEF IInv
      <4>2. arrived.owner <= queue[s][1].step + 1
        BY <3>2 DEF IInv, Queued, InPlace
      <4> QED BY <2>1, <4>1, <4>2 DEF EndRound
    <3>3. Len(queue[s]) = 0
      BY <3>1, <3>2, LenProperties
    <3> QED BY <3>1, <3>3, EmptySeq
  <2> QED BY <2>3, <2>4, <2>5
<1> QED BY <1>1, Invariance, PTL

(* A listen thread that has missed a listenOn sleeps for good: after the   *)
(* first step nothing but a handler that was listening turns it on.        *)
THEOREM Asleep == Spec => LostForever
<1>1. ASSUME IInv, [Next]_vars, LostWakeup PROVE LostWakeup'
  <2>1. tpc = "sleeping" /\ ~listening /\ ~notified /\ arrived.owner \in Nat
    BY <1>1 DEF LostWakeup, IInv, TypeOK, EndRound
  <2> USE <1>1 DEF LostWakeup
  <2>2. CASE ClientNext
    <3>1. arrived'.owner = arrived.owner
      BY <2>2 DEF ClientNext, Call, Return, ClientArrive, ClientCross, IInv, TypeOK
    <3>2. UNCHANGED <<main, thread, flags>>
      BY <2>2 DEF ClientNext, Call, Return, ClientArrive, ClientCross
    <3> QED BY <3>1, <3>2 DEF main, thread, flags
  <2>3. CASE OwnerArrive
    <3>1. 1 <= arrived.owner /\ arrived'.owner = arrived.owner + 1
      BY <2>1, <2>3 DEF IInv, InStep, OwnerArrive, TypeOK
    <3> QED BY <2>1, <2>3, <3>1 DEF OwnerArrive, thread, flags
  <2>4. CASE OwnerCross
    BY <2>1, <2>4 DEF OwnerCross, thread, flags
  <2>5. CASE ApplyNothing
    BY <2>1, <2>5 DEF ApplyNothing, thread, flags
  <2>6. CASE LockQueues
    BY <2>1, <2>6 DEF LockQueues, thread, flags
  <2>7. CASE ApplyQueues
    BY <2>1, <2>7 DEF ApplyQueues, thread, flags
  <2>8. CASE ApplyBegin \/ ListenOff
    BY <2>1, <2>8 DEF ApplyBegin, ListenOff, thread, flags
  <2>9. CASE ClearQueues
    BY <2>1, <2>9 DEF ClearQueues, thread, flags
  <2>10. CASE ListenOn \/ StopFalse \/ Notify \/ Stop \/ StopTrue \/ StopMessage \/ Join
    BY <2>1, <2>10 DEF ListenOn, StopFalse, Notify, Stop, StopTrue, StopMessage, Join, thread, flags
  <2>11. CASE ThreadNext
    BY <2>1, <2>11 DEF ThreadNext, WhileNotTerm, WhileTerm, IfListening, IfNotListening, InnerGoOn,
       InnerStop, PollControl, PollRequest, HandleGetter, HandleSetter, ReplyOk, LeaveInner,
       MarkWaiting, WaitOver, Sleep, Goto
  <2>12. CASE UNCHANGED vars
    BY <2>12 DEF vars, main, thread, flags
  <2> QED BY <2>2, <2>3, <2>4, <2>5, <2>6, <2>7, <2>8, <2>9, <2>10, <2>11, <2>12, <1>1 DEF Next, MainNext
<1> QED BY <1>1, Invariance, PTL DEF Spec, LostForever
=============================================================================
