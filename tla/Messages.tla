------------------------------- MODULE Messages -------------------------------
(***************************************************************************)
(* What travels between the stub and the handler of two neighbours: the    *)
(* stub lays a call out in a buffer, the handler finds the operation and   *)
(* its arguments in it again, and the same for what is returned.           *)
(*                                                                         *)
(* A buffer is a sequence of bytes.  A byte is a character, or the i-th of *)
(* the bytes of a number; one that was never written is Unset.             *)
(***************************************************************************)
EXTENDS Integers, Sequences, SequencesExt

CONSTANTS
  Id,         \* names of vehicles, edges, routes, types and lanes
  LaneIndex,  \* numbers of lanes
  Real,       \* speeds and positions
  Found       \* what getEdgeVehicles may return: sequences of names

(* A name is a sequence of characters other than the null character.       *)
Names == Seq(STRING \ {"null"})

ASSUME NamesAssumption == Id \subseteq Names /\ Found \subseteq Seq(Names)

VARIABLES
  called,     \* the call of the stub, << >> between two calls
  request,    \* its buffer
  heard,      \* what the handler has made of it, << >> before that
  meant,      \* what it returns
  reply,      \* in a buffer
  returned    \* what the stub returns, << >> before that

messages == <<called, request, heard, meant, reply, returned>>

sizeof == [int |-> 4, double |-> 8, bool |-> 1]

Unset == <<"unset", 0, 1>>
NullByte  == <<"char", "null", 1>>
Bytes(type, value) == [i \in 1 .. sizeof[type] |-> <<type, value, i>>]
Terminated(string) == [i \in DOMAIN string |-> <<"char", string[i], 1>>] \o <<NullByte>>
Lettering(bytes) == [i \in DOMAIN bytes |-> bytes[i][2]]

Unwritten(size) == [i \in 1 .. size |-> Unset]
Copy(buffer, offset, bytes) ==
  [i \in DOMAIN buffer |-> IF i - offset \in DOMAIN bytes THEN bytes[i - offset] ELSE buffer[i]]

(* Bytes that are not those of one number of this type make some other     *)
(* number: never one that was sent.                                        *)
Other == [int |-> -1, double |-> "other", bool |-> FALSE]
Read(type, buffer, offset) ==
  LET Is(i) == offset + i \in DOMAIN buffer
                 /\ buffer[offset + i] = <<type, buffer[offset + 1][2], i>>
  IN IF \A i \in 1 .. sizeof[type] : Is(i) THEN buffer[offset + 1][2] ELSE Other[type]

(* Everything from the offset up to the last byte.                         *)
ReadRest(buffer, offset) == Lettering(SubSeq(buffer, offset + 1, Len(buffer) - 1))

-----------------------------------------------------------------------------
(* A faulty size that leaves the null characters out.                      *)
LettersOnly(strings) == Len(FlattenSeq(strings))

TotalSize(strings) == Len(FlattenSeq(strings)) + Len(strings)

createMessageWithStrings(strings, offset) ==
  LET written == Bytes("int", Len(strings))
                   \o FlattenSeq([i \in DOMAIN strings |-> Terminated(strings[i])])
  IN Copy(Unwritten(offset + sizeof.int + TotalSize(strings)), offset, written)

(* As many strings as the buffer announces; those it does not end with a   *)
(* null stay empty.                                                        *)
NextByte(buffer, vectorSize, got, i) ==
  IF buffer[i] = NullByte /\ Len(got.result) < vectorSize
  THEN [result |-> Append(got.result, Lettering(SubSeq(buffer, got.start, i - 1))),
        start |-> i + 1]
  ELSE got

readStringsFromMessage(buffer, offset) ==
  LET vectorSize == Read("int", buffer, offset)
      first == offset + sizeof.int
      upTo[i \in 0 .. Len(buffer)] ==
        IF i <= first THEN [result |-> << >>, start |-> first + 1]
        ELSE NextByte(buffer, vectorSize, upTo[i - 1], i)
      result == upTo[Len(buffer)].result
  IN result \o [i \in 1 .. vectorSize - Len(result) |-> << >>]

-----------------------------------------------------------------------------
GET_EDGE_VEHICLES   == 0
HAS_VEHICLE         == 1
HAS_VEHICLE_IN_EDGE == 2
SET_VEHICLE_SPEED   == 3
ADD_VEHICLE         == 4

Asking(op, id) == [op |-> op, id |-> id]
InEdge(strings) == [op |-> HAS_VEHICLE_IN_EDGE, vehId |-> strings[1], edgeId |-> strings[2]]
SpeedOf(vehId, speed) == [op |-> SET_VEHICLE_SPEED, vehId |-> vehId, speed |-> speed]
Adding(strings, laneIndex, lanePos, speed) ==
  [op |-> ADD_VEHICLE, vehId |-> strings[1], routeId |-> strings[2], vehType |-> strings[3],
   laneId |-> strings[4], laneIndex |-> laneIndex, lanePos |-> lanePos, speed |-> speed]

(* The stub's half.                                                        *)
Send(call, buffer) ==
  /\ called = << >>
  /\ called' = <<call>>
  /\ request' = Copy(buffer, 0, Bytes("int", call.op))
  /\ UNCHANGED <<heard, meant, reply, returned>>

getEdgeVehicles(edgeId) ==
  Send(Asking(GET_EDGE_VEHICLES, edgeId), Unwritten(sizeof.int) \o Terminated(edgeId))

hasVehicle(vehId) == Send(Asking(HAS_VEHICLE, vehId), Unwritten(sizeof.int) \o Terminated(vehId))

hasVehicleInEdge(vehId, edgeId) ==
  Send(InEdge(<<vehId, edgeId>>), createMessageWithStrings(<<vehId, edgeId>>, sizeof.int))

setVehicleSpeed(vehId, speed) ==
  Send(SpeedOf(vehId, speed), Unwritten(sizeof.int) \o Bytes("double", speed) \o Terminated(vehId))

addVehicle(strings, laneIndex, lanePos, speed) ==
  LET numbers == Bytes("int", laneIndex) \o Bytes("double", lanePos) \o Bytes("double", speed)
      offset == sizeof.int * 2 + sizeof.double * 2
  IN Send(Adding(strings, laneIndex, lanePos, speed),
          Copy(createMessageWithStrings(strings, offset), sizeof.int, numbers))

(* What the handler makes of a request.                                    *)
Received(buffer) ==
  LET op == Read("int", buffer, 0)
      afterIndex == sizeof.int * 2
  IN CASE op \in {GET_EDGE_VEHICLES, HAS_VEHICLE} -> Asking(op, ReadRest(buffer, sizeof.int))
       [] op = HAS_VEHICLE_IN_EDGE -> InEdge(readStringsFromMessage(buffer, sizeof.int))
       [] op = SET_VEHICLE_SPEED ->
            SpeedOf(ReadRest(buffer, sizeof.int + sizeof.double), Read("double", buffer, sizeof.int))
       [] op = ADD_VEHICLE ->
            Adding(readStringsFromMessage(buffer, afterIndex + sizeof.double * 2),
                   Read("int", buffer, sizeof.int), Read("double", buffer, afterIndex),
                   Read("double", buffer, afterIndex + sizeof.double))
       [] OTHER -> [op |-> op]

(* The two getters of a Boolean, the getter of a list, and "ok" to setters. *)
Answer(value, buffer) ==
  /\ called # << >> /\ heard = << >>
  /\ heard' = <<Received(request)>>
  /\ meant' = <<value>>
  /\ reply' = buffer
  /\ UNCHANGED <<called, request, returned>>

AnswerList ==
  /\ request # << >> /\ Received(request).op = GET_EDGE_VEHICLES
  /\ \E list \in Found : Answer([list |-> list], createMessageWithStrings(list, 0))

AnswerBool ==
  /\ request # << >> /\ Received(request).op \in {HAS_VEHICLE, HAS_VEHICLE_IN_EDGE}
  /\ \E has \in BOOLEAN : Answer([has |-> has], Bytes("bool", has))

AnswerOk ==
  /\ request # << >>
  /\ Received(request).op \notin {GET_EDGE_VEHICLES, HAS_VEHICLE, HAS_VEHICLE_IN_EDGE}
  /\ Answer([ok |-> TRUE], <<<<"char", "o", 1>>, <<"char", "k", 1>>>>)

(* The stub reads the reply as the operation it called returns it.         *)
Returning(op, buffer) ==
  CASE op = GET_EDGE_VEHICLES -> [list |-> readStringsFromMessage(buffer, 0)]
    [] op \in {HAS_VEHICLE, HAS_VEHICLE_IN_EDGE} -> [has |-> Read("bool", buffer, 0)]
    [] OTHER -> [ok |-> TRUE]

Return ==
  /\ heard # << >> /\ returned = << >>
  /\ returned' = <<Returning(called[1].op, reply)>>
  /\ UNCHANGED <<called, request, heard, meant, reply>>

(* The caller goes on.                                                     *)
Proceed ==
  /\ returned # << >>
  /\ called' = << >> /\ request' = << >> /\ heard' = << >>
  /\ meant' = << >> /\ reply' = << >> /\ returned' = << >>

-----------------------------------------------------------------------------
MsgInit ==
  /\ called = << >> /\ request = << >> /\ heard = << >>
  /\ meant = << >> /\ reply = << >> /\ returned = << >>

Call ==
  \/ \E id \in Id : getEdgeVehicles(id) \/ hasVehicle(id)
  \/ \E vehId, edgeId \in Id : hasVehicleInEdge(vehId, edgeId)
  \/ \E vehId \in Id, speed \in Real : setVehicleSpeed(vehId, speed)
  \/ \E vehId, routeId, vehType, laneId \in Id, laneIndex \in LaneIndex, lanePos, speed \in Real :
       addVehicle(<<vehId, routeId, vehType, laneId>>, laneIndex, lanePos, speed)

MsgNext == Call \/ AnswerList \/ AnswerBool \/ AnswerOk \/ Return \/ Proceed

MsgSpec == MsgInit /\ [][MsgNext]_messages

-----------------------------------------------------------------------------
(* The handler takes every request for the call it is, with the arguments  *)
(* that the stub was given, and the stub returns what the handler meant:   *)
(* writer and reader agree on the offset of every field, whatever the      *)
(* length of the names and when a list has none (messagingShared.cpp:64).  *)
Understood ==
  /\ heard # << >> => heard = called
  /\ returned # << >> => returned = meant
=============================================================================
