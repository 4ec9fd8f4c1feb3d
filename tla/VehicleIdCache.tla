--------------------------- MODULE VehicleIdCache ---------------------------
(***************************************************************************)
(* The list of vehicle ids that the threads of one partition share:        *)
(* allVehicleIds, the flag allVehicleIdsUpdated and allVehicleIds_lock.    *)
(* The handler threads, one per neighbour, search it (hasVehicle) and fill *)
(* it from the simulation when the flag is down (refreshVehicleIds). The   *)
(* main thread takes the flag down after each step, and inserts vehicles   *)
(* that it receives from the neighbours (addVehicle).                      *)
(*                                                                         *)
(* A search, a refill and an insertion take time: each is two actions. A   *)
(* neighbour asks between two barriers, and does not arrive at the next    *)
(* while its question is open, so the main thread does not pass it either. *)
(*                                                                         *)
(* What a search does while another thread changes the list is undefined.  *)
(* NoRace says that this does not happen; the other properties are about   *)
(* searches it does not happen to.                                         *)
(***************************************************************************)
EXTENDS Integers, FiniteSets, TLAPS

CONSTANTS
  Handler,   \* the handler threads, one per neighbour
  Vehicle,
  Nobody,    \* the lock's holder when it is free
  MaxSteps   \* bound on the steps of the simulation

ASSUME ThreadsAssumption == Nobody \notin Handler /\ MaxSteps \in Nat

VARIABLES
  phase,     \* where the main thread stands
  incoming,  \* the vehicle that the main thread is adding
  steps,     \* the steps done
  present,   \* Vehicle::getIDList()
  ids,       \* allVehicleIds
  updated,   \* allVehicleIdsUpdated
  holder,    \* who holds allVehicleIds_lock
  pc,        \* where each handler thread stands
  listed,    \* idVector of refreshVehicleIds
  arrived,   \* whether the neighbour is at the barrier
  always,    \* the vehicles there all the time since the last barrier, and
  ever       \* those there at some time; likewise between the last two

simulation == <<steps, present, always, ever>>
threads    == <<holder, pc, listed>>
vars == <<phase, incoming, simulation, ids, updated, threads, arrived>>

Init ==
  /\ phase = "loop" /\ incoming = {}
  /\ steps = 0 /\ present = {}
  /\ ids = {} /\ updated = FALSE /\ holder = Nobody
  /\ pc = [h \in Handler |-> "idle"]
  /\ listed = [h \in Handler |-> {}]
  /\ arrived = [h \in Handler |-> FALSE]
  /\ always = [now |-> {}, last |-> {}]
  /\ ever = [now |-> {}, last |-> {}]

Becomes(vehicles) ==
  /\ present' = vehicles
  /\ always' = [always EXCEPT !.now = @ \cap vehicles]
  /\ ever' = [ever EXCEPT !.now = @ \cup vehicles]

-----------------------------------------------------------------------------
(* The main thread.                                                        *)

(* Simulation::step: vehicles depart and arrive.                           *)
Step ==
  /\ phase = "loop" /\ steps < MaxSteps
  /\ \E vehicles \in SUBSET Vehicle : Becomes(vehicles)
  /\ steps' = steps + 1
  /\ phase' = "stepped"
  /\ UNCHANGED <<incoming, ids, updated, threads, arrived>>

(* A faulty loop that leaves the flag up.                                  *)
InvalidateNothing ==
  /\ phase = "stepped"
  /\ phase' = "handout"
  /\ UNCHANGED <<incoming, simulation, ids, updated, threads, arrived>>

(* allVehicleIdsUpdated = false, without the lock.                         *)
Invalidate ==
  /\ phase = "stepped"
  /\ updated' = FALSE
  /\ phase' = "handout"
  /\ UNCHANGED <<incoming, simulation, ids, threads, arrived>>

(* finishStepWait returns when all the neighbours are at the barrier.      *)
CrossBarrier ==
  /\ phase = "handout" /\ \A h \in Handler : arrived[h]
  /\ arrived' = [h \in Handler |-> FALSE]
  /\ always' = [now |-> present, last |-> always.now]
  /\ ever' = [now |-> present, last |-> ever.now]
  /\ phase' = "apply"
  /\ UNCHANGED <<incoming, steps, present, ids, updated, threads>>

(* addVehicle: Vehicle::add and moveTo, then the look at the flag.         *)
Add(v) ==
  /\ phase = "apply" /\ v \notin present
  /\ Becomes(present \cup {v})
  /\ phase' = "added" /\ incoming' = {v}
  /\ UNCHANGED <<steps, ids, updated, threads, arrived>>

LookAtFlag ==
  /\ phase = "added"
  /\ phase' = IF updated THEN "inserting" ELSE "apply"
  /\ UNCHANGED <<incoming, simulation, ids, updated, threads, arrived>>

(* allVehicleIds.insert returns.                                           *)
Insert ==
  /\ phase = "inserting"
  /\ ids' = ids \cup incoming
  /\ phase' = "apply"
  /\ UNCHANGED <<incoming, simulation, updated, threads, arrived>>

Applied ==
  /\ phase = "apply"
  /\ phase' = "loop"
  /\ UNCHANGED <<incoming, simulation, ids, updated, threads, arrived>>

-----------------------------------------------------------------------------
(* The handler threads. hasVehicle calls refreshVehicleIds, which looks at *)
(* the flag before it takes the lock, and not again.                       *)

Ask(h) ==
  /\ pc[h] = "idle" /\ ~arrived[h]
  /\ pc' = [pc EXCEPT ![h] = IF updated THEN "search" ELSE "outdated"]
  /\ UNCHANGED <<phase, incoming, simulation, ids, updated, holder, listed, arrived>>

TakeLock(h) ==
  /\ pc[h] = "outdated" /\ holder = Nobody
  /\ holder' = h
  /\ pc' = [pc EXCEPT ![h] = "locked"]
  /\ UNCHANGED <<phase, incoming, simulation, ids, updated, listed, arrived>>

(* getIDList returns; clear and insert begin.                              *)
List(h) ==
  /\ pc[h] = "locked"
  /\ listed' = [listed EXCEPT ![h] = present]
  /\ pc' = [pc EXCEPT ![h] = "filling"]
  /\ UNCHANGED <<phase, incoming, simulation, ids, updated, holder, arrived>>

(* A faulty refreshVehicleIds that returns with the lock taken.            *)
FillAndKeep(h) ==
  /\ pc[h] = "filling"
  /\ ids' = listed[h] /\ updated' = TRUE
  /\ pc' = [pc EXCEPT ![h] = "search"]
  /\ UNCHANGED <<phase, incoming, simulation, holder, listed, arrived>>

(* A faulty refreshVehicleIds that tries again until the flag is up, which *)
(* it does not raise.                                                      *)
FillAgain(h) ==
  /\ pc[h] = "filling"
  /\ ids' = listed[h]
  /\ holder' = Nobody
  /\ listed' = [listed EXCEPT ![h] = {}]
  /\ pc' = [pc EXCEPT ![h] = IF updated THEN "search" ELSE "outdated"]
  /\ UNCHANGED <<phase, incoming, simulation, updated, arrived>>

(* The list is filled, the flag goes up, the lock is free.                 *)
Fill(h) ==
  /\ pc[h] = "filling"
  /\ ids' = listed[h] /\ updated' = TRUE
  /\ holder' = Nobody
  /\ listed' = [listed EXCEPT ![h] = {}]
  /\ pc' = [pc EXCEPT ![h] = "search"]
  /\ UNCHANGED <<phase, incoming, simulation, arrived>>

(* std::find, from its first look at the list to its last.                 *)
Search(h) ==
  /\ pc[h] = "search"
  /\ pc' = [pc EXCEPT ![h] = "searching"]
  /\ UNCHANGED <<phase, incoming, simulation, ids, updated, holder, listed, arrived>>

Reply(h) ==
  /\ pc[h] = "searching"
  /\ pc' = [pc EXCEPT ![h] = "idle"]
  /\ UNCHANGED <<phase, incoming, simulation, ids, updated, holder, listed, arrived>>

(* The neighbour has no more to ask in this step.                          *)
NeighborArrives(h) ==
  /\ pc[h] = "idle" /\ ~arrived[h]
  /\ arrived' = [arrived EXCEPT ![h] = TRUE]
  /\ UNCHANGED <<phase, incoming, simulation, ids, updated, threads>>

Over ==
  /\ phase = "loop" /\ steps = MaxSteps /\ \A h \in Handler : pc[h] = "idle"
  /\ UNCHANGED vars

Serve(h) == TakeLock(h) \/ List(h) \/ Fill(h) \/ Search(h) \/ Reply(h)

Main ==
  \/ Step \/ Invalidate \/ CrossBarrier
  \/ \E v \in Vehicle : Add(v)
  \/ LookAtFlag \/ Insert \/ Applied

Next ==
  \/ Main
  \/ \E h \in Handler : Ask(h) \/ Serve(h) \/ NeighborArrives(h)
  \/ Over

Spec == Init /\ [][Next]_vars

FairSpec == Spec /\ \A h \in Handler : WF_vars(Serve(h))

-----------------------------------------------------------------------------
(* Correctness.                                                            *)

TypeOK ==
  /\ phase \in {"loop", "stepped", "handout", "apply", "added", "inserting"}
  /\ incoming \subseteq Vehicle /\ present \subseteq Vehicle /\ ids \subseteq Vehicle
  /\ steps \in 0 .. MaxSteps /\ updated \in BOOLEAN
  /\ holder \in Handler \cup {Nobody}
  /\ \A h \in Handler : pc[h] \in {"locked", "filling"} <=> holder = h
  /\ pc \in [Handler -> {"idle", "outdated", "locked", "filling", "search", "searching"}]
  /\ listed \in [Handler -> SUBSET Vehicle]
  /\ arrived \in [Handler -> BOOLEAN]
  /\ always \in [now : SUBSET Vehicle, last : SUBSET Vehicle]
  /\ ever \in [now : SUBSET Vehicle, last : SUBSET Vehicle]

Changing(h) == phase = "inserting" \/ \E g \in Handler \ {h} : pc[g] = "filling"

(* No thread searches the list while another changes it: "it seems that    *)
(* this sometimes leads to a segfault when multiple neighbor handler       *)
(* threads access it, but it should be thread-safe" (hasVehicle,           *)
(* PartitionManager.cpp:256).                                              *)
NoRace == \A h \in Handler : pc[h] = "searching" => ~Changing(h)

(* The list a handler searches may be out of date, for the flag goes down  *)
(* and up without regard to what the other threads are doing; but never by *)
(* more than the step before: a vehicle that was there all that time is    *)
(* found, and one that was not there is not (hasVehicle, which decides     *)
(* whether a neighbour hands its vehicle over).                            *)
AtMostAStepOld ==
  \A h \in Handler : pc[h] = "searching" /\ ~Changing(h) =>
    /\ always.last \cap always.now \subseteq ids
    /\ ids \subseteq ever.last \cup ever.now

(* Every question is answered: the lock is never kept (refreshVehicleIds). *)
Answered == \A h \in Handler : pc[h] # "idle" ~> pc[h] = "idle"

-----------------------------------------------------------------------------
(* Proofs: the list is never older than the step before, whatever the      *)
(* number of handler threads, vehicles and steps.                          *)
(*                                                                         *)
(* A question does not outlive the barrier it is asked before, so what a   *)
(* thread lists it still has in the same round (ListedNow).  The flag goes *)
(* down once in each round, so when it is up at the barrier the list was   *)
(* filled in this round (FilledNow), and one round later it is a round     *)
(* old (FilledLately).                                                     *)


Current == always.now \subseteq present /\ present \subseteq ever.now

AskedBefore == \A h \in Handler : arrived[h] => pc[h] = "idle"

ListedNow ==
  \A h \in Handler : pc[h] = "filling" =>
    always.now \subseteq listed[h] /\ listed[h] \subseteq ever.now

FilledNow ==
  phase = "handout" /\ updated => always.now \subseteq ids /\ ids \subseteq ever.now

FilledLately ==
  updated \/ (\E h \in Handler : pc[h] \in {"search", "searching"}) =>
    /\ always.last \cap always.now \subseteq ids
    /\ ids \subseteq ever.last \cup ever.now

Incoming == phase \in {"added", "inserting"} => incoming \subseteq present

IInv ==
  TypeOK /\ Current /\ AskedBefore /\ ListedNow /\ FilledNow /\ FilledLately /\ Incoming

USE ThreadsAssumption DEF ThreadsAssumption

-----------------------------------------------------------------------------
LEMMA Start == Init => IInv
<1> SUFFICES ASSUME Init PROVE IInv
  OBVIOUS
<1>1. TypeOK
  <2>1. steps \in 0 .. MaxSteps
    BY DEF Init
  <2>2. /\ incoming \subseteq Vehicle /\ present \subseteq Vehicle /\ ids \subseteq Vehicle
        /\ updated \in BOOLEAN
    BY Zenon DEF Init
  <2> QED BY <2>1, <2>2 DEF Init, TypeOK
<1>2. Current /\ AskedBefore /\ ListedNow /\ FilledNow /\ FilledLately /\ Incoming
  BY DEF Init, Current, AskedBefore, ListedNow, FilledNow, FilledLately, Incoming
<1> QED BY <1>1, <1>2 DEF IInv

(* The main thread: a step and a vehicle that comes in widen what was      *)
(* there at some time and narrow what was there all the time; the barrier  *)
(* makes the round that ends the last one.                                 *)
LEMMA MainPreserves == ASSUME IInv, Main PROVE IInv'
<1> USE DEF IInv, TypeOK, Current, AskedBefore, ListedNow, FilledNow, FilledLately, Incoming,
            Becomes, simulation, threads
<1>1. CASE Step
  BY <1>1 DEF Step
<1>2. CASE Invalidate
  BY <1>2 DEF Invalidate
<1>3. CASE CrossBarrier
  <2>1. \A h \in Handler : pc[h] = "idle"
    BY <1>3 DEF CrossBarrier
  <2>2. FilledLately'
    BY <1>3, <2>1 DEF CrossBarrier
  <2>3. TypeOK' /\ Current' /\ AskedBefore' /\ ListedNow' /\ FilledNow' /\ Incoming'
    BY <1>3, <2>1 DEF CrossBarrier
  <2> QED BY <2>2, <2>3
<1>4. ASSUME NEW v \in Vehicle, Add(v) PROVE IInv'
  BY <1>4 DEF Add
<1>5. CASE LookAtFlag
  BY <1>5 DEF LookAtFlag
<1>6. CASE Insert
  BY <1>6 DEF Insert
<1>7. CASE Applied
  BY <1>7 DEF Applied
<1> QED BY <1>1, <1>2, <1>3, <1>4, <1>5, <1>6, <1>7 DEF Main

(* The handler threads and the neighbours.                                 *)
LEMMA HandlersPreserve ==
  ASSUME IInv, NEW h \in Handler, Ask(h) \/ Serve(h) \/ NeighborArrives(h)
  PROVE  IInv'
<1> USE DEF IInv, TypeOK, Current, AskedBefore, ListedNow, FilledNow, FilledLately, Incoming,
            simulation, threads
<1>1. CASE Ask(h)
  BY <1>1 DEF Ask
<1>2. CASE TakeLock(h)
  BY <1>2 DEF TakeLock
<1>3. CASE List(h)
  BY <1>3 DEF List
<1>4. CASE Fill(h)
  BY <1>4 DEF Fill
<1>5. CASE Search(h)
  BY <1>5 DEF Search
<1>6. CASE Reply(h)
  BY <1>6 DEF Reply
<1>7. CASE NeighborArrives(h)
  BY <1>7 DEF NeighborArrives
<1> QED BY <1>1, <1>2, <1>3, <1>4, <1>5, <1>6, <1>7 DEF Serve

(* The strengthening of AtMostAStepOld is an invariant.                    *)
THEOREM Invariance == Spec => []IInv
<1>1. IInv /\ [Next]_vars => IInv'
  <2> SUFFICES ASSUME IInv, [Next]_vars PROVE IInv'
    OBVIOUS
  <2>1. CASE Over \/ UNCHANGED vars
    BY <2>1 DEF Over, vars, simulation, threads, IInv, TypeOK, Current, AskedBefore, ListedNow,
                FilledNow, FilledLately, Incoming
  <2> QED BY <2>1, MainPreserves, HandlersPreserve DEF Next
<1> QED BY <1>1, Start, PTL DEF Spec

(* Every variable keeps to its type, and only the thread that holds        *)
(* allVehicleIds_lock lists the vehicles and fills the list                *)
(* (refreshVehicleIds).                                                    *)
THEOREM Typing == Spec => []TypeOK
  BY Invariance, PTL DEF IInv

(* What hasVehicle finds was there at some time in this step or the last,  *)
(* and what was there all that time it finds.                              *)
THEOREM AStepOld == Spec => []AtMostAStepOld
<1>1. IInv => AtMostAStepOld
  BY DEF IInv, FilledLately, AtMostAStepOld
<1> QED BY <1>1, Invariance, PTL
=============================================================================
