--------------------------- MODULE VehicleHandoff ---------------------------
(***************************************************************************)
(* Vehicles travelling through the partitions of a run. Every partition    *)
(* simulates its own piece of the network; a border edge lies in two of    *)
(* them. A vehicle whose route piece ends on a border edge is announced to *)
(* the partition behind it (PartitionManager::handleOutgoingEdges), which  *)
(* inserts its own copy after the step barrier (addVehicle, called by      *)
(* applyMutableOperations), while the first copy drives on to the end of   *)
(* the border edge and disappears there.                                   *)
(*                                                                         *)
(* The barriers are those of module LockStep. A call to a neighbour is one *)
(* step: the caller waits for the answer, and the neighbour's listen       *)
(* thread, here always awake, gives it from the neighbour's present state, *)
(* in whatever phase the neighbour's main thread is. The queues are as     *)
(* long as they need to be (see NeighborHandler for both).                 *)
(*                                                                         *)
(* Routes begin inside a partition: of the two copies of a vehicle that    *)
(* starts on a border edge createParts.py (_final_duplicates_check) keeps  *)
(* one, and renumbers the pieces; that rewriting is not modelled.          *)
(*                                                                         *)
(* SUMO is external: in a step a vehicle stays on its edge or comes to the *)
(* next edge of its route, so it is seen on every edge at least once.      *)
(***************************************************************************)
EXTENDS Integers, Sequences, FiniteSets, FiniteSetsExt

CONSTANTS
  Part,        \* the partitions
  EdgeParts,   \* for each edge, the partitions that have it: one or two
  Route,       \* for each vehicle, the edges of its route in the whole network
  Depart,      \* for each vehicle, its departure time
  JamUntil     \* the time from which on each vehicle moves in every step

Vehicle == DOMAIN Route
Edge    == DOMAIN EdgeParts
Border  == {e \in Edge : Cardinality(EdgeParts[e]) = 2}

ASSUME NetworkAssumption ==
  /\ IsFiniteSet(Part) /\ IsFiniteSet(Vehicle)
  /\ EdgeParts \in [Edge -> SUBSET Part] /\ Route \in [Vehicle -> Seq(Edge)]
  /\ \A e \in Edge : Cardinality(EdgeParts[e]) \in {1, 2}
  /\ \A v \in Vehicle :
       /\ Route[v] # <<>> /\ Route[v][1] \notin Border
       /\ \A i \in 1 .. Len(Route[v]) - 1 :
            EdgeParts[Route[v][i]] \cap EdgeParts[Route[v][i + 1]] # {}
  /\ Depart \in [Vehicle -> Nat] /\ JamUntil \in [Vehicle -> Nat]

VARIABLES
  waits, crossed, vote, heard, opened, verdict,   \* the barriers
  phase,      \* where each partition's main thread stands
  time,       \* Simulation::getTime()
  pos,        \* the place of each copy on its route, 0 where there is none
  prev,       \* prevOutgoingVehicles, for each border edge
  sent,       \* sentVehicles
  progress,   \* vehicleMultipartRouteProgress, -1 for no entry
  ids,        \* allVehicleIds
  idsUpdated, \* allVehicleIdsUpdated
  leaving,    \* vehicles handleOutgoingEdges has still to ask about
  asked,      \* the one the neighbour does not have, to be sent next
  queue,      \* queue[q][p]: operations of q waiting at p
  todo,       \* neighbours whose operations are still to be applied
  locked,     \* the one whose operations are being applied, if any
  arrived,    \* vehicles that have reached the end of their route
  misplaced   \* vehicles inserted elsewhere than where they left

Sync == INSTANCE LockStep WITH Participant <- Part

syncVars == <<waits, crossed, vote, heard, opened, verdict>>
world    == <<time, pos, arrived>>
border   == <<prev, leaving, asked>>
apply    == <<todo, locked>>
vars     == <<syncVars, phase, world, border, sent, progress, ids, idsUpdated,
              queue, apply, misplaced>>

None == [veh |-> "none", at |-> 0]

-----------------------------------------------------------------------------
(* The data the partitioning scripts hand to a partition.                  *)

Places(v) == 1 .. Len(Route[v])
Inside(p, v, i) == p \in EdgeParts[Route[v][i]]

(* Route pieces of v in p: maximal runs of edges inside p, numbered from 0. *)
PieceBegins == [p \in Part |-> [v \in Vehicle |->
  {i \in Places(v) : Inside(p, v, i) /\ (i = 1 \/ ~Inside(p, v, i - 1))}]]
(* Faulty data in which the last edge of a route is not an end.            *)
PieceEndsInside == [p \in Part |-> [v \in Vehicle |->
  {i \in Places(v) : Inside(p, v, i) /\ i < Len(Route[v]) /\ ~Inside(p, v, i + 1)}]]

PieceEnds == [p \in Part |-> [v \in Vehicle |->
  {i \in Places(v) : Inside(p, v, i) /\ (i = Len(Route[v]) \/ ~Inside(p, v, i + 1))}]]

Begins(p, v) == PieceBegins[p][v]
Ends(p, v)   == PieceEnds[p][v]
PieceNo(p, v, i) == Cardinality({b \in Begins(p, v) : b <= i}) - 1

(* Faulty data in which no route is known to have several pieces.          *)
NeverMultipart(p, v) == FALSE

Multipart(p, v) == Cardinality(Begins(p, v)) > 1

(* Faulty data: every border edge of a route counts as an end of it; only  *)
(* the routes that begin in a partition count as its routes.               *)
PassesOver(p, edge) == {v \in Vehicle : \E i \in Places(v) : Route[v][i] = edge}
RoutesFrom(p)       == {v \in Vehicle : 1 \in Begins(p, v)}

(* routeEndsInEdges, and the routes of a neighbour                         *)
EndsIn(p, edge) == {v \in Vehicle : \E i \in Ends(p, v) : Route[v][i] = edge}
RoutesOf(p)     == {v \in Vehicle : Begins(p, v) # {}}

Other(p, edge) == CHOOSE q \in EdgeParts[edge] : q # p
Neighbors(p)   == {Other(p, e) : e \in {b \in Border : p \in EdgeParts[b]}}

Own(p)        == {v \in Vehicle : Inside(p, v, 1)}
LastDepart(p) == Max({0} \cup {Depart[v] : v \in Own(p)})

Present(p)    == {v \in Vehicle : pos[p][v] # 0}
On(p, edge)   == {v \in Present(p) : Route[v][pos[p][v]] = edge}

-----------------------------------------------------------------------------
Init ==
  /\ Sync!Init
  /\ phase = [p \in Part |-> "start"]
  /\ time = [p \in Part |-> 0]
  /\ pos = [p \in Part |-> [v \in Vehicle |-> 0]]
  /\ prev = [p \in Part |-> [e \in Border |-> {}]]
  /\ sent = [p \in Part |-> {}]
  /\ progress = [p \in Part |-> [v \in Vehicle |-> -1]]
  /\ ids = [p \in Part |-> {}]
  /\ idsUpdated = [p \in Part |-> FALSE]
  /\ leaving = [p \in Part |-> {}]
  /\ asked = [p \in Part |-> None]
  /\ queue = [q \in Part |-> [p \in Part |-> <<>>]]
  /\ todo = [p \in Part |-> {}]
  /\ locked = [p \in Part |-> {}]
  /\ arrived = {}
  /\ misplaced = {}

(* The start barrier, and the end barrier when the loop is over. There is  *)
(* no end time: isFinished is the verdict.                                 *)
ArriveAtBarrier(p) ==
  /\ \/ phase[p] = "start"
     \/ phase[p] = "loop" /\ heard[p]
  /\ phase' = [phase EXCEPT ![p] = IF @ = "start" THEN "started" ELSE "ended"]
  /\ Sync!ArriveAtBarrier(p)
  /\ UNCHANGED <<world, border, sent, progress, ids, idsUpdated, queue, apply, misplaced>>

CrossBarrier(p) ==
  /\ phase[p] \in {"started", "ended"}
  /\ phase' = [phase EXCEPT ![p] = IF @ = "started" THEN "loop" ELSE "done"]
  /\ Sync!Cross(p)
  /\ UNCHANGED <<world, border, sent, progress, ids, idsUpdated, queue, apply, misplaced>>

(* Simulation::step: some copies go on to the next edge, and disappear     *)
(* past the end of their piece; vehicles whose time has come depart.       *)
Step(p) ==
  /\ phase[p] = "loop" /\ ~heard[p]
  /\ \E moving \in SUBSET Present(p) :
       LET gone == {v \in moving : pos[p][v] \in Ends(p, v)} IN
       /\ \A v \in Present(p) \ moving : time[p] < JamUntil[v]
       /\ pos' = [pos EXCEPT ![p] = [v \in Vehicle |->
            IF v \in gone THEN 0
            ELSE IF v \in moving THEN @[v] + 1
            ELSE IF v \in Own(p) /\ Depart[v] = time[p] THEN 1
            ELSE @[v]]]
       /\ arrived' = arrived \cup {v \in gone : pos[p][v] = Len(Route[v])}
  /\ time' = [time EXCEPT ![p] = @ + 1]
  /\ phase' = [phase EXCEPT ![p] = "stepped"]
  /\ UNCHANGED <<syncVars, border, sent, progress, ids, idsUpdated, queue, apply, misplaced>>

(* The vehicle list is declared out of date, and handleOutgoingEdges goes  *)
(* through the border edges: of the vehicles on them that it has not sent, *)
(* it notes the route piece and picks those that have just come to the end *)
(* of it and go on in the neighbour.                                       *)
StartHandout(p) ==
  LET edges     == {e \in Border : p \in EdgeParts[e]}
      unsent(e) == IF EndsIn(p, e) = {} THEN {} ELSE On(p, e) \ sent[p]
      picked(e) == (unsent(e) \cap RoutesOf(Other(p, e)) \cap EndsIn(p, e)) \ prev[p][e]
  IN
  /\ phase[p] = "stepped"
  /\ idsUpdated' = [idsUpdated EXCEPT ![p] = FALSE]
  /\ progress' = [progress EXCEPT ![p] = [v \in Vehicle |->
       IF Multipart(p, v) /\ \E e \in edges : v \in unsent(e)
       THEN PieceNo(p, v, pos[p][v]) ELSE @[v]]]
  /\ leaving' = [leaving EXCEPT ![p] = UNION {picked(e) : e \in edges}]
  /\ prev' = [prev EXCEPT ![p] = [e \in Border |->
       IF e \notin edges \/ (On(p, e) # {} /\ EndsIn(p, e) = {}) THEN @[e]
       ELSE On(p, e)]]
  /\ phase' = [phase EXCEPT ![p] = "handout"]
  /\ UNCHANGED <<syncVars, world, asked, sent, ids, queue, apply, misplaced>>

(* The stub's hasVehicle: the neighbour's listen thread refreshes the      *)
(* neighbour's vehicle list, if it is out of date, and looks the vehicle   *)
(* up. A vehicle that is there is not sent, now or later.                  *)
Ask(p, v) ==
  LET edge  == Route[v][pos[p][v]]
      q     == Other(p, edge)
      known == IF idsUpdated[q] THEN ids[q] ELSE Present(q)
  IN
  /\ phase[p] = "handout" /\ asked[p] = None /\ v \in leaving[p]
  /\ ids' = [ids EXCEPT ![q] = known]
  /\ idsUpdated' = [idsUpdated EXCEPT ![q] = TRUE]
  /\ leaving' = [leaving EXCEPT ![p] = @ \ {v}]
  /\ asked' = IF v \in known THEN asked
              ELSE [asked EXCEPT ![p] = [veh |-> v, at |-> pos[p][v]]]
  /\ UNCHANGED <<syncVars, phase, world, prev, sent, progress, queue, apply, misplaced>>

(* The stub's addVehicle; the neighbour's listen thread appends to the     *)
(* queue when its main thread is not at it (operationsBufferLock).         *)
Send(p) ==
  /\ phase[p] = "handout" /\ asked[p] # None
  /\ LET q == Other(p, Route[asked[p].veh][asked[p].at]) IN
       /\ p \notin locked[q]
       /\ queue' = [queue EXCEPT ![p][q] = Append(@, asked[p])]
  /\ sent' = [sent EXCEPT ![p] = @ \cup {asked[p].veh}]
  /\ asked' = [asked EXCEPT ![p] = None]
  /\ UNCHANGED <<syncVars, phase, world, prev, leaving, progress, ids, idsUpdated,
                 apply, misplaced>>

(* A faulty isMaybeFinished that forgets the vehicles still present.       *)
ArriveAtStepRegardless(p) ==
  /\ phase[p] = "handout" /\ leaving[p] = {} /\ asked[p] = None
  /\ Sync!ArriveAtStep(p, time[p] > LastDepart(p) + 1)
  /\ phase' = [phase EXCEPT ![p] = "voted"]
  /\ UNCHANGED <<world, border, sent, progress, ids, idsUpdated, queue, apply, misplaced>>

(* finishStepWait, with isMaybeFinished.                                   *)
ArriveAtStep(p) ==
  /\ phase[p] = "handout" /\ leaving[p] = {} /\ asked[p] = None
  /\ Sync!ArriveAtStep(p, time[p] > LastDepart(p) + 1 /\ Present(p) = {})
  /\ phase' = [phase EXCEPT ![p] = "voted"]
  /\ UNCHANGED <<world, border, sent, progress, ids, idsUpdated, queue, apply, misplaced>>

CrossStep(p) ==
  /\ phase[p] = "voted"
  /\ Sync!Cross(p)
  /\ phase' = [phase EXCEPT ![p] = "apply"]
  /\ todo' = [todo EXCEPT ![p] = Neighbors(p)]
  /\ UNCHANGED <<world, border, sent, progress, ids, idsUpdated, queue, locked, misplaced>>

(* addVehicle, on what a partition keeps about its vehicles. The next      *)
(* piece of a route that comes back is counted from the one it left. If    *)
(* there is no such piece the vehicle is not inserted, and if it is there  *)
(* already Vehicle::add throws (see NeverDoubled). If the edge is not on   *)
(* the piece, moveTo fails and the vehicle stays at its first edge.        *)
Insert(p, op) ==
  LET v     == op.veh
      piece == IF Multipart(p, v) THEN progress[p][v] + 1 ELSE 0
      spots == {i \in Places(v) : Inside(p, v, i) /\ PieceNo(p, v, i) = piece}
      same  == {i \in spots : Route[v][i] = Route[v][op.at]}
      spot  == IF same # {} THEN Min(same) ELSE Min(spots)
      fits  == spots # {} /\ pos[p][v] = 0
  IN
  /\ sent' = [sent EXCEPT ![p] = @ \ {v}]
  /\ progress' = [progress EXCEPT ![p][v] = IF Multipart(p, v) /\ @ = -1 THEN 0 ELSE @]
  /\ pos' = IF fits THEN [pos EXCEPT ![p][v] = spot] ELSE pos
  /\ ids' = IF fits /\ same # {} /\ idsUpdated[p] THEN [ids EXCEPT ![p] = @ \cup {v}] ELSE ids
  /\ misplaced' = IF fits /\ spot # op.at THEN misplaced \cup {v} ELSE misplaced
  /\ UNCHANGED <<time, arrived>>

(* applyMutableOperations, for one neighbour after the other, with its     *)
(* queue locked.                                                           *)
LockQueue(p, q) ==
  /\ phase[p] = "apply" /\ q \in todo[p] /\ locked[p] = {}
  /\ locked' = [locked EXCEPT ![p] = {q}]
  /\ UNCHANGED <<syncVars, phase, world, border, sent, progress, ids, idsUpdated, queue,
                 todo, misplaced>>

(* A faulty one that does not take the operation off the queue.            *)
AddAndKeep(p, q) ==
  /\ phase[p] = "apply" /\ q \in locked[p] /\ queue[q][p] # <<>>
  /\ Insert(p, Head(queue[q][p]))
  /\ UNCHANGED <<syncVars, phase, border, idsUpdated, queue, apply>>

AddVehicle(p, q) ==
  /\ phase[p] = "apply" /\ q \in locked[p] /\ queue[q][p] # <<>>
  /\ Insert(p, Head(queue[q][p]))
  /\ queue' = [queue EXCEPT ![q][p] = Tail(@)]
  /\ UNCHANGED <<syncVars, phase, border, idsUpdated, apply>>

UnlockQueue(p, q) ==
  /\ phase[p] = "apply" /\ q \in locked[p] /\ queue[q][p] = <<>>
  /\ locked' = [locked EXCEPT ![p] = {}]
  /\ todo' = [todo EXCEPT ![p] = @ \ {q}]
  /\ UNCHANGED <<syncVars, phase, world, border, sent, progress, ids, idsUpdated, queue,
                 misplaced>>

(* Back to the head of the loop.                                           *)
Applied(p) ==
  /\ phase[p] = "apply" /\ todo[p] = {}
  /\ phase' = [phase EXCEPT ![p] = "loop"]
  /\ UNCHANGED <<syncVars, world, border, sent, progress, ids, idsUpdated, queue, apply, misplaced>>

(* The coordinator.                                                        *)
Open ==
  /\ Sync!OpenBarrier \/ Sync!OpenStep
  /\ UNCHANGED <<phase, world, border, sent, progress, ids, idsUpdated, queue, apply, misplaced>>

Over == (\A p \in Part : phase[p] = "done") /\ UNCHANGED vars

PartitionNext(p) ==
  \/ ArriveAtBarrier(p) \/ CrossBarrier(p)
  \/ Step(p) \/ StartHandout(p)
  \/ \E v \in Vehicle : Ask(p, v)
  \/ Send(p) \/ ArriveAtStep(p) \/ CrossStep(p)
  \/ \E q \in Part : LockQueue(p, q) \/ AddVehicle(p, q) \/ UnlockQueue(p, q)
  \/ Applied(p)

Next == (\E p \in Part : PartitionNext(p)) \/ Open \/ Over

Fairness == (\A p \in Part : WF_vars(PartitionNext(p))) /\ WF_vars(Open)

Spec == Init /\ [][Next]_vars

FairSpec == Spec /\ Fairness
-----------------------------------------------------------------------------
(* Correctness.                                                            *)

Place == UNION {Places(v) : v \in Vehicle}

TypeOK ==
  /\ phase \in [Part -> {"start", "started", "loop", "stepped", "handout", "voted",
                         "apply", "ended", "done"}]
  /\ time \in [Part -> Nat]
  /\ pos \in [Part -> [Vehicle -> Nat]]
  /\ \A p \in Part : \A v \in Vehicle : pos[p][v] \in {0} \cup Places(v)
  /\ prev \in [Part -> [Border -> SUBSET Vehicle]]
  /\ sent \in [Part -> SUBSET Vehicle]
  /\ progress \in [Part -> [Vehicle -> {-1} \cup Nat]]
  /\ ids \in [Part -> SUBSET Vehicle] /\ idsUpdated \in [Part -> BOOLEAN]
  /\ leaving \in [Part -> SUBSET Vehicle]
  /\ asked \in [Part -> {None} \cup [veh : Vehicle, at : Place]]
  /\ queue \in [Part -> [Part -> Seq([veh : Vehicle, at : Place])]]
  /\ todo \in [Part -> SUBSET Part] /\ locked \in [Part -> SUBSET Part]
  /\ arrived \subseteq Vehicle /\ misplaced \subseteq Vehicle

(* A vehicle that comes into each partition at most once, and ends inside  *)
(* one (multipartRoutes, routeEndsInEdges).                                *)
Simple(v) ==
  /\ \A p \in Part : ~Multipart(p, v)
  /\ \A i, j \in Places(v) : Route[v][i] = Route[v][j] => i = j
  /\ Route[v][Len(Route[v])] \notin Border

(* A vehicle is inserted where its copy in the partition before was seen,  *)
(* on the piece of a route with several pieces that comes next             *)
(* (addVehicle, "_part" + newPartProgress).                                *)
ResumesWhereItLeft == misplaced = {}

(* No partition has to insert a vehicle that it has, whether the other     *)
(* partition repeats itself or a vehicle comes round again: Vehicle::add   *)
(* would throw, and end the partition. It is what hasVehicle, sentVehicles *)
(* and the emptying of the queue are for (PartitionManager.cpp:459).       *)
NotDoubled(v) ==
  \A p, q \in Part :
    phase[p] = "apply" /\ v \in Present(p) => \A i \in DOMAIN queue[q][p] : queue[q][p][i].veh # v

NeverDoubled == \A v \in Vehicle : NotDoubled(v)

(* Two copies of a vehicle exist only while the one behind is a shadow: it *)
(* is on the border edge that ends its piece, so it goes no further.       *)
(* (routeEndsInEdges: "passes to neighbor, but not from this edge".)       *)
ShadowAtTheBorder(v) ==
  \A p, q \in Part :
    p # q /\ v \in Present(p) \cap Present(q) =>
      \E r \in {p, q} :
        /\ pos[r][v] = Min({pos[p][v], pos[q][v]})
        /\ pos[r][v] \in Ends(r, v) /\ Route[v][pos[r][v]] \in Border

ShadowsEndAtTheBorder == \A v \in Vehicle : ShadowAtTheBorder(v)

Queued(v) == \E p, q \in Part : \E i \in DOMAIN queue[q][p] : queue[q][p][i].veh = v

(* The run ends, without an end time, only when no vehicle is left in any  *)
(* partition or on its way to one, and all have departed (partitionEmpty). *)
EndsEmpty ==
  (\E p \in Part : heard[p]) =>
    \A v \in Vehicle :
      /\ ~Queued(v) /\ \A q \in Part : v \notin Present(q)
      /\ \A q \in Part : v \in Own(q) => time[q] > Depart[v]

(* A vehicle that has departed and not arrived is somewhere: the border    *)
(* does not swallow it ("multipart routes in where vehicles should be sent *)
(* more than once", PartitionManager.cpp:292).                             *)
NotLost(v) ==
  \A p \in Part :
    v \in Own(p) /\ time[p] > Depart[v] =>
      v \in arrived \/ Queued(v) \/ \E q \in Part : v \in Present(q)

NoneLost == \A v \in Vehicle : NotLost(v)

(* Every partition comes to the end of the run, and every vehicle to the   *)
(* end of its route.                                                       *)
AllArrive == <>(arrived = Vehicle /\ \A p \in Part : phase[p] = "done")
=============================================================================
