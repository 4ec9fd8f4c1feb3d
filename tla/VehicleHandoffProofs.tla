------------------------ MODULE VehicleHandoffProofs ------------------------
(***************************************************************************)
(* Proofs about VehicleHandoff, for every network of partitions, every set *)
(* of vehicles with their routes and departures, and every way SUMO may    *)
(* hold them up: IInv of VehicleHandoffInv is inductive, and the           *)
(* correctness properties follow from it.                                  *)
(***************************************************************************)
EXTENDS VehicleHandoffInv, LeastElements, FunctionTheorems, SequenceTheorems, TLAPS

USE NetworkAssumption DEF NetworkAssumption

-----------------------------------------------------------------------------
(* Routes, border edges and route pieces.                                  *)

(* What the assumption says about one place of one route.                  *)
LEMMA OnRoute ==
  ASSUME NEW v \in Vehicle
  PROVE  /\ Route[v] \in Seq(Edge) /\ Len(Route[v]) \in Nat \ {0}
         /\ Places(v) \subseteq Nat \ {0} /\ 1 \in Places(v) /\ Len(Route[v]) \in Places(v)
         /\ \A i \in Places(v) : Route[v][i] \in Edge /\ EdgeParts[Route[v][i]] \subseteq Part
         /\ \A i \in Places(v) : i # Len(Route[v]) => i + 1 \in Places(v)
<1>1. Route[v] \in Seq(Edge) /\ Route[v] # <<>>
  OBVIOUS
<1>2. Len(Route[v]) \in Nat \ {0}
  BY <1>1, EmptySeq
<1>3. \A i \in Places(v) : Route[v][i] \in Edge
  BY <1>1, ElementOfSeq DEF Places
<1> QED
  BY <1>1, <1>2, <1>3 DEF Places

(* An edge in two partitions is a border edge between these two.           *)
LEMMA TwoParts ==
  ASSUME NEW e \in Edge, NEW p \in EdgeParts[e], NEW q \in EdgeParts[e], p # q
  PROVE  e \in Border /\ EdgeParts[e] = {p, q} /\ Other(p, e) = q
<1> DEFINE S == EdgeParts[e]
<1>1. IsFiniteSet(S) /\ S \subseteq Part
  BY FS_Subset
<1>2. Cardinality(S) # 1
  <2>1. \A x : S # {x}
    OBVIOUS
  <2> QED
    BY <1>1, <2>1, FS_Singleton
<1>3. Cardinality(S) = 2
  BY <1>2
<1>a. p \in S
  OBVIOUS
<1>4. IsFiniteSet(S \ {p}) /\ Cardinality(S \ {p}) = 1
  <2> HIDE DEF S
  <2> QED BY <1>1, <1>3, <1>a, FS_RemoveElement
<1>5. PICK x : S \ {p} = {x}
  <2> HIDE DEF S
  <2> QED BY <1>4, FS_Singleton
<1>6. S = {p, q}
  BY <1>5
<1> QED
  BY <1>3, <1>6 DEF Border, Other

(* The partition behind a border edge.                                     *)
LEMMA Across ==
  ASSUME NEW e \in Border, NEW p \in EdgeParts[e]
  PROVE  /\ e \in Edge /\ Other(p, e) \in Part /\ Other(p, e) # p
         /\ EdgeParts[e] = {p, Other(p, e)} /\ Other(Other(p, e), e) = p
<1>1. e \in Edge /\ Cardinality(EdgeParts[e]) = 2 /\ EdgeParts[e] \subseteq Part
  BY DEF Border
<1>2. PICK q \in EdgeParts[e] : q # p
  <2> SUFFICES ASSUME EdgeParts[e] = {p} PROVE FALSE
    OBVIOUS
  <2>1. Cardinality({p}) = 1
    BY FS_Singleton
  <2> QED
    BY <1>1, <2>1
<1>3. EdgeParts[e] = {p, q} /\ Other(p, e) = q /\ Other(q, e) = p
  BY <1>1, <1>2, TwoParts
<1> QED
  BY <1>1, <1>2, <1>3

(* The ends and begins of pieces.                                          *)
LEMMA Pieces ==
  ASSUME NEW p \in Part, NEW v \in Vehicle
  PROVE  /\ Begins(p, v) = {i \in Places(v) : Inside(p, v, i) /\ (i = 1 \/ ~Inside(p, v, i - 1))}
         /\ Ends(p, v) = {i \in Places(v) : Inside(p, v, i)
                                /\ (i = Len(Route[v]) \/ ~Inside(p, v, i + 1))}
BY DEF Begins, Ends, PieceBegins, PieceEnds

(* Every place of a route inside p is on a piece that begins there or      *)
(* before: the one with the least place from which on all are inside.      *)
LEMMA Begun ==
  ASSUME NEW p \in Part, NEW v \in Vehicle, NEW i \in Places(v), Inside(p, v, i)
  PROVE  \E b \in Begins(p, v) : b <= i /\ \A j \in b .. i : Inside(p, v, j)
<1> DEFINE T == {b \in Places(v) : b <= i /\ \A j \in b .. i : Inside(p, v, j)}
<1>1. i \in T /\ T \subseteq Nat
  <2>1. \A j \in i .. i : j = i
    BY OnRoute
  <2> QED
    BY <2>1, OnRoute
<1>2. PICK b \in T : \A y \in T : b <= y
  <2> HIDE DEF T
  <2> QED BY <1>1, Least
<1>3. ASSUME b # 1, Inside(p, v, b - 1) PROVE FALSE
  <2>1. b \in Nat \ {0} /\ b <= Len(Route[v]) /\ i \in Nat
    BY OnRoute DEF Places
  <2>2. b - 1 \in Places(v)
    BY <1>3, <2>1, OnRoute DEF Places
  <2>3. \A j \in b - 1 .. i : j = b - 1 \/ j \in b .. i
    BY <2>1
  <2>4. b - 1 \in T
    BY <1>3, <2>1, <2>2, <2>3
  <2> QED
    BY <1>2, <2>1, <2>4
<1>4. b \in Begins(p, v)
  <2>1. b \in Places(v) /\ b \in b .. i
    BY OnRoute
  <2> QED
    BY <1>3, <2>1, Pieces
<1> QED
  BY <1>4

(* Pieces are numbered with natural numbers.                               *)
LEMMA Numbered ==
  ASSUME NEW p \in Part, NEW v \in Vehicle, NEW i \in Places(v), Inside(p, v, i)
  PROVE  PieceNo(p, v, i) \in Nat
<1> DEFINE S == {b \in Begins(p, v) : b <= i}
<1>1. IsFiniteSet(S)
  <2>1. S \in SUBSET (1 .. Len(Route[v]))
    BY Pieces DEF Places
  <2>2. IsFiniteSet(1 .. Len(Route[v]))
    BY OnRoute, FS_Interval
  <2> HIDE DEF S
  <2> QED
    BY <2>1, <2>2, FS_Subset
<1>2. S # {}
  BY Begun
<1> HIDE DEF S
<1>3. Cardinality(S) \in Nat \ {0}
  BY <1>1, <1>2, FS_CardinalityType, FS_EmptySet
<1> QED
  BY <1>3 DEF PieceNo, S

(* The minimum of a nonempty set of natural numbers.                       *)
LEMMA MinOf ==
  ASSUME NEW S, S \subseteq Nat, S # {}
  PROVE  Min(S) \in S /\ \A y \in S : Min(S) <= y
BY Least DEF Min

(* All vehicles of a partition have departed when the time is past the     *)
(* last departure.                                                         *)
LEMMA Last ==
  ASSUME NEW p \in Part
  PROVE  LastDepart(p) \in Nat /\ \A v \in Own(p) : Depart[v] <= LastDepart(p)
<1> DEFINE D == {Depart[v] : v \in Own(p)}
           f == [v \in Own(p) |-> Depart[v]]
<1>1. IsFiniteSet(D)
  <2>1. IsFiniteSet(Own(p))
    BY FS_Subset DEF Own
  <2>2. f \in Surjection(Own(p), D)
    BY Fun_IsSurj
  <2> QED
    BY <2>1, <2>2, FS_Surjection
<1>2. {0} \cup D \subseteq Nat /\ {0} \cup D # {}
  BY DEF Own
<1>3. IsFiniteSet({0} \cup D)
  <2> HIDE DEF D
  <2>1. {0} \cup D = D \cup {0}
    OBVIOUS
  <2> QED BY <1>1, <2>1, FS_AddElement
<1>4. \E x \in {0} \cup D : \A y \in {0} \cup D : x >= y
  <2> HIDE DEF D
  <2> QED BY <1>2, <1>3, FiniteMax
<1>5. LastDepart(p) \in {0} \cup D /\ \A y \in {0} \cup D : LastDepart(p) >= y
  BY <1>4 DEF LastDepart, Max
<1> QED
  BY <1>2, <1>5

(* Where a route leaves a partition it goes over a border edge into the    *)
(* partition behind it.                                                    *)
LEMMA ExitCrosses ==
  ASSUME NEW p \in Part, NEW v \in Vehicle, NEW i \in Places(v), Exit(p, v, i)
  PROVE  LET e == Route[v][i] IN
         /\ e \in Border /\ p \in EdgeParts[e] /\ v \in EndsIn(p, e)
         /\ v \in RoutesOf(Other(p, e)) /\ i + 1 \in Places(v)
         /\ Inside(Other(p, e), v, i) /\ Inside(Other(p, e), v, i + 1)
         /\ ~Inside(p, v, i + 1)
<1>1. /\ i \in Ends(p, v) /\ Inside(p, v, i) /\ i # Len(Route[v]) /\ ~Inside(p, v, i + 1)
      /\ i \in 1 .. Len(Route[v]) - 1 /\ i + 1 \in Places(v)
  BY Pieces, OnRoute DEF Exit, Places
<1>2. PICK q \in EdgeParts[Route[v][i]] : q \in EdgeParts[Route[v][i + 1]]
  BY <1>1
<1>3. p \in EdgeParts[Route[v][i]] /\ p # q /\ Route[v][i] \in Edge /\ q \in Part
  BY <1>1, <1>2, OnRoute DEF Inside
<1>4. Route[v][i] \in Border /\ Other(p, Route[v][i]) = q
  BY <1>2, <1>3, TwoParts
<1>5. Inside(q, v, i) /\ Inside(q, v, i + 1)
  BY <1>2 DEF Inside
<1>6. v \in RoutesOf(q)
  BY <1>3, <1>5, Begun DEF RoutesOf
<1> QED
  BY <1>1, <1>3, <1>4, <1>5, <1>6 DEF EndsIn

(* A route begins in one partition, and does not leave it at once.         *)
LEMMA RouteBegins ==
  ASSUME NEW v \in Vehicle
  PROVE  \E p \in Part :
           /\ Inside(p, v, 1) /\ ~Exit(p, v, 1)
           /\ \A q \in Part : Inside(q, v, 1) => q = p
<1>1. 1 \in Places(v) /\ Route[v][1] \in Edge /\ Route[v][1] \notin Border
  BY OnRoute
<1>2. IsFiniteSet(EdgeParts[Route[v][1]]) /\ Cardinality(EdgeParts[Route[v][1]]) = 1
  <2>1. EdgeParts[Route[v][1]] \in SUBSET Part
    BY <1>1
  <2>2. IsFiniteSet(EdgeParts[Route[v][1]])
    BY <2>1, FS_Subset
  <2> QED
    BY <1>1, <2>2 DEF Border
<1>3. PICK p : EdgeParts[Route[v][1]] = {p}
  BY <1>2, FS_Singleton
<1>4. p \in Part
  BY <1>1, <1>3
<1>5. ~Exit(p, v, 1)
  BY <1>1, <1>4, ExitCrosses
<1> QED
  BY <1>3, <1>4, <1>5 DEF Inside

-----------------------------------------------------------------------------
(* Simple routes.                                                          *)

(* A simple route has at most one piece in a partition.                    *)
LEMMA OnePiece ==
  ASSUME NEW p \in Part, NEW v \in Vehicle, Simple(v),
         NEW a \in Begins(p, v), NEW b \in Begins(p, v)
  PROVE  a = b
<1>1. IsFiniteSet(Begins(p, v))
  <2>1. Begins(p, v) \in SUBSET (1 .. Len(Route[v]))
    BY Pieces DEF Places
  <2>2. IsFiniteSet(1 .. Len(Route[v]))
    BY OnRoute, FS_Interval
  <2> QED
    BY <2>1, <2>2, FS_Subset
<1>2. Cardinality(Begins(p, v)) \in Nat /\ Cardinality(Begins(p, v)) <= 1
  BY <1>1, FS_CardinalityType DEF Simple, Multipart
<1>3. Cardinality(Begins(p, v) \ {a}) = Cardinality(Begins(p, v)) - 1
  BY <1>1, FS_RemoveElement
<1>4. IsFiniteSet(Begins(p, v) \ {a}) /\ Cardinality(Begins(p, v) \ {a}) \in Nat
  BY <1>1, FS_RemoveElement, FS_CardinalityType
<1>5. Cardinality(Begins(p, v) \ {a}) = 0
  BY <1>2, <1>3, <1>4
<1>6. Begins(p, v) \ {a} = {}
  BY <1>4, <1>5, FS_EmptySet
<1> QED
  BY <1>6

(* ... so what lies between two places inside is inside,                   *)
LEMMA Convex ==
  ASSUME NEW p \in Part, NEW v \in Vehicle, Simple(v),
         NEW i \in Places(v), NEW j \in Places(v), NEW k \in Places(v), i <= j, j <= k,
         Inside(p, v, i), Inside(p, v, k)
  PROVE  Inside(p, v, j)
<1>1. PICK a \in Begins(p, v) : a <= i
  BY Begun
<1>2. PICK b \in Begins(p, v) : b <= k /\ \A l \in b .. k : Inside(p, v, l)
  BY Begun
<1>3. a = b
  BY OnePiece
<1>4. a \in Nat /\ i \in Nat /\ j \in Nat /\ k \in Nat
  BY OnRoute, Pieces
<1>5. j \in b .. k
  BY <1>1, <1>3, <1>4
<1> QED
  BY <1>2, <1>5

(* its end is the last place inside,                                       *)
LEMMA EndIsLast ==
  ASSUME NEW p \in Part, NEW v \in Vehicle, Simple(v),
         NEW i \in Ends(p, v), NEW k \in Places(v), Inside(p, v, k)
  PROVE  i \in Places(v) /\ Inside(p, v, i) /\ k <= i
<1>1. i \in Places(v) /\ Inside(p, v, i) /\ (i = Len(Route[v]) \/ ~Inside(p, v, i + 1))
  BY Pieces
<1>2. i \in Nat /\ k \in Nat /\ k <= Len(Route[v])
  BY <1>1, OnRoute DEF Places
<1>3. ASSUME i < k PROVE FALSE
  <2>1. i + 1 \in Places(v) /\ i <= i + 1 /\ i + 1 <= k
    BY <1>1, <1>2, <1>3, OnRoute DEF Places
  <2>2. Inside(p, v, i + 1)
    BY <1>1, <2>1, Convex
  <2> QED
    BY <1>1, <1>2, <1>3, <2>2
<1> QED
  BY <1>1, <1>2, <1>3

(* and all its places are on piece 0.                                      *)
LEMMA PieceZero ==
  ASSUME NEW p \in Part, NEW v \in Vehicle, Simple(v), NEW i \in Places(v), Inside(p, v, i)
  PROVE  PieceNo(p, v, i) = 0
<1> DEFINE S == {a \in Begins(p, v) : a <= i}
<1>1. PICK b \in Begins(p, v) : b <= i
  BY Begun
<1>2. S = {b}
  BY <1>1, OnePiece
<1>3. Cardinality(S) = 1
  BY <1>2, FS_Singleton
<1>4. PieceNo(p, v, i) = Cardinality(S) - 1
  BY DEF PieceNo
<1> QED
  BY <1>3, <1>4

HIDE NetworkAssumption DEF NetworkAssumption

-----------------------------------------------------------------------------
(* Types.                                                                  *)

Operation == [veh : Vehicle, at : Place]

(* No operation is taken for none.                                         *)
LEMMA IsOperation ==
  /\ \A op \in Operation : op.veh \in Vehicle /\ op.at \in Nat \ {0} /\ op # None
  /\ \A op \in Operation : op = [veh |-> op.veh, at |-> op.at]
<1>1. Place \subseteq Nat \ {0}
  BY OnRoute DEF Place
<1>2. ASSUME NEW op \in Operation
      PROVE  op.veh \in Vehicle /\ op.at \in Nat \ {0} /\ op = [veh |-> op.veh, at |-> op.at]
  BY <1>1 DEF Operation
<1>3. None.at = 0
  BY DEF None
<1> QED
  BY <1>2, <1>3

(* What waits in a queue.                                                  *)
LEMMA QueueOf ==
  ASSUME TypeOK, NEW p \in Part, NEW q \in Part
  PROVE  /\ queue[q][p] \in Seq(Operation)
         /\ Len(queue[q][p]) \in Nat /\ DOMAIN queue[q][p] = 1 .. Len(queue[q][p])
         /\ \A i \in DOMAIN queue[q][p] : queue[q][p][i] \in Operation
<1>0. queue \in [Part -> [Part -> Seq(Operation)]]
  BY Zenon DEF TypeOK, Operation
<1>1. queue[q][p] \in Seq(Operation)
  BY <1>0
<1> QED
  BY <1>1, LenProperties, ElementOfSeq

(* The first operation of a queue.                                         *)
LEMMA HeadOf ==
  ASSUME TypeOK, NEW p \in Part, NEW q \in Part, queue[q][p] # <<>>
  PROVE  /\ Head(queue[q][p]) \in Operation /\ Tail(queue[q][p]) \in Seq(Operation)
         /\ 1 \in DOMAIN queue[q][p] /\ Head(queue[q][p]) = queue[q][p][1]
         /\ \A i \in DOMAIN Tail(queue[q][p]) :
              i + 1 \in DOMAIN queue[q][p] /\ Tail(queue[q][p])[i] = queue[q][p][i + 1]
<1>1. queue[q][p] \in Seq(Operation)
  BY QueueOf
<1>2. Len(queue[q][p]) \in Nat \ {0} /\ DOMAIN queue[q][p] = 1 .. Len(queue[q][p])
  BY <1>1, EmptySeq, LenProperties
<1>3. /\ Head(queue[q][p]) \in Operation /\ Tail(queue[q][p]) \in Seq(Operation)
      /\ Len(Tail(queue[q][p])) = Len(queue[q][p]) - 1
  BY <1>1, HeadTailProperties
<1>4. DOMAIN Tail(queue[q][p]) = 1 .. Len(queue[q][p]) - 1
  BY <1>3, LenProperties
<1> QED
  BY <1>1, <1>2, <1>3, <1>4

(* What addVehicle does to the copies of a partition: nothing, or it       *)
(* inserts one, at a place of the route inside the partition.              *)
LEMMA Inserted ==
  ASSUME TypeOK, Standing, NEW p \in Part, NEW op \in Operation, Insert(p, op)
  PROVE  \E i \in {0} \cup Places(op.veh) :
           /\ pos' = [pos EXCEPT ![p] = [@ EXCEPT ![op.veh] = i]]
           /\ i # 0 => Inside(p, op.veh, i)
           /\ i = pos[p][op.veh] \/ pos[p][op.veh] = 0
<1> DEFINE v == op.veh
           piece == IF Multipart(p, v) THEN progress[p][v] + 1 ELSE 0
           spots == {i \in Places(v) : Inside(p, v, i) /\ PieceNo(p, v, i) = piece}
           same  == {i \in spots : Route[v][i] = Route[v][op.at]}
           spot  == IF same # {} THEN Min(same) ELSE Min(spots)
<1>1. v \in Vehicle
  BY DEF Operation
<1>2. spots # {} => spot \in spots
  <2>1. spots \subseteq Nat /\ same \subseteq spots
    BY <1>1, OnRoute
  <2> HIDE DEF spots, same
  <2> QED
    BY <2>1, MinOf
<1>3. CASE spots # {} /\ pos[p][v] = 0
  <2>1. pos' = [pos EXCEPT ![p] = [@ EXCEPT ![v] = spot]]
    BY <1>3 DEF Insert
  <2> QED
    BY <1>2, <1>3, <2>1
<1>4. CASE ~(spots # {} /\ pos[p][v] = 0)
  <2>1. pos' = pos
    BY <1>4 DEF Insert
  <2>2. pos' = [pos EXCEPT ![p] = [@ EXCEPT ![v] = pos[p][v]]]
    BY <2>1 DEF TypeOK
  <2> QED
    BY <1>1, <2>2 DEF TypeOK, Standing
<1> QED
  BY <1>3, <1>4

(* A copy that goes on and is not at the end of its piece comes to a place *)
(* inside.                                                                 *)
LEMMA GoesOn ==
  ASSUME NEW p \in Part, NEW v \in Vehicle, NEW i \in Places(v), Inside(p, v, i),
         i \notin Ends(p, v)
  PROVE  i + 1 \in Places(v) /\ Inside(p, v, i + 1)
BY Pieces, OnRoute

(* Every step keeps the types: a place on a route is followed by a place   *)
(* unless it is the end of the piece, and the neighbour is a partition.    *)
LEMMA TypeStep == TypeOK /\ Standing /\ Handing /\ [Next]_vars => TypeOK'
<1> SUFFICES ASSUME TypeOK, Standing, Handing, [Next]_vars PROVE TypeOK'
  OBVIOUS
<1> USE DEF vars, world, border, apply, TypeOK
<1>1. ASSUME NEW p \in Part, ArriveAtBarrier(p) PROVE TypeOK'
  BY <1>1 DEF ArriveAtBarrier
<1>2. ASSUME NEW p \in Part, CrossBarrier(p) PROVE TypeOK'
  BY <1>2 DEF CrossBarrier
<1>3. ASSUME NEW p \in Part, Step(p) PROVE TypeOK'
  <2>1. PICK moving \in SUBSET Present(p) :
          LET gone == {v \in moving : pos[p][v] \in Ends(p, v)} IN
          /\ pos' = [pos EXCEPT ![p] = [v \in Vehicle |->
               IF v \in gone THEN 0
               ELSE IF v \in moving THEN @[v] + 1
               ELSE IF v \in Own(p) /\ Depart[v] = time[p] THEN 1
               ELSE @[v]]]
          /\ arrived' = arrived \cup {v \in gone : pos[p][v] = Len(Route[v])}
    BY <1>3 DEF Step
  <2>2. moving \subseteq Vehicle /\ \A v \in moving : pos[p][v] \in Places(v)
    BY DEF Present
  <2>3. \A v \in moving : pos[p][v] \notin Ends(p, v) => pos[p][v] + 1 \in Places(v)
    BY <2>2, OnRoute, GoesOn DEF Standing
  <2>4. \A v \in Vehicle : pos'[p][v] \in {0} \cup Places(v) /\ pos'[p][v] \in Nat
    BY <2>1, <2>2, <2>3, OnRoute
  <2>5. \A q \in Part \ {p} : pos'[q] = pos[q]
    BY <2>1
  <2>6. pos' \in [Part -> [Vehicle -> Nat]]
    BY <2>1, <2>4
  <2>7. arrived' \subseteq Vehicle
    BY <2>1, <2>2
  <2>8. \A q \in Part : \A v \in Vehicle : pos'[q][v] \in {0} \cup Places(v)
    BY <2>4, <2>5
  <2>9. /\ time' \in [Part -> Nat]
        /\ phase' \in [Part -> {"start", "started", "loop", "stepped", "handout", "voted",
                                "apply", "ended", "done"}]
        /\ UNCHANGED <<border, sent, progress, ids, idsUpdated, queue, apply, misplaced>>
    BY <1>3 DEF Step
  <2> QED
    BY <2>6, <2>7, <2>8, <2>9
<1>4. ASSUME NEW p \in Part, StartHandout(p) PROVE TypeOK'
  <2> DEFINE edges     == {e \in Border : p \in EdgeParts[e]}
             unsent(e) == IF EndsIn(p, e) = {} THEN {} ELSE On(p, e) \ sent[p]
  <2>1. progress' = [progress EXCEPT ![p] = [v \in Vehicle |->
          IF Multipart(p, v) /\ \E e \in edges : v \in unsent(e)
          THEN PieceNo(p, v, pos[p][v]) ELSE @[v]]]
    BY <1>4 DEF StartHandout
  <2>2. \A v \in Vehicle, e \in edges : v \in unsent(e) => PieceNo(p, v, pos[p][v]) \in Nat
    BY Numbered DEF On, Present, Standing
  <2>3. progress' \in [Part -> [Vehicle -> {-1} \cup Nat]]
    <3> HIDE DEF edges, unsent
    <3> QED BY <2>1, <2>2
  <2>4. leaving' \in [Part -> SUBSET Vehicle]
    BY <1>4 DEF StartHandout, On, Present
  <2>5. prev' \in [Part -> [Border -> SUBSET Vehicle]]
    BY <1>4 DEF StartHandout, On, Present
  <2>6. /\ idsUpdated' \in [Part -> BOOLEAN]
        /\ phase' \in [Part -> {"start", "started", "loop", "stepped", "handout", "voted",
                                "apply", "ended", "done"}]
    BY <1>4 DEF StartHandout
  <2> QED
    BY <1>4, <2>3, <2>4, <2>5, <2>6 DEF StartHandout
<1>5. ASSUME NEW p \in Part, NEW v \in Vehicle, Ask(p, v) PROVE TypeOK'
  <2> DEFINE q == Other(p, Route[v][pos[p][v]])
             known == IF idsUpdated[q] THEN ids[q] ELSE Present(q)
  <2>1. /\ Route[v][pos[p][v]] \in Border /\ pos[p][v] \in Places(v)
        /\ p \in EdgeParts[Route[v][pos[p][v]]]
    BY <1>5 DEF Ask, Handing, Standing, Inside
  <2>2. q \in Part
    BY <2>1, Across
  <2>3. known \in SUBSET Vehicle
    BY <2>2 DEF Present
  <2>4. ids' = [ids EXCEPT ![q] = known] /\ idsUpdated' = [idsUpdated EXCEPT ![q] = TRUE]
    BY <1>5 DEF Ask
  <2>5. /\ leaving' \in [Part -> SUBSET Vehicle]
        /\ asked' \in [Part -> {None} \cup [veh : Vehicle, at : Place]]
    BY <1>5, <2>1 DEF Ask, Place
  <2> HIDE DEF q, known
  <2> QED
    BY ZenonT(40), <1>5, <2>2, <2>3, <2>4, <2>5 DEF Ask
<1>6. ASSUME NEW p \in Part, Send(p) PROVE TypeOK'
  <2> DEFINE q == Other(p, Route[asked[p].veh][asked[p].at])
  <2>1. asked[p] \in Operation
    BY <1>6 DEF Send, Operation
  <2>a. q \in Part
    <3>1. /\ asked[p] # None /\ asked[p].at = pos[p][asked[p].veh] /\ asked[p].at # 0
          /\ Route[asked[p].veh][asked[p].at] \in Border
      BY <1>6, <2>1, IsOperation DEF Send, Handing
    <3>2. p \in EdgeParts[Route[asked[p].veh][asked[p].at]]
      BY <2>1, <3>1 DEF Operation, Standing, Inside
    <3> QED
      BY <3>1, <3>2, Across
  <2>2. queue' = [queue EXCEPT ![p] = [@ EXCEPT ![q] = Append(queue[p][q], asked[p])]]
    BY <1>6 DEF Send
  <2>3. queue' \in [Part -> [Part -> Seq([veh : Vehicle, at : Place])]]
    <3> HIDE DEF q
    <3>1. queue[p][q] \in Seq(Operation)
      BY <2>a, QueueOf
    <3>2. Append(queue[p][q], asked[p]) \in Seq(Operation)
      BY <2>1, <3>1
    <3> QED BY <3>2, <2>2, <2>a DEF Operation
  <2>4. asked' \in [Part -> {None} \cup [veh : Vehicle, at : Place]]
    BY ZenonT(40), <1>6 DEF Send
  <2>5. sent' \in [Part -> SUBSET Vehicle]
    BY ZenonT(40), <1>6, <2>1, IsOperation DEF Send
  <2> QED
    BY ZenonT(40), <1>6, <2>3, <2>4, <2>5 DEF Send
<1>7. ASSUME NEW p \in Part, ArriveAtStep(p) PROVE TypeOK'
  BY <1>7 DEF ArriveAtStep
<1>8. ASSUME NEW p \in Part, CrossStep(p) PROVE TypeOK'
  <2>1. Neighbors(p) \subseteq Part
    BY Across DEF Neighbors
  <2> QED
    BY <1>8, <2>1 DEF CrossStep
<1>9. ASSUME NEW p \in Part, NEW q \in Part, LockQueue(p, q) PROVE TypeOK'
  BY <1>9 DEF LockQueue
<1>10. ASSUME NEW p \in Part, NEW q \in Part, AddVehicle(p, q) PROVE TypeOK'
  <2> DEFINE op == Head(queue[q][p])
             v == op.veh
  <2>1. queue[q][p] # <<>> /\ Insert(p, op) /\ queue' = [queue EXCEPT ![q][p] = Tail(@)]
    BY <1>10 DEF AddVehicle
  <2>2. op \in Operation /\ v \in Vehicle /\ Tail(queue[q][p]) \in Seq(Operation)
    BY <2>1, HeadOf DEF Operation
  <2> HIDE DEF op
  <2>3. PICK i \in {0} \cup Places(v) : pos' = [pos EXCEPT ![p] = [@ EXCEPT ![v] = i]]
    BY <2>1, <2>2, Inserted
  <2>4. i \in Nat
    BY <2>2, OnRoute
  <2>5. /\ pos' \in [Part -> [Vehicle -> Nat]]
        /\ \A r \in Part : \A w \in Vehicle : pos'[r][w] \in {0} \cup Places(w)
    BY <2>2, <2>3, <2>4
  <2>6. queue' \in [Part -> [Part -> Seq([veh : Vehicle, at : Place])]]
    BY <2>1, <2>2 DEF Operation
  <2>7. sent' \in [Part -> SUBSET Vehicle] /\ ids' \in [Part -> SUBSET Vehicle]
    BY ZenonT(40), <2>1, <2>2 DEF Insert
  <2>8. progress' \in [Part -> [Vehicle -> {-1} \cup Nat]]
    <3> DEFINE n == IF Multipart(p, v) /\ progress[p][v] = -1 THEN 0 ELSE progress[p][v]
    <3>1. progress' = [progress EXCEPT ![p][v] = n]
      BY <2>1 DEF Insert
    <3>2. n \in {-1} \cup Nat
      BY <2>2
    <3> HIDE DEF n
    <3> QED BY <2>2, <3>1, <3>2
  <2>9. misplaced' \subseteq Vehicle /\ UNCHANGED <<time, arrived>>
    BY <2>1, <2>2 DEF Insert
  <2> QED
    BY <1>10, <2>5, <2>6, <2>7, <2>8, <2>9 DEF AddVehicle
<1>11. ASSUME NEW p \in Part, NEW q \in Part, UnlockQueue(p, q) PROVE TypeOK'
  BY <1>11 DEF UnlockQueue
<1>12. ASSUME NEW p \in Part, Applied(p) PROVE TypeOK'
  BY <1>12 DEF Applied
<1>13. CASE Open
  BY <1>13 DEF Open
<1>14. CASE UNCHANGED vars
  BY <1>14
<1> QED
  BY <1>1, <1>2, <1>3, <1>4, <1>5, <1>6, <1>7, <1>8, <1>9, <1>10, <1>11, <1>12, <1>13,
     <1>14 DEF Next, PartitionNext, Over

-----------------------------------------------------------------------------
(* The data of the partitions.                                             *)

(* The border edge over which p hands v out, and the partition behind it.  *)
LEMMA OverBorder ==
  ASSUME Sound, NEW p \in Part, NEW op \in Operation,
         asked[p] = op \/ (op.veh \in leaving[p] /\ op.at = pos[p][op.veh])
  PROVE  LET q == Other(p, Route[op.veh][op.at]) IN
         /\ op.veh \in Vehicle /\ op.at \in Places(op.veh) /\ op.at = pos[p][op.veh]
         /\ Route[op.veh][op.at] \in Border /\ q \in Part /\ q # p
         /\ Inside(p, op.veh, op.at) /\ Inside(q, op.veh, op.at)
<1>1. op.veh \in Vehicle /\ op.at # 0 /\ op # None
  BY IsOperation
<1>2. op.at = pos[p][op.veh] /\ Route[op.veh][op.at] \in Border
  BY <1>1 DEF Sound, Handing
<1>3. op.at \in Places(op.veh)
  BY <1>1, <1>2 DEF Sound, TypeOK
<1>4. Inside(p, op.veh, op.at)
  BY <1>1, <1>2 DEF Sound, Standing
<1> QED
  BY <1>1, <1>2, <1>3, <1>4, Across DEF Inside

(* Copies stay inside their partitions.                                    *)
LEMMA StandingStep == Sound /\ [Next]_vars => Standing'
<1> SUFFICES ASSUME Sound, [Next]_vars PROVE Standing'
  OBVIOUS
<1> USE DEF Standing
<1>0. TypeOK /\ Standing
  BY DEF Sound
<1>1. CASE UNCHANGED pos
  BY <1>0, <1>1 DEF Inside
<1>2. ASSUME NEW p \in Part, Step(p) PROVE Standing'
  <2>1. PICK moving \in SUBSET Present(p) :
          pos' = [pos EXCEPT ![p] = [v \in Vehicle |->
               IF v \in moving /\ pos[p][v] \in Ends(p, v) THEN 0
               ELSE IF v \in moving THEN pos[p][v] + 1
               ELSE IF v \in Own(p) /\ Depart[v] = time[p] THEN 1
               ELSE pos[p][v]]]
    BY <1>2 DEF Step
  <2>2. ASSUME NEW v \in Vehicle, pos'[p][v] # 0 PROVE Inside(p, v, pos'[p][v])
    <3>1. pos'[p][v] = IF v \in moving /\ pos[p][v] \in Ends(p, v) THEN 0
               ELSE IF v \in moving THEN pos[p][v] + 1
               ELSE IF v \in Own(p) /\ Depart[v] = time[p] THEN 1
               ELSE pos[p][v]
      BY <1>0, <2>1 DEF TypeOK
    <3>2. CASE v \in moving
      BY <1>0, <2>1, <2>2, <3>1, <3>2, GoesOn DEF TypeOK, Present
    <3>3. CASE v \notin moving
      BY <1>0, <2>2, <3>1, <3>3 DEF Own
    <3> QED
      BY <3>2, <3>3
  <2>3. \A q \in Part : q # p => pos'[q] = pos[q]
    BY <1>0, <2>1 DEF TypeOK
  <2> QED
    BY <1>0, <2>2, <2>3 DEF Inside
<1>3. ASSUME NEW p \in Part, NEW q \in Part, AddVehicle(p, q) PROVE Standing'
  <2> DEFINE op == Head(queue[q][p])
  <2>1. op \in Operation /\ Insert(p, op)
    BY <1>0, <1>3, HeadOf DEF AddVehicle
  <2> HIDE DEF op
  <2>2. PICK i \in {0} \cup Places(op.veh) :
          /\ pos' = [pos EXCEPT ![p] = [@ EXCEPT ![op.veh] = i]]
          /\ i # 0 => Inside(p, op.veh, i)
    BY <1>0, <2>1, Inserted
  <2>3. op.veh \in Vehicle
    BY <2>1, IsOperation
  <2> QED
    BY <1>0, <2>2, <2>3 DEF Inside, TypeOK
<1> QED
  BY ZenonT(40), <1>1, <1>2, <1>3 DEF Next, PartitionNext, Over, Open, vars, world, ArriveAtBarrier,
     CrossBarrier, StartHandout, Ask, Send, ArriveAtStep, CrossStep, LockQueue, UnlockQueue,
     Applied

(* Vehicles are handed out over border edges, in the phase for it.         *)
LEMMA HandingStep == Sound /\ [Next]_vars => Handing'
<1> SUFFICES ASSUME Sound, [Next]_vars PROVE Handing'
  OBVIOUS
<1>0. TypeOK /\ Standing /\ Handing
  BY DEF Sound
<1> USE DEF Handing
<1>1. CASE UNCHANGED <<phase, pos, leaving, asked>>
  BY <1>0, <1>1
<1>2. ASSUME NEW p \in Part, phase[p] # "handout", phase'[p] # "handout",
             \A q \in Part \ {p} : phase'[q] = phase[q] /\ pos'[q] = pos[q],
             UNCHANGED <<leaving, asked>>
      PROVE  Handing'
  BY <1>0, <1>2
<1>3. ASSUME NEW p \in Part, StartHandout(p) PROVE Handing'
  <2>1. /\ leaving' = [leaving EXCEPT ![p] = leaving'[p]] /\ UNCHANGED <<pos, asked>>
        /\ phase' = [phase EXCEPT ![p] = "handout"] /\ asked[p] = None
    BY <1>0, <1>3 DEF StartHandout, world, TypeOK
  <2>2. \A v \in leaving'[p] : \E e \in Border : v \in On(p, e)
    BY <1>0, <1>3 DEF StartHandout, TypeOK
  <2>3. \A v \in leaving'[p] : pos[p][v] # 0 /\ Route[v][pos[p][v]] \in Border
    BY <2>2 DEF On, Present
  <2> QED
    BY <1>0, <2>1, <2>3 DEF TypeOK
<1>4. ASSUME NEW p \in Part, NEW v \in Vehicle, Ask(p, v) PROVE Handing'
  <2>1. /\ phase[p] = "handout" /\ v \in leaving[p] /\ UNCHANGED <<phase, pos>>
        /\ leaving' = [leaving EXCEPT ![p] = @ \ {v}]
        /\ asked' = asked \/ asked' = [asked EXCEPT ![p] = [veh |-> v, at |-> pos[p][v]]]
    BY <1>4 DEF Ask, world
  <2> QED
    BY <1>0, <2>1 DEF TypeOK
<1>5. ASSUME NEW p \in Part, Send(p) PROVE Handing'
  <2>1. phase[p] = "handout" /\ asked' = [asked EXCEPT ![p] = None]
        /\ UNCHANGED <<phase, pos, leaving>>
    BY <1>5 DEF Send, world
  <2> QED
    BY <1>0, <2>1 DEF TypeOK
<1>6. ASSUME NEW p \in Part, ArriveAtStep(p) PROVE Handing'
  <2>1. leaving[p] = {} /\ asked[p] = None /\ phase' = [phase EXCEPT ![p] = "voted"]
        /\ UNCHANGED <<pos, leaving, asked>>
    BY <1>6 DEF ArriveAtStep, world, border
  <2> QED
    BY <1>0, <2>1 DEF TypeOK
<1>7. ASSUME NEW p \in Part,
             ArriveAtBarrier(p) \/ CrossBarrier(p) \/ Step(p) \/ CrossStep(p) \/ Applied(p)
      PROVE  Handing'
  <2>1. phase[p] # "handout" /\ phase'[p] # "handout" /\ UNCHANGED <<leaving, asked>>
    BY <1>0, <1>7 DEF ArriveAtBarrier, CrossBarrier, Step, CrossStep, Applied, TypeOK, border
  <2>2. \A q \in Part \ {p} : phase'[q] = phase[q] /\ pos'[q] = pos[q]
    BY <1>0, <1>7 DEF ArriveAtBarrier, CrossBarrier, Step, CrossStep, Applied, TypeOK, world
  <2> QED
    BY <1>2, <2>1, <2>2
<1>8. ASSUME NEW p \in Part, NEW q \in Part, AddVehicle(p, q) PROVE Handing'
  <2> DEFINE op == Head(queue[q][p])
  <2>1. /\ op \in Operation /\ Insert(p, op)
        /\ phase[p] = "apply" /\ UNCHANGED <<phase, leaving, asked>>
    BY <1>0, <1>8, HeadOf DEF AddVehicle, border
  <2> HIDE DEF op
  <2>2. PICK i \in {0} \cup Places(op.veh) : pos' = [pos EXCEPT ![p] = [@ EXCEPT ![op.veh] = i]]
    BY <1>0, <2>1, Inserted
  <2> QED
    BY <1>0, <1>2, <2>1, <2>2 DEF TypeOK
<1> QED
  BY <1>1, <1>3, <1>4, <1>5, <1>6, <1>7, <1>8 DEF Next, PartitionNext, Over, Open, vars, world,
     border, LockQueue, UnlockQueue

(* Operations wait only between partitions that share the border edge.     *)
LEMMA WaitingStep == Sound /\ [Next]_vars => Waiting'
<1> SUFFICES ASSUME Sound, [Next]_vars PROVE Waiting'
  OBVIOUS
<1>0. TypeOK /\ Waiting
  BY DEF Sound
<1> USE DEF Waiting
<1>1. CASE UNCHANGED queue
  BY <1>0, <1>1 DEF Inside, Places
<1>2. ASSUME NEW p \in Part, Send(p) PROVE Waiting'
  <2> DEFINE q == Other(p, Route[asked[p].veh][asked[p].at])
  <2>1. asked[p] \in Operation /\ queue' = [queue EXCEPT ![p][q] = Append(@, asked[p])]
    BY <1>0, <1>2 DEF Send, TypeOK, Operation
  <2>2. /\ q \in Part /\ q # p /\ asked[p].at \in Places(asked[p].veh)
        /\ Inside(p, asked[p].veh, asked[p].at) /\ Inside(q, asked[p].veh, asked[p].at)
    BY <2>1, OverBorder
  <2> HIDE DEF q
  <2>3. ASSUME NEW r \in Part, NEW s \in Part, NEW i \in DOMAIN queue'[r][s]
        PROVE  LET op == queue'[r][s][i] IN
               /\ op.at \in Places(op.veh) /\ s # r
               /\ Inside(r, op.veh, op.at) /\ Inside(s, op.veh, op.at)
    <3>1. CASE r = p /\ s = q
      <4>1. queue'[r][s] = Append(queue[p][q], asked[p])
        BY <1>0, <2>1, <2>2, <3>1 DEF TypeOK
      <4>2. /\ queue[p][q] \in Seq(Operation) /\ Len(queue[p][q]) \in Nat
            /\ DOMAIN queue[p][q] = 1 .. Len(queue[p][q])
        BY <1>0, <2>2, QueueOf
      <4>3. i \in 1 .. Len(queue[p][q]) + 1
        BY <2>1, <2>3, <4>1, <4>2
      <4>4. CASE i \in 1 .. Len(queue[p][q])
        BY <1>0, <2>2, <3>1, <4>1, <4>2, <4>4
      <4>5. CASE i = Len(queue[p][q]) + 1
        BY <2>2, <3>1, <4>1, <4>2, <4>5
      <4> QED
        BY <4>2, <4>3, <4>4, <4>5
    <3>2. CASE ~(r = p /\ s = q)
      <4>1. queue'[r][s] = queue[r][s]
        BY <1>0, <2>1, <2>2, <3>2 DEF TypeOK
      <4> QED
        BY <1>0, <2>3, <4>1
    <3> QED
      BY <3>1, <3>2
  <2> QED
    BY <2>3 DEF Inside, Places
<1>3. ASSUME NEW p \in Part, NEW q \in Part, AddVehicle(p, q) PROVE Waiting'
  <2>1. queue[q][p] # <<>> /\ queue' = [queue EXCEPT ![q][p] = Tail(@)]
    BY <1>3 DEF AddVehicle
  <2>2. \A i \in DOMAIN Tail(queue[q][p]) :
          i + 1 \in DOMAIN queue[q][p] /\ Tail(queue[q][p])[i] = queue[q][p][i + 1]
    BY <1>0, <2>1, HeadOf
  <2>3. ASSUME NEW r \in Part, NEW s \in Part, NEW i \in DOMAIN queue'[r][s]
        PROVE  LET op == queue'[r][s][i] IN
               /\ op.at \in Places(op.veh) /\ s # r
               /\ Inside(r, op.veh, op.at) /\ Inside(s, op.veh, op.at)
    <3>1. CASE r = q /\ s = p
      <4>1. queue'[r][s] = Tail(queue[q][p])
        BY <1>0, <2>1, <3>1 DEF TypeOK
      <4> QED
        BY <1>0, <2>2, <2>3, <3>1, <4>1
    <3>2. CASE ~(r = q /\ s = p)
      <4>1. queue'[r][s] = queue[r][s]
        BY <1>0, <2>1, <3>2 DEF TypeOK
      <4> QED
        BY <1>0, <2>3, <4>1
    <3> QED
      BY <3>1, <3>2
  <2> QED
    BY <2>3 DEF Inside, Places
<1>4. ASSUME NEW p \in Part,
             \/ ArriveAtBarrier(p) \/ CrossBarrier(p) \/ Step(p) \/ StartHandout(p)
             \/ \E v \in Vehicle : Ask(p, v)
             \/ ArriveAtStep(p) \/ CrossStep(p)
             \/ \E q \in Part : LockQueue(p, q) \/ UnlockQueue(p, q)
             \/ Applied(p)
      PROVE  UNCHANGED queue
  BY <1>4 DEF ArriveAtBarrier, CrossBarrier, Step, StartHandout, Ask, ArriveAtStep, CrossStep,
     LockQueue, UnlockQueue, Applied
<1> QED
  BY <1>1, <1>2, <1>3, <1>4 DEF Next, PartitionNext, Over, Open, vars

(* Sound is an invariant by itself.                                        *)
LEMMA SoundInit == Init => Sound
<1> SUFFICES ASSUME Init PROVE Sound
  OBVIOUS
<1>1. TypeOK
  BY DEF Init, TypeOK
<1> QED
  BY <1>1 DEF Init, Sound, Standing, Handing, Waiting

(* Every step keeps it.                                                    *)
LEMMA SoundStep == Sound /\ [Next]_vars => Sound'
BY TypeStep, StandingStep, HandingStep, WaitingStep DEF Sound

(* Every variable keeps its type: a copy is at a place of its route, and   *)
(* what is handed over is a vehicle and a place.                           *)
THEOREM Typing == Spec => []TypeOK
<1>1. Spec => []Sound
  BY SoundInit, SoundStep, PTL DEF Spec
<1> QED
  BY <1>1, PTL DEF Sound

-----------------------------------------------------------------------------
(* The barriers.                                                           *)

(* A partition that waits is at a barrier of the kind its phase says, and  *)
(* at most that barrier behind.                                            *)
LEMMA BarriersStep == TypeOK /\ Barriers /\ [Next]_vars => Barriers'
<1> SUFFICES ASSUME TypeOK, Barriers, [Next]_vars PROVE Barriers'
  OBVIOUS
<1> USE DEF Barriers
<1>1. ASSUME NEW p \in Part, ArriveAtBarrier(p) PROVE Barriers'
  <2>1. /\ phase[p] \in {"start", "loop"} /\ waits[p] = "none"
        /\ phase' = [phase EXCEPT ![p] = IF @ = "start" THEN "started" ELSE "ended"]
        /\ waits' = [waits EXCEPT ![p] = "barrier"]
        /\ UNCHANGED <<crossed, vote, heard, opened, verdict>>
    BY <1>1 DEF ArriveAtBarrier, Sync!ArriveAtBarrier
  <2> QED
    BY <2>1 DEF TypeOK
<1>2. ASSUME NEW p \in Part, CrossBarrier(p) \/ CrossStep(p) PROVE Barriers'
  <2>1. /\ phase[p] \in {"started", "ended", "voted"}
        /\ waits[p] # "none" /\ crossed[p] < opened
        /\ waits' = [waits EXCEPT ![p] = "none"]
        /\ crossed' = [crossed EXCEPT ![p] = @ + 1]
        /\ heard' = IF waits[p] = "step" THEN [heard EXCEPT ![p] = verdict] ELSE heard
        /\ UNCHANGED <<vote, opened, verdict>>
    BY <1>2 DEF CrossBarrier, CrossStep, Sync!Cross
  <2>2. /\ phase' = [phase EXCEPT ![p] = phase'[p]]
        /\ phase'[p] \in {"loop", "done", "apply"}
    BY <1>2 DEF CrossBarrier, CrossStep, TypeOK
  <2> QED
    BY <2>1, <2>2 DEF TypeOK
<1>3. ASSUME NEW p \in Part, ArriveAtStep(p) PROVE Barriers'
  <2>1. /\ waits[p] = "none" /\ waits' = [waits EXCEPT ![p] = "step"]
        /\ vote' = [vote EXCEPT ![p] = time[p] > LastDepart(p) + 1 /\ Present(p) = {}]
        /\ phase' = [phase EXCEPT ![p] = "voted"]
        /\ UNCHANGED <<crossed, heard, opened, verdict>>
    BY <1>3 DEF ArriveAtStep, Sync!ArriveAtStep
  <2>2. vote' \in [Part -> BOOLEAN]
    BY <2>1
  <2> QED
    BY <2>1, <2>2 DEF TypeOK
<1>4. ASSUME NEW p \in Part, UNCHANGED syncVars,
             phase' = [phase EXCEPT ![p] = phase'[p]],
             phase[p] \notin {"started", "ended", "voted"},
             phase'[p] \notin {"started", "ended", "voted"}
      PROVE  Barriers'
  BY <1>4 DEF syncVars, TypeOK
<1>5. CASE Open
  <2>1. /\ \A p \in Part : waits[p] # "none" /\ crossed[p] = opened
        /\ opened' = opened + 1 /\ verdict' \in BOOLEAN
        /\ UNCHANGED <<phase, waits, crossed, vote, heard>>
    BY <1>5 DEF Open, Sync!OpenBarrier, Sync!OpenStep, Sync!AllWaitAt
  <2> QED
    BY <2>1
<1>6. CASE UNCHANGED <<syncVars, phase>>
  BY <1>6 DEF syncVars
<1>7. ASSUME NEW p \in Part, Step(p) \/ StartHandout(p) \/ Applied(p) PROVE Barriers'
  <2>1. /\ UNCHANGED syncVars /\ phase' = [phase EXCEPT ![p] = phase'[p]]
        /\ phase[p] \in {"loop", "stepped", "apply"}
        /\ phase'[p] \in {"loop", "stepped", "handout"}
    BY <1>7 DEF Step, StartHandout, Applied, TypeOK
  <2> QED
    BY <1>4, <2>1
<1>8. ASSUME NEW p \in Part,
             \/ \E v \in Vehicle : Ask(p, v)
             \/ Send(p)
             \/ \E q \in Part : LockQueue(p, q) \/ AddVehicle(p, q) \/ UnlockQueue(p, q)
      PROVE  Barriers'
  BY <1>6, <1>8 DEF Ask, Send, LockQueue, AddVehicle, UnlockQueue
<1> QED
  BY <1>1, <1>2, <1>3, <1>5, <1>6, <1>7, <1>8 DEF Next, PartitionNext, Over, vars

(* A partition that has voted to end the run has no vehicle and all its    *)
(* departures behind it until it crosses the barrier.                      *)
LEMMA VotesStep == Sound /\ Barriers /\ Votes /\ [Next]_vars => Votes'
<1> SUFFICES ASSUME Sound, Barriers, Votes, [Next]_vars PROVE Votes'
  OBVIOUS
<1>0. TypeOK /\ Standing
  BY DEF Sound
<1> USE DEF Votes, MaybeFinished, Present
<1>1. ASSUME NEW p \in Part, phase'[p] # "voted",
             \A q \in Part \ {p} :
               phase'[q] = phase[q] /\ vote'[q] = vote[q] /\ time'[q] = time[q] /\ pos'[q] = pos[q]
      PROVE  Votes'
  BY <1>1
<1>2. CASE UNCHANGED <<phase, vote, time, pos>>
  BY <1>2
<1>3. ASSUME NEW p \in Part, ArriveAtStep(p) PROVE Votes'
  <2>1. /\ vote' = [vote EXCEPT ![p] = time[p] > LastDepart(p) + 1 /\ Present(p) = {}]
        /\ phase' = [phase EXCEPT ![p] = "voted"] /\ UNCHANGED <<time, pos>>
    BY <1>3 DEF ArriveAtStep, Sync!ArriveAtStep, world
  <2>2. vote'[p] <=> time[p] > LastDepart(p) + 1 /\ Present(p) = {}
    BY <2>1 DEF Barriers
  <2>3. \A q \in Part \ {p} : phase'[q] = phase[q] /\ vote'[q] = vote[q]
    BY <1>0, <2>1 DEF Barriers, TypeOK
  <2> QED
    BY <2>1, <2>2, <2>3
<1>4. ASSUME NEW p \in Part,
             \/ ArriveAtBarrier(p) \/ CrossBarrier(p) \/ Step(p) \/ StartHandout(p)
             \/ CrossStep(p) \/ Applied(p)
      PROVE  Votes'
  <2>1. phase'[p] # "voted" /\ vote' = vote
    BY <1>0, <1>4 DEF ArriveAtBarrier, CrossBarrier, Step, StartHandout, CrossStep, Applied,
       Sync!ArriveAtBarrier, Sync!Cross, syncVars, TypeOK
  <2>2. \A q \in Part \ {p} : phase'[q] = phase[q] /\ time'[q] = time[q] /\ pos'[q] = pos[q]
    BY <1>0, <1>4 DEF ArriveAtBarrier, CrossBarrier, Step, StartHandout, CrossStep, Applied,
       world, TypeOK
  <2> QED
    BY <1>1, <2>1, <2>2
<1>5. ASSUME NEW p \in Part, NEW q \in Part, AddVehicle(p, q) PROVE Votes'
  <2> DEFINE op == Head(queue[q][p])
  <2>1. /\ op \in Operation /\ Insert(p, op)
        /\ phase[p] = "apply" /\ UNCHANGED <<phase, vote>>
    BY <1>0, <1>5, HeadOf DEF AddVehicle, syncVars
  <2> HIDE DEF op
  <2>2. PICK i \in {0} \cup Places(op.veh) : pos' = [pos EXCEPT ![p] = [@ EXCEPT ![op.veh] = i]]
    BY <1>0, <2>1, Inserted
  <2>3. time' = time
    BY <2>1 DEF Insert
  <2> QED
    BY <1>0, <1>1, <2>1, <2>2, <2>3 DEF TypeOK
<1>6. ASSUME NEW p \in Part,
             \/ \E v \in Vehicle : Ask(p, v)
             \/ Send(p)
             \/ \E q \in Part : LockQueue(p, q) \/ UnlockQueue(p, q)
      PROVE  Votes'
  BY <1>2, <1>6 DEF Ask, Send, LockQueue, UnlockQueue, world, syncVars
<1>7. CASE Open
  BY <1>2, <1>7 DEF Open, Sync!OpenBarrier, Sync!OpenStep, world
<1> QED
  BY <1>2, <1>3, <1>4, <1>5, <1>6, <1>7 DEF Next, PartitionNext, Over, vars, world, syncVars

(* Operations wait only at neighbours.                                     *)
LEMMA WaitAtNeighbors ==
  ASSUME Sound, NEW p \in Part, NEW q \in Part, queue[q][p] # <<>>
  PROVE  q \in Neighbors(p)
<1> DEFINE op == queue[q][p][1]
           e  == Route[op.veh][op.at]
<1>1. 1 \in DOMAIN queue[q][p] /\ op \in Operation
  BY HeadOf DEF Sound
<1>2. /\ Inside(q, op.veh, op.at) /\ Inside(p, op.veh, op.at) /\ p # q
      /\ op.at \in Places(op.veh)
  BY <1>1 DEF Sound, Waiting
<1>3. op.veh \in Vehicle
  BY <1>1, IsOperation
<1>4. e \in Edge
  BY <1>2, <1>3, OnRoute
<1>5. e \in Border /\ Other(p, e) = q
  BY <1>2, <1>4, TwoParts DEF Inside
<1> QED
  BY <1>2, <1>5 DEF Neighbors, Inside

(* Every operation in a queue has still to be applied, before its sender   *)
(* can be found empty: what is sent in a step is applied after it.         *)
LEMMA DeliveriesStep == Sound /\ Barriers /\ Deliveries /\ [Next]_vars => Deliveries'
<1> SUFFICES ASSUME Sound, Barriers, Deliveries, [Next]_vars PROVE Deliveries'
  OBVIOUS
<1>0. TypeOK
  BY DEF Sound
<1> USE DEF Deliveries, Undelivered, Behind, Present
<1>1. ASSUME NEW r \in Part, phase[r] \notin {"handout", "voted", "apply"},
             \A q \in Part \ {r} :
               phase'[q] = phase[q] /\ crossed'[q] = crossed[q] /\ pos'[q] = pos[q],
             UNCHANGED <<opened, queue, todo>>
      PROVE  Deliveries'
  BY <1>1
<1>2. CASE UNCHANGED <<phase, crossed, opened, pos, queue, todo>>
  BY <1>2
<1>3. ASSUME NEW r \in Part,
             ArriveAtBarrier(r) \/ CrossBarrier(r) \/ Step(r) \/ StartHandout(r)
      PROVE  Deliveries'
  <2>1. phase[r] \notin {"handout", "voted", "apply"} /\ UNCHANGED <<opened, queue, todo>>
    BY <1>0, <1>3 DEF ArriveAtBarrier, CrossBarrier, Step, StartHandout,
       Sync!ArriveAtBarrier, Sync!Cross, syncVars, apply, TypeOK
  <2>2. \A q \in Part \ {r} : phase'[q] = phase[q] /\ crossed'[q] = crossed[q]
    BY <1>0, <1>3 DEF ArriveAtBarrier, CrossBarrier, Step, StartHandout,
       Sync!ArriveAtBarrier, Sync!Cross, syncVars, Barriers, TypeOK
  <2>3. \A q \in Part \ {r} : pos'[q] = pos[q]
    BY <1>0, <1>3 DEF ArriveAtBarrier, CrossBarrier, Step, StartHandout, world, TypeOK
  <2> QED
    BY <1>1, <2>1, <2>2, <2>3
<1>4. ASSUME NEW r \in Part, ArriveAtStep(r) PROVE Deliveries'
  <2>1. /\ phase[r] = "handout" /\ phase' = [phase EXCEPT ![r] = "voted"]
        /\ UNCHANGED <<crossed, opened, pos, queue, todo>>
    BY <1>4 DEF ArriveAtStep, Sync!ArriveAtStep, world, apply
  <2>2. phase'[r] = "voted" /\ \A q \in Part \ {r} : phase'[q] = phase[q]
    BY <1>0, <2>1 DEF TypeOK
  <2> QED
    BY <2>1, <2>2
<1>5. ASSUME NEW r \in Part, CrossStep(r) PROVE Deliveries'
  <2>1. /\ phase[r] = "voted" /\ phase' = [phase EXCEPT ![r] = "apply"]
        /\ crossed[r] < opened /\ crossed' = [crossed EXCEPT ![r] = @ + 1]
        /\ todo' = [todo EXCEPT ![r] = Neighbors(r)]
        /\ UNCHANGED <<opened, pos, queue>>
    BY <1>5 DEF CrossStep, Sync!Cross, world
  <2>a. \A q \in Part \ {r} :
          phase'[q] = phase[q] /\ crossed'[q] = crossed[q] /\ todo'[q] = todo[q]
    BY <1>0, <2>1 DEF TypeOK, Barriers
  <2>2. Behind(r)
    BY <2>1 DEF Barriers
  <2>3. ASSUME NEW p \in Part, NEW q \in Part, queue[q][p] # <<>> PROVE Undelivered(q, p)'
    <3>1. CASE p = r
      BY <1>0, <2>1, <2>3, <3>1, WaitAtNeighbors DEF TypeOK
    <3>2. CASE p # r
      <4>1. Undelivered(q, p) /\ phase'[p] = phase[p] /\ crossed'[p] = crossed[p]
            /\ todo'[p] = todo[p]
        BY <2>a, <2>3, <3>2
      <4>2. CASE q = r
        BY <2>1, <2>2, <4>1, <4>2
      <4>3. CASE q # r
        <5>1. phase'[q] = phase[q] /\ crossed'[q] = crossed[q]
          BY <2>a, <4>3
        <5> QED
          BY <2>1, <4>1, <5>1
      <4> QED
        BY <4>2, <4>3
    <3> QED
      BY <3>1, <3>2
  <2> QED
    BY <2>1, <2>3
<1>6. ASSUME NEW r \in Part, NEW s \in Part, UnlockQueue(r, s) PROVE Deliveries'
  <2>1. /\ queue[s][r] = <<>> /\ todo' = [todo EXCEPT ![r] = @ \ {s}]
        /\ UNCHANGED <<phase, crossed, opened, pos, queue>>
    BY <1>6 DEF UnlockQueue, syncVars, world
  <2>2. todo'[r] = todo[r] \ {s} /\ \A p \in Part \ {r} : todo'[p] = todo[p]
    BY <1>0, <2>1 DEF TypeOK
  <2> QED
    BY <2>1, <2>2
<1>7. ASSUME NEW r \in Part, Applied(r) PROVE Deliveries'
  <2>1. /\ phase[r] = "apply" /\ todo[r] = {} /\ phase' = [phase EXCEPT ![r] = "loop"]
        /\ UNCHANGED <<crossed, opened, pos, queue, todo>>
    BY <1>7 DEF Applied, syncVars, world, apply
  <2>2. \A q \in Part \ {r} : phase'[q] = phase[q]
    BY <1>0, <2>1 DEF TypeOK
  <2> QED
    BY <2>1, <2>2
<1>8. ASSUME NEW r \in Part, Send(r) PROVE Deliveries'
  <2> DEFINE t == Other(r, Route[asked[r].veh][asked[r].at])
  <2>1. /\ phase[r] = "handout" /\ asked[r] # None
        /\ queue' = [queue EXCEPT ![r][t] = Append(@, asked[r])]
        /\ UNCHANGED <<phase, crossed, opened, pos, todo>>
    BY <1>8 DEF Send, syncVars, world, apply
  <2>2. asked[r].veh \in Vehicle /\ pos[r][asked[r].veh] # 0
    <3>1. asked[r] \in Operation
      BY <1>0, <2>1 DEF TypeOK, Operation
    <3>2. asked[r].veh \in Vehicle /\ asked[r].at # 0
      BY <3>1, IsOperation
    <3> QED
      BY <2>1, <3>2 DEF Sound, Handing
  <2>3. ~Behind(r)
    BY <2>1 DEF Barriers
  <2> HIDE DEF t
  <2>4. \A q \in Part \ {r} : queue'[q] = queue[q]
    BY <1>0, <2>1 DEF TypeOK
  <2> QED
    BY <2>1, <2>2, <2>3, <2>4
<1>9. ASSUME NEW r \in Part, NEW s \in Part, AddVehicle(r, s) PROVE Deliveries'
  <2> DEFINE op == Head(queue[s][r])
  <2>1. /\ op \in Operation /\ Insert(r, op)
        /\ phase[r] = "apply" /\ UNCHANGED <<phase, crossed, opened, todo>>
        /\ queue[s][r] # <<>> /\ queue' = [queue EXCEPT ![s][r] = Tail(@)]
    BY <1>0, <1>9, HeadOf DEF AddVehicle, syncVars, apply
  <2> HIDE DEF op
  <2>2. PICK i \in {0} \cup Places(op.veh) : pos' = [pos EXCEPT ![r] = [@ EXCEPT ![op.veh] = i]]
    BY <1>0, <2>1, Inserted DEF Sound
  <2>3. \A q \in Part \ {r} : pos'[q] = pos[q]
    BY <1>0, <2>2 DEF TypeOK
  <2>4. \A p, q \in Part : queue'[q][p] # <<>> => queue[q][p] # <<>>
    BY <1>0, <2>1 DEF TypeOK
  <2> QED
    BY <2>1, <2>3, <2>4
<1>10. ASSUME NEW r \in Part,
              \/ \E v \in Vehicle : Ask(r, v)
              \/ \E q \in Part : LockQueue(r, q)
      PROVE  Deliveries'
  BY <1>2, <1>10 DEF Ask, LockQueue, world, syncVars, apply
<1>11. CASE Open
  <2>1. /\ \A p \in Part : crossed[p] = opened
        /\ (\A p \in Part : waits[p] = "barrier") \/ (\A p \in Part : waits[p] = "step")
        /\ opened' = opened + 1 /\ UNCHANGED <<phase, crossed, pos, queue, todo>>
    BY <1>11 DEF Open, Sync!OpenBarrier, Sync!OpenStep, Sync!AllWaitAt, world, apply
  <2>2. opened' # opened
    BY <2>1 DEF Barriers
  <2> QED
    BY <2>1, <2>2 DEF Barriers
<1> QED
  BY <1>2, <1>3, <1>4, <1>5, <1>6, <1>7, <1>8, <1>9, <1>10, <1>11
     DEF Next, PartitionNext, Over, vars, world, syncVars, apply

(* When the verdict to end the run is given nothing is left, anywhere or   *)
(* on its way; and no partition takes another step.                        *)
LEMMA VerdictStep ==
  Sound /\ Barriers /\ Votes /\ Deliveries /\ Verdict /\ [Next]_vars => Verdict'
<1> SUFFICES ASSUME Sound, Barriers, Votes, Deliveries, Verdict, [Next]_vars PROVE Verdict'
  OBVIOUS
<1>0. TypeOK
  BY DEF Sound
<1> USE DEF Verdict, Behind
<1>1. ASSUME ~verdict, UNCHANGED <<heard, verdict>> PROVE Verdict'
  BY <1>1
<1>2. ASSUME verdict, verdict', UNCHANGED <<time, pos, queue>>,
             \A p \in Part :
               \/ phase'[p] = "voted" /\ crossed'[p] # opened'
               \/ phase'[p] \in {"apply", "loop", "ended", "done"} /\ heard'[p]
      PROVE  Verdict'
  BY <1>2 DEF Finished, MaybeFinished, Present
<1>3. ASSUME UNCHANGED <<time, pos, queue, phase, crossed, opened, heard, verdict>>
      PROVE  Verdict'
  BY <1>3 DEF Finished, MaybeFinished, Present
<1>4. ASSUME NEW p \in Part, ArriveAtBarrier(p) PROVE Verdict'
  <2>1. /\ UNCHANGED <<heard, verdict, crossed, opened, time, pos, queue>>
        /\ phase[p] \in {"start", "loop"}
        /\ phase' = [phase EXCEPT ![p] = IF phase[p] = "start" THEN "started" ELSE "ended"]
    BY <1>4 DEF ArriveAtBarrier, Sync!ArriveAtBarrier, world
  <2>2. \A q \in Part \ {p} : phase'[q] = phase[q]
    BY <1>0, <2>1 DEF TypeOK
  <2>3. phase[p] = "loop" => phase'[p] = "ended"
    BY <1>0, <2>1 DEF TypeOK
  <2>4. CASE verdict
    BY <1>2, <2>1, <2>2, <2>3, <2>4 DEF Finished
  <2> QED
    BY <1>1, <2>1, <2>4
<1>5. ASSUME NEW p \in Part, CrossBarrier(p) \/ CrossStep(p) PROVE Verdict'
  <2>1. /\ UNCHANGED <<verdict, opened, time, pos, queue>>
        /\ \A q \in Part \ {p} :
             phase'[q] = phase[q] /\ crossed'[q] = crossed[q] /\ heard'[q] = heard[q]
        /\ phase[p] = "voted" => phase'[p] = "apply" /\ heard'[p] = verdict
        /\ phase[p] = "ended" => phase'[p] = "done" /\ heard'[p] = heard[p]
        /\ heard'[p] \in {heard[p], verdict} /\ phase[p] \in {"started", "ended", "voted"}
    <3>1. CASE CrossBarrier(p)
      <4>1. waits[p] = "barrier"
        BY <3>1 DEF CrossBarrier, Barriers
      <4> QED
        BY <1>0, <3>1, <4>1 DEF CrossBarrier, Sync!Cross, world, TypeOK, Barriers
    <3>2. CASE CrossStep(p)
      <4>1. waits[p] = "step"
        BY <3>2 DEF CrossStep, Barriers
      <4> QED
        BY <1>0, <3>2, <4>1 DEF CrossStep, Sync!Cross, world, TypeOK, Barriers
    <3> QED
      BY <1>5, <3>1, <3>2
  <2>2. CASE verdict
    BY ZenonT(40), <1>2, <2>1, <2>2 DEF Finished
  <2>3. CASE ~verdict
    BY <2>1, <2>3
  <2> QED
    BY <2>2, <2>3
<1>6. ASSUME NEW p \in Part,
             Step(p) \/ StartHandout(p) \/ Send(p) \/ ArriveAtStep(p)
      PROVE  Verdict'
  <2>1. (phase[p] = "loop" /\ ~heard[p]) \/ phase[p] \in {"stepped", "handout"}
    BY <1>6 DEF Step, StartHandout, Send, ArriveAtStep
  <2>2. ~verdict
    BY <2>1 DEF Finished
  <2>3. UNCHANGED <<heard, verdict>>
    BY <1>6 DEF Step, StartHandout, Send, ArriveAtStep, Sync!ArriveAtStep, syncVars
  <2> QED
    BY <1>1, <2>2, <2>3
<1>7. ASSUME NEW p \in Part, NEW q \in Part, AddVehicle(p, q) PROVE Verdict'
  <2>1. queue[q][p] # <<>> /\ UNCHANGED <<heard, verdict>>
    BY <1>7 DEF AddVehicle, syncVars
  <2> QED
    BY <1>1, <2>1 DEF Finished
<1>8. ASSUME NEW p \in Part, Applied(p) PROVE Verdict'
  <2>1. /\ UNCHANGED <<heard, verdict, crossed, opened, time, pos, queue>>
        /\ phase[p] = "apply" /\ phase' = [phase EXCEPT ![p] = "loop"]
    BY <1>8 DEF Applied, syncVars, world
  <2>2. phase'[p] = "loop" /\ \A q \in Part \ {p} : phase'[q] = phase[q]
    BY <1>0, <2>1 DEF TypeOK
  <2>3. CASE verdict
    BY <1>2, <2>1, <2>2, <2>3 DEF Finished
  <2> QED
    BY <1>1, <2>1, <2>3
<1>9. ASSUME NEW p \in Part,
             \/ \E v \in Vehicle : Ask(p, v)
             \/ \E q \in Part : LockQueue(p, q) \/ UnlockQueue(p, q)
      PROVE  Verdict'
  BY <1>3, <1>9 DEF Ask, LockQueue, UnlockQueue, world, syncVars
<1>10. CASE Open /\ verdict
  <2>1. /\ \A p \in Part : waits[p] # "none" /\ crossed[p] = opened
        /\ opened' = opened + 1 /\ UNCHANGED <<phase, crossed, heard, time, pos, queue>>
        /\ (\A p \in Part : waits[p] = "step") \/ verdict' = verdict
    BY <1>10 DEF Open, Sync!OpenBarrier, Sync!OpenStep, Sync!AllWaitAt, world
  <2>2. \A p \in Part : phase[p] = "ended" /\ heard[p]
    BY <1>10, <2>1 DEF Finished, Barriers
  <2>3. CASE Part = {}
    BY <2>3 DEF Finished
  <2>4. CASE Part # {}
    <3>1. verdict'
      BY <1>10, <2>1, <2>2, <2>4 DEF Barriers
    <3> QED
      BY <1>2, <1>10, <2>1, <2>2, <3>1
  <2> QED
    BY <2>3, <2>4
<1>11. CASE Open /\ ~verdict
  <2>1. CASE Sync!OpenStep
    <3>1. /\ \A p \in Part : waits[p] = "step" /\ crossed[p] = opened
          /\ verdict' = \A p \in Part : vote[p]
          /\ opened' = opened + 1 /\ UNCHANGED <<phase, crossed, heard, time, pos, queue>>
      BY <1>11, <2>1 DEF Open, Sync!OpenStep, Sync!AllWaitAt, world
    <3>2. \A p \in Part : phase[p] = "voted" /\ ~Behind(p) /\ crossed'[p] # opened'
      BY <3>1 DEF Barriers
    <3>3. CASE verdict'
      <4>1. \A p \in Part : vote[p]
        BY <3>1, <3>3
      <4>2. \A p \in Part : MaybeFinished(p)
        BY <3>2, <4>1 DEF Votes
      <4>3. \A p, q \in Part : queue[q][p] = <<>>
        BY <3>2, <4>2 DEF Deliveries, Undelivered, MaybeFinished
      <4>4. \A p \in Part : MaybeFinished(p)'
        BY <3>1, <4>2 DEF MaybeFinished, Present
      <4> QED
        BY <3>1, <3>2, <3>3, <4>3, <4>4 DEF Finished
    <3>4. CASE ~verdict'
      BY <1>11, <3>1, <3>4
    <3> QED
      BY <3>3, <3>4
  <2>2. CASE Sync!OpenBarrier
    BY <1>1, <1>11, <2>2 DEF Sync!OpenBarrier
  <2> QED
    BY <1>11, <2>1, <2>2 DEF Open
<1>12. CASE UNCHANGED vars
  BY <1>3, <1>12 DEF vars, world, syncVars
<1> QED
  BY <1>4, <1>5, <1>6, <1>7, <1>8, <1>9, <1>10, <1>11, <1>12 DEF Next, PartitionNext, Over

(* At the start nobody waits.                                              *)
LEMMA InStepInit == Init => InStep
<1> SUFFICES ASSUME Init PROVE InStep
  OBVIOUS
<1>1. Barriers
  BY DEF Init, Sync!Init, Barriers
<1>2. Votes
  BY DEF Init, Votes
<1>3. Deliveries
  BY DEF Init, Deliveries
<1>4. Verdict
  BY DEF Init, Sync!Init, Verdict
<1> QED
  BY <1>1, <1>2, <1>3, <1>4 DEF InStep

(* A run ends, without an end time, only when no vehicle is left in any    *)
(* partition or on its way to one, and all have departed.                  *)
THEOREM Ended == Spec => []EndsEmpty
<1>1. Sound /\ InStep /\ [Next]_vars => (Sound /\ InStep)'
  BY SoundStep, BarriersStep, VotesStep, DeliveriesStep, VerdictStep DEF InStep, Sound
<1>2. Sound /\ InStep => EndsEmpty
  <2> SUFFICES ASSUME Sound, InStep, NEW p \in Part, heard[p], NEW v \in Vehicle
               PROVE  /\ ~Queued(v) /\ \A q \in Part : v \notin Present(q)
                      /\ \A q \in Part : v \in Own(q) => time[q] > Depart[v]
    BY DEF EndsEmpty
  <2>1. Finished
    BY DEF InStep, Verdict
  <2>2. ~Queued(v)
    BY <2>1 DEF Finished, Queued
  <2>3. \A q \in Part : v \in Own(q) => time[q] > Depart[v]
    <3> SUFFICES ASSUME NEW q \in Part, v \in Own(q) PROVE time[q] > Depart[v]
      OBVIOUS
    <3>1. time[q] > LastDepart(q) + 1 /\ time[q] \in Nat
      BY <2>1 DEF Finished, MaybeFinished, Sound, TypeOK
    <3>2. LastDepart(q) \in Nat /\ Depart[v] <= LastDepart(q) /\ Depart[v] \in Nat
      BY Last, NetworkAssumption DEF NetworkAssumption
    <3> QED
      BY <3>1, <3>2
  <2> QED
    BY <2>1, <2>2, <2>3 DEF Finished, MaybeFinished
<1> QED
  BY SoundInit, InStepInit, <1>1, <1>2, PTL DEF Spec

-----------------------------------------------------------------------------
(* Where a vehicle of a simple route is.                                   *)

(* A step that changes nothing p knows about v; p may learn the vehicles   *)
(* it has, and forget the vehicles that were on a border edge.             *)
Same(p, v) ==
  /\ pos'[p][v] = pos[p][v]
  /\ v \in sent'[p] <=> v \in sent[p]
  /\ v \in leaving'[p] <=> v \in leaving[p]
  /\ Asked(p, v)' <=> Asked(p, v)
  /\ pos[p][v] = 0 /\ v \notin ids[p] => v \notin ids'[p]
  /\ \A e \in Border : v \in prev'[p][e] => v \in prev[p][e]

SameOrders(v) ==
  /\ NotQueued(v) => NotQueued(v)'
  /\ \A p, q \in Part : \A i \in Places(v) : OnItsWay(p, q, v, i) => OnItsWay(p, q, v, i)'

(* A step that leaves a partition as far from v as it was.                 *)
Kept(p, v) ==
  /\ Untouched(p, v) => Untouched(p, v)'
  /\ \A i \in Nat : Behindhand(p, v, i) => Behindhand(p, v, i)'

(* A step that changes nothing p knows about v is one.                     *)
LEMMA SameKept ==
  ASSUME NEW p \in Part, NEW v \in Vehicle, Same(p, v)
  PROVE  Kept(p, v)
<1>1. Handed(p, v)' <=> Handed(p, v)
  BY DEF Same, Handed
<1> QED
  BY <1>1 DEF Kept, Same, Untouched, Behindhand, Exit, Ends, PieceEnds

(* Such a step leaves v where it is, if it changes nothing for the         *)
(* partition that drives it, and v does not depart.                        *)
LEMMA Elsewhere ==
  ASSUME Sound, NEW v \in Vehicle, Whereabouts(v),
         \A p \in Part : Kept(p, v),
         \A p \in Part : DrivenBy(p, v) => Same(p, v) /\ (phase'[p] = phase[p] \/ ~AtExit(p, v)),
         \A p \in Part : Owner(p, v) => (time[p] > Depart[v] <=> time'[p] > Depart[v]),
         time \in [Part -> Nat], time' \in [Part -> Nat],
         SameOrders(v), arrived \subseteq arrived', v \notin misplaced'
  PROVE  Whereabouts(v)'
<1>1. /\ \A p \in Part : Untouched(p, v) => Untouched(p, v)'
      /\ \A p \in Part : \A i \in Nat : Behindhand(p, v, i) => Behindhand(p, v, i)'
  BY DEF Kept
<1>a. /\ \A p \in Part : Owner(p, v)' <=> Owner(p, v)
      /\ Depart[v] \in Nat /\ Places(v) \subseteq Nat /\ Len(Route[v]) \in Nat
  BY OnRoute, NetworkAssumption DEF NetworkAssumption, Owner, Inside
<1>2. CASE ToDepart(v)
  <2>1. ToDepart(v)'
    BY <1>1, <1>a, <1>2 DEF ToDepart, SameOrders
  <2> QED
    BY <2>1 DEF Whereabouts
<1>3. CASE ~ToDepart(v)
  <2>1. Departed(v) /\ Departed(v)'
    BY <1>a, <1>3 DEF Whereabouts, Departed
  <2>2. ASSUME NEW p \in Part, DrivenBy(p, v) PROVE DrivenBy(p, v)'
    <3> Same(p, v) /\ (phase'[p] = phase[p] \/ ~AtExit(p, v))
      BY <2>2
    <3>1. \A i \in Places(v) : Exit(p, v, i) => Route[v][i] \in Border
      BY ExitCrosses
    <3>2. pos[p][v] \in Places(v) /\ pos'[p][v] = pos[p][v]
      BY <2>2 DEF DrivenBy, Sound, TypeOK, Same
    <3>3. ASSUME Exit(p, v, pos[p][v]) PROVE AtExit(p, v)'
      BY <2>2, <3>1, <3>2, <3>3 DEF DrivenBy, AtExit, Handed, Same
    <3>4. Exit(p, v, pos[p][v])' <=> Exit(p, v, pos[p][v])
      BY <3>2 DEF Exit, Ends, PieceEnds
    <3>5. ASSUME ~Exit(p, v, pos[p][v]) PROVE ~Handed(p, v)'
      BY <2>2, <3>5 DEF DrivenBy, Handed, Same
    <3>6. \A i \in Places(v) : Exit(p, v, i) /\ i # pos'[p][v] => v \notin prev'[p][Route[v][i]]
      BY <2>2, <3>1, <3>2 DEF DrivenBy, Same
    <3>7. \A q \in Part \ {p} :
            /\ Behindhand(q, v, pos[p][v])'
            /\ Beyond(p, q, v) => Untouched(q, v)'
      BY <1>1, <1>a, <2>2, <3>2 DEF DrivenBy, Behindhand
    <3>8. NotQueued(v)' /\ pos'[p][v] # 0 /\ v \notin sent'[p]
      BY <2>2, <3>2 DEF DrivenBy, SameOrders, Same
    <3> QED
      BY <3>3, <3>4, <3>5, <3>6, <3>7, <3>8 DEF DrivenBy, Exit, Ends, PieceEnds, Beyond, Places, Inside
  <2>3. ASSUME NEW p \in Part, NEW q \in Part, NEW i \in Places(v), Between(p, q, v, i)
        PROVE  Between(p, q, v, i)'
    BY <1>1, <1>a, <2>3 DEF Between, SameOrders, Exit, Ends, PieceEnds, Beyond, Places, Inside, Other
  <2>4. ASSUME AtItsEnd(v) PROVE AtItsEnd(v)'
    BY <1>1, <1>a, <2>4 DEF AtItsEnd, SameOrders
  <2>5. CASE \E p \in Part : DrivenBy(p, v)
    BY <2>1, <2>2, <2>5 DEF Whereabouts
  <2>6. CASE \E p, q \in Part, i \in Places(v) : Between(p, q, v, i)
    BY <2>1, <2>3, <2>6 DEF Whereabouts, Places
  <2>7. CASE AtItsEnd(v)
    BY <2>1, <2>4, <2>7 DEF Whereabouts
  <2> QED
    BY <1>3, <2>5, <2>6, <2>7 DEF Whereabouts
<1> QED
  BY <1>2, <1>3

(* A step that changes nothing about v leaves it where it is.              *)
LEMMA Frame ==
  ASSUME Sound, NEW v \in Vehicle, Whereabouts(v),
         \A p \in Part : Same(p, v),
         \A p \in Part : phase'[p] = phase[p] \/ ~AtExit(p, v), time' = time,
         SameOrders(v), arrived \subseteq arrived', v \notin misplaced'
  PROVE  Whereabouts(v)'
<1>1. \A p \in Part : Kept(p, v)
  BY SameKept
<1>2. time \in [Part -> Nat] /\ time' \in [Part -> Nat]
  BY DEF Sound, TypeOK
<1>3. \A p \in Part : Owner(p, v) => (time[p] > Depart[v] <=> time'[p] > Depart[v])
  OBVIOUS
<1>4. \A p \in Part : DrivenBy(p, v) => Same(p, v) /\ (phase'[p] = phase[p] \/ ~AtExit(p, v))
  OBVIOUS
<1> QED
  BY <1>1, <1>2, <1>3, <1>4, Elsewhere

(* The barriers, and the locks on the queues, move no vehicle. No vehicle  *)
(* is left at an exit when a partition votes.                              *)
LEMMA QuietSteps ==
  ASSUME Sound, NEW v \in Vehicle, Whereabouts(v), NEW p \in Part,
         \/ ArriveAtBarrier(p) \/ CrossBarrier(p) \/ ArriveAtStep(p) \/ CrossStep(p)
         \/ \E q \in Part : LockQueue(p, q) \/ UnlockQueue(p, q)
         \/ Applied(p) \/ Open \/ UNCHANGED vars
  PROVE  Whereabouts(v)'
<1>1. UNCHANGED <<time, pos, arrived, prev, sent, ids, leaving, asked, queue, misplaced>>
  BY DEF ArriveAtBarrier, CrossBarrier, ArriveAtStep, CrossStep, LockQueue, UnlockQueue,
     Applied, Open, vars, world, border
<1>2. \A q \in Part : Same(q, v)
  BY <1>1 DEF Same, Asked
<1>3. SameOrders(v)
  BY <1>1 DEF SameOrders, NotQueued, OnItsWay, Places
<1>4. \A q \in Part : phase'[q] = phase[q] \/ ~AtExit(q, v)
  <2>1. CASE UNCHANGED phase
    BY <2>1
  <2>2. CASE ArriveAtBarrier(p) \/ CrossBarrier(p) \/ CrossStep(p) \/ Applied(p)
    <3>1. phase[p] \notin {"stepped", "handout"} /\ \A q \in Part \ {p} : phase'[q] = phase[q]
      BY <2>2 DEF ArriveAtBarrier, CrossBarrier, CrossStep, Applied, Sound, TypeOK
    <3> QED
      BY <3>1 DEF AtExit
  <2>3. CASE ArriveAtStep(p)
    <3>1. /\ phase[p] = "handout" /\ leaving[p] = {} /\ asked[p] = None
          /\ \A q \in Part \ {p} : phase'[q] = phase[q]
      BY <2>3 DEF ArriveAtStep, Sound, TypeOK
    <3> QED
      BY <3>1 DEF AtExit, Asked
  <2> QED
    BY <2>1, <2>2, <2>3 DEF LockQueue, UnlockQueue, Open, vars
<1>5. arrived \subseteq arrived' /\ v \notin misplaced'
  BY <1>1 DEF Whereabouts
<1> QED
  BY <1>1, <1>2, <1>3, <1>4, <1>5, Frame

(* v is handed out only by the partition that drives it, at its exit.      *)
LEMMA HandedByDriver ==
  ASSUME NEW v \in Vehicle, Whereabouts(v), NEW p \in Part, Handed(p, v)
  PROVE  DrivenBy(p, v) /\ Exit(p, v, pos[p][v]) /\ AtExit(p, v) /\ Departed(v)
BY DEF Whereabouts, ToDepart, Untouched, Departed, DrivenBy, Between, Behindhand, AtItsEnd

(* The next partition has not heard of v, so it does not say it has it.    *)
LEMMA NextUntouched ==
  ASSUME Sound, NEW v \in Vehicle, Simple(v), NEW p \in Part, NEW i \in Places(v), Exit(p, v, i)
  PROVE  LET q == Other(p, Route[v][i]) IN
         /\ q \in Part /\ q # p /\ Inside(q, v, i) /\ Beyond(p, q, v)
         /\ Inside(p, v, i) /\ Route[v][i] \in Border
<1> DEFINE q == Other(p, Route[v][i])
<1>1. /\ q \in Part /\ q # p /\ Route[v][i] \in Border /\ Inside(q, v, i)
      /\ Inside(q, v, i + 1) /\ i + 1 \in Places(v) /\ Inside(p, v, i)
  BY ExitCrosses, Across DEF Inside
<1>2. \A k \in Places(v) : Inside(p, v, k) => k <= i
  BY EndIsLast DEF Exit
<1>3. \A k \in Places(v) : Inside(p, v, k) => k < i + 1
  BY <1>2, OnRoute
<1> QED
  BY <1>1, <1>3 DEF Beyond

(* A vehicle at its exit is sent, not taken for one the neighbour has.     *)
LEMMA AskStep ==
  ASSUME Sound, NEW v \in Vehicle, Simple(v), Whereabouts(v),
         NEW p \in Part, NEW w \in Vehicle, Ask(p, w)
  PROVE  Whereabouts(v)'
<1> DEFINE q == Other(p, Route[w][pos[p][w]])
           known == IF idsUpdated[q] THEN ids[q] ELSE Present(q)
<1>0. TypeOK
  BY DEF Sound
<1>1. /\ phase[p] = "handout" /\ asked[p] = None /\ w \in leaving[p]
      /\ ids' = [ids EXCEPT ![q] = known]
      /\ leaving' = [leaving EXCEPT ![p] = @ \ {w}]
      /\ asked' = IF w \in known THEN asked
                  ELSE [asked EXCEPT ![p] = [veh |-> w, at |-> pos[p][w]]]
      /\ UNCHANGED <<phase, time, pos, arrived, prev, sent, queue, misplaced>>
  BY DEF Ask, world
<1>2. SameOrders(v) /\ arrived \subseteq arrived' /\ v \notin misplaced'
  BY <1>1 DEF SameOrders, NotQueued, OnItsWay, Places, Whereabouts
<1>3. \A r \in Part : pos[r][v] = 0 /\ v \notin ids[r] => v \notin ids'[r]
  BY <1>0, <1>1 DEF TypeOK, Present
<1>4. CASE w # v
  <2>1. \A r \in Part : v \in leaving'[r] <=> v \in leaving[r]
    BY <1>0, <1>1, <1>4 DEF TypeOK
  <2>2. \A r \in Part : Asked(r, v)' <=> Asked(r, v)
    <3>1. \A r \in Part \ {p} : asked'[r] = asked[r]
      BY <1>0, <1>1 DEF TypeOK
    <3>2. ~Asked(p, v)
      BY <1>1 DEF Asked
    <3>3. asked'[p] = None \/ asked'[p].veh = w
      BY <1>0, <1>1 DEF TypeOK
    <3> QED
      BY <1>4, <3>1, <3>2, <3>3 DEF Asked
  <2>3. \A r \in Part : Same(r, v)
    BY <1>1, <1>3, <2>1, <2>2 DEF Same
  <2> QED
    BY <1>1, <1>2, <2>3, Frame
<1>5. CASE w = v
  <2>1. DrivenBy(p, v) /\ Exit(p, v, pos[p][v]) /\ Departed(v)
    BY <1>1, <1>5, HandedByDriver DEF Handed
  <2>2. pos[p][v] \in Places(v)
    BY <1>0, <2>1 DEF DrivenBy, TypeOK
  <2>3. v \notin known
    BY <1>5, <2>1, <2>2, NextUntouched DEF DrivenBy, Untouched, Present
  <2>4. asked' = [asked EXCEPT ![p] = [veh |-> v, at |-> pos[p][v]]]
    BY <1>1, <1>5, <2>3
  <2>5. \A r \in Part \ {p} : Same(r, v)
    BY <1>0, <1>1, <1>3, <2>4 DEF Same, TypeOK, Asked
  <2>6. \A r \in Part \ {p} :
          /\ Behindhand(r, v, pos[p][v])'
          /\ Beyond(p, r, v) => Untouched(r, v)'
    BY <1>1, <2>1, <2>2, <2>5, SameKept, OnRoute DEF DrivenBy, Behindhand, Kept
  <2>7. AtExit(p, v)'
    <3>1. v \notin leaving'[p]
      BY <1>0, <1>1, <1>5 DEF TypeOK
    <3>2. asked'[p].veh = v /\ asked'[p].at # 0 /\ None.at = 0
      BY <1>0, <2>1, <2>4 DEF TypeOK, DrivenBy, None
    <3>3. Asked(p, v)'
      BY <3>2 DEF Asked
    <3> QED
      BY <1>1, <3>1, <3>3 DEF AtExit
  <2>8. /\ pos'[p][v] # 0 /\ v \notin sent'[p] /\ NotQueued(v)'
        /\ \A i \in Places(v) : Exit(p, v, i) /\ i # pos'[p][v] => v \notin prev'[p][Route[v][i]]
        /\ Exit(p, v, pos'[p][v])
    BY <1>1, <1>2, <2>1 DEF DrivenBy, SameOrders
  <2>9. DrivenBy(p, v)'
    BY <2>6, <2>7, <2>8 DEF DrivenBy, Exit, Ends, PieceEnds, Beyond, Places, Inside
  <2>10. Departed(v)'
    BY <1>1, <2>1 DEF Departed, Owner, Inside
  <2> QED
    BY <1>2, <2>9, <2>10 DEF Whereabouts
<1> QED
  BY <1>4, <1>5

(* An operation that is appended is the one about its vehicle, if there    *)
(* was none; about the others there are the same as before.                *)
LEMMA Appended ==
  ASSUME TypeOK, NEW v \in Vehicle, NEW p \in Part, NEW q \in Part, NEW op \in Operation,
         queue' = [queue EXCEPT ![p][q] = Append(@, op)]
  PROVE  /\ op.veh # v => SameOrders(v)
         /\ op.veh = v /\ NotQueued(v) => OnItsWay(p, q, v, op.at)'
<1> DEFINE n == Len(queue[p][q])
<1>1. /\ queue[p][q] \in Seq(Operation) /\ n \in Nat /\ DOMAIN queue[p][q] = 1 .. n
      /\ queue'[p][q] = Append(queue[p][q], op)
      /\ \A r, s \in Part : ~(r = p /\ s = q) => queue'[r][s] = queue[r][s]
  BY QueueOf DEF TypeOK
<1>2. /\ DOMAIN queue'[p][q] = 1 .. n + 1 /\ queue'[p][q][n + 1] = op
      /\ \A k \in 1 .. n : queue'[p][q][k] = queue[p][q][k]
  BY <1>1
<1> HIDE DEF n
<1>3. ASSUME NEW r \in Part, NEW s \in Part, NEW k \in DOMAIN queue'[r][s]
      PROVE  \/ k \in DOMAIN queue[r][s] /\ queue'[r][s][k] = queue[r][s][k]
             \/ r = p /\ s = q /\ k = n + 1 /\ queue'[r][s][k] = op
  <2>1. CASE r = p /\ s = q
    <3>1. k \in 1 .. n \/ k = n + 1
      BY <1>1, <1>2, <1>3, <2>1
    <3> QED
      BY <1>1, <1>2, <2>1, <3>1
  <2>2. CASE ~(r = p /\ s = q)
    BY <1>1, <1>3, <2>2
  <2> QED
    BY <2>1, <2>2
<1>4. ASSUME NEW r \in Part, NEW s \in Part, NEW k \in DOMAIN queue[r][s]
      PROVE  k \in DOMAIN queue'[r][s] /\ queue'[r][s][k] = queue[r][s][k]
  <2>1. CASE r = p /\ s = q
    BY <1>1, <1>2, <1>4, <2>1
  <2>2. CASE ~(r = p /\ s = q)
    BY <1>1, <1>4, <2>2
  <2> QED
    BY <2>1, <2>2
<1>5. ASSUME op.veh # v PROVE SameOrders(v)
  <2>1. NotQueued(v) => NotQueued(v)'
    BY <1>3, <1>5 DEF NotQueued
  <2>2. ASSUME NEW r \in Part, NEW s \in Part, NEW i \in Places(v), OnItsWay(r, s, v, i)
        PROVE  OnItsWay(r, s, v, i)'
    <3>1. PICK k \in DOMAIN queue[r][s] :
            /\ queue[r][s][k] = [veh |-> v, at |-> i]
            /\ \A r1, s1 \in Part : \A l \in DOMAIN queue[r1][s1] :
                 queue[r1][s1][l].veh = v => r1 = r /\ s1 = s /\ l = k
      BY <2>2 DEF OnItsWay
    <3>2. k \in DOMAIN queue'[r][s] /\ queue'[r][s][k] = [veh |-> v, at |-> i]
      BY <1>4, <3>1
    <3>3. \A r1, s1 \in Part : \A l \in DOMAIN queue'[r1][s1] :
            queue'[r1][s1][l].veh = v => r1 = r /\ s1 = s /\ l = k
      BY <1>3, <1>5, <3>1
    <3> QED
      BY <3>2, <3>3 DEF OnItsWay
  <2> QED
    BY <2>1, <2>2 DEF SameOrders
<1>6. ASSUME op.veh = v, NotQueued(v) PROVE OnItsWay(p, q, v, op.at)'
  <2>1. n + 1 \in DOMAIN queue'[p][q] /\ queue'[p][q][n + 1] = [veh |-> v, at |-> op.at]
    BY <1>1, <1>2, <1>6, IsOperation
  <2>2. \A r, s \in Part : \A l \in DOMAIN queue'[r][s] :
          queue'[r][s][l].veh = v => r = p /\ s = q /\ l = n + 1
    BY <1>3, <1>6 DEF NotQueued
  <2> QED
    BY <2>1, <2>2 DEF OnItsWay
<1> QED
  BY <1>5, <1>6

(* An operation that is taken off was the only one about its vehicle, if   *)
(* there was only one; the others stay.                                    *)
LEMMA TakenOff ==
  ASSUME TypeOK, NEW v \in Vehicle, NEW p \in Part, NEW q \in Part, queue[p][q] # <<>>,
         queue' = [queue EXCEPT ![p][q] = Tail(@)]
  PROVE  /\ Head(queue[p][q]).veh # v => SameOrders(v)
         /\ \A r, s \in Part : \A i \in Places(v) :
              Head(queue[p][q]).veh = v /\ OnItsWay(r, s, v, i) =>
                r = p /\ s = q /\ Head(queue[p][q]).at = i /\ NotQueued(v)'
<1> DEFINE op == Head(queue[p][q])
<1>1. /\ op \in Operation /\ 1 \in DOMAIN queue[p][q] /\ op = queue[p][q][1]
  BY HeadOf
<1>a. DOMAIN queue[p][q] \subseteq Nat \ {0}
  BY QueueOf
<1>b. /\ queue'[p][q] = Tail(queue[p][q])
      /\ \A r, s \in Part : ~(r = p /\ s = q) => queue'[r][s] = queue[r][s]
  BY DEF TypeOK
<1>c. \A k \in DOMAIN Tail(queue[p][q]) :
        /\ k + 1 \in DOMAIN queue[p][q] /\ k \in Nat \ {0}
        /\ Tail(queue[p][q])[k] = queue[p][q][k + 1]
  <2>1. Tail(queue[p][q]) \in Seq(Operation)
    BY HeadOf
  <2>2. DOMAIN Tail(queue[p][q]) \subseteq Nat \ {0}
    BY <2>1, LenProperties
  <2> QED
    BY <2>2, HeadOf
<1>2. ASSUME NEW r \in Part, NEW s \in Part, NEW k \in DOMAIN queue'[r][s]
      PROVE  \/ r = p /\ s = q /\ k + 1 \in DOMAIN queue[p][q] /\ k + 1 # 1
                /\ queue'[r][s][k] = queue[p][q][k + 1]
             \/ ~(r = p /\ s = q) /\ k \in DOMAIN queue[r][s] /\ queue'[r][s][k] = queue[r][s][k]
  <2>1. CASE r = p /\ s = q
    <3>1. k \in DOMAIN Tail(queue[p][q]) /\ queue'[r][s][k] = Tail(queue[p][q])[k]
      BY <1>b, <1>2, <2>1
    <3> QED
      BY <1>c, <2>1, <3>1
  <2>2. CASE ~(r = p /\ s = q)
    BY <1>b, <1>2, <2>2
  <2> QED
    BY <2>1, <2>2
<1>3. ASSUME NEW k \in DOMAIN queue[p][q], k # 1
      PROVE  k - 1 \in DOMAIN queue'[p][q] /\ queue'[p][q][k - 1] = queue[p][q][k]
  <2>1. queue[p][q] \in Seq(Operation) /\ DOMAIN queue[p][q] = 1 .. Len(queue[p][q])
        /\ Len(queue[p][q]) \in Nat
    BY QueueOf
  <2>2. Tail(queue[p][q]) \in Seq(Operation) /\ Len(Tail(queue[p][q])) = Len(queue[p][q]) - 1
    BY <2>1, HeadTailProperties
  <2>3. k - 1 \in 1 .. Len(queue[p][q]) - 1 /\ (k - 1) + 1 = k
    BY <1>3, <2>1
  <2>4. k - 1 \in DOMAIN Tail(queue[p][q])
    BY <2>2, <2>3, LenProperties
  <2> QED
    BY <1>b, <1>c, <2>3, <2>4
<1> HIDE DEF op
<1>4. ASSUME op.veh # v PROVE SameOrders(v)
  <2>1. NotQueued(v) => NotQueued(v)'
    BY <1>2 DEF NotQueued
  <2>2. ASSUME NEW r \in Part, NEW s \in Part, NEW i \in Places(v), OnItsWay(r, s, v, i)
        PROVE  OnItsWay(r, s, v, i)'
    <3>1. PICK k \in DOMAIN queue[r][s] :
            /\ queue[r][s][k] = [veh |-> v, at |-> i]
            /\ \A r1, s1 \in Part : \A l \in DOMAIN queue[r1][s1] :
                 queue[r1][s1][l].veh = v => r1 = r /\ s1 = s /\ l = k
      BY <2>2 DEF OnItsWay
    <3> DEFINE j == IF r = p /\ s = q THEN k - 1 ELSE k
    <3>2. j \in DOMAIN queue'[r][s] /\ queue'[r][s][j] = [veh |-> v, at |-> i]
      <4>1. CASE r = p /\ s = q
        <5>1. k # 1
          BY <1>1, <1>4, <3>1, <4>1
        <5> QED
          BY <1>3, <3>1, <4>1, <5>1
      <4>2. CASE ~(r = p /\ s = q)
        BY <1>b, <3>1, <4>2
      <4> QED
        BY <4>1, <4>2
    <3>3. ASSUME NEW r1 \in Part, NEW s1 \in Part, NEW l \in DOMAIN queue'[r1][s1],
                 queue'[r1][s1][l].veh = v
          PROVE  r1 = r /\ s1 = s /\ l = j
      <4>1. CASE r1 = p /\ s1 = q
        <5>1. l + 1 \in DOMAIN queue[p][q] /\ queue'[r1][s1][l] = queue[p][q][l + 1]
          BY <1>2, <3>3, <4>1
        <5>2. p = r /\ q = s /\ l + 1 = k
          BY <3>1, <3>3, <5>1
        <5>3. l \in Int
          <6>1. l \in DOMAIN Tail(queue[p][q])
            BY <1>b, <3>3, <4>1
          <6> QED
            BY <1>c, <6>1
        <5> QED
          BY <4>1, <5>2, <5>3
      <4>2. CASE ~(r1 = p /\ s1 = q)
        <5>1. l \in DOMAIN queue[r1][s1] /\ queue[r1][s1][l].veh = v
          BY <1>2, <3>3, <4>2
        <5> QED
          BY <3>1, <4>2, <5>1
      <4> QED
        BY <4>1, <4>2
    <3> HIDE DEF j
    <3> QED
      BY <3>2, <3>3 DEF OnItsWay
  <2> QED
    BY <2>1, <2>2 DEF SameOrders
<1>5. ASSUME NEW r \in Part, NEW s \in Part, NEW i \in Places(v), op.veh = v,
             OnItsWay(r, s, v, i)
      PROVE  r = p /\ s = q /\ op.at = i /\ NotQueued(v)'
  <2>1. PICK k \in DOMAIN queue[r][s] :
          /\ queue[r][s][k] = [veh |-> v, at |-> i]
          /\ \A r1, s1 \in Part : \A l \in DOMAIN queue[r1][s1] :
               queue[r1][s1][l].veh = v => r1 = r /\ s1 = s /\ l = k
    BY <1>5 DEF OnItsWay
  <2>2. r = p /\ s = q /\ k = 1
    BY <1>1, <1>5, <2>1
  <2>3. op.at = i
    BY <1>1, <2>1, <2>2
  <2>4. NotQueued(v)'
    BY <1>2, <2>1, <2>2 DEF NotQueued
  <2> QED
    BY <2>2, <2>3, <2>4
<1> QED
  BY <1>4, <1>5 DEF op

(* Once it has been sent, v is on its way to the next partition, where     *)
(* nothing is known of it; the copy left behind goes no further.           *)
LEMMA SendStep ==
  ASSUME Sound, NEW v \in Vehicle, Simple(v), Whereabouts(v), NEW p \in Part, Send(p)
  PROVE  Whereabouts(v)'
<1>0. TypeOK
  BY DEF Sound
<1>1. PICK op \in Operation : op = asked[p] /\ op = [veh |-> op.veh, at |-> op.at]
  BY <1>0, IsOperation DEF Send, TypeOK, Operation
<1>2. PICK q \in Part : q = Other(p, Route[op.veh][op.at])
  BY <1>1, OverBorder
<1>3. op.at = pos[p][op.veh] /\ op.at \in Places(op.veh)
  BY <1>1, OverBorder
<1>4. /\ phase[p] = "handout" /\ op # None
      /\ queue' = [queue EXCEPT ![p][q] = Append(@, op)]
      /\ sent' = [sent EXCEPT ![p] = @ \cup {op.veh}]
      /\ asked' = [asked EXCEPT ![p] = None]
      /\ UNCHANGED <<phase, time, pos, arrived, prev, leaving, ids, misplaced>>
  BY <1>1, <1>2 DEF Send, world
<1>5. arrived \subseteq arrived' /\ v \notin misplaced'
  BY <1>4 DEF Whereabouts
<1>6. \A r \in Part \ {p} : Same(r, v)
  BY <1>0, <1>4 DEF Same, Asked, TypeOK
<1>7. CASE op.veh # v
  <2>1. SameOrders(v)
    BY <1>0, <1>4, <1>7, Appended
  <2>2. Same(p, v)
    BY <1>0, <1>1, <1>4, <1>7 DEF Same, Asked, TypeOK
  <2> QED
    BY <1>4, <1>5, <1>6, <2>1, <2>2, Frame
<1>8. CASE op.veh = v
  <2>1. PICK i \in Places(v) : i = op.at
    BY <1>3, <1>8
  <2>2. /\ DrivenBy(p, v) /\ Exit(p, v, i) /\ AtExit(p, v) /\ Departed(v)
        /\ i = pos[p][v] /\ q = Other(p, Route[v][i])
    BY <1>1, <1>2, <1>3, <1>4, <1>8, <2>1, HandedByDriver DEF Handed, Asked
  <2>3. OnItsWay(p, q, v, i)'
    <3>1. NotQueued(v)
      BY <2>2 DEF DrivenBy
    <3>2. OnItsWay(p, q, v, op.at)'
      BY <1>0, <1>4, <1>8, <3>1, Appended
    <3> QED
      BY <2>1, <3>2
  <2>4. \A r \in Part \ {p} : Behindhand(r, v, i) /\ (Beyond(p, r, v) => Untouched(r, v))
    BY <2>2 DEF DrivenBy
  <2>5. \A r \in Part \ {p} : Behindhand(r, v, i)' /\ (Beyond(p, r, v) => Untouched(r, v)')
    BY <1>6, <2>4, SameKept, OnRoute DEF Kept
  <2>6. Behindhand(p, v, i)'
    <3>1. ~Handed(p, v)'
      BY <1>0, <1>1, <1>4, <1>8, <2>2 DEF AtExit, Handed, Asked, TypeOK
    <3>2. v \in sent'[p] /\ pos'[p][v] = i /\ i <= i
      BY <1>0, <1>4, <1>8, <2>2, OnRoute DEF TypeOK
    <3> QED
      BY <2>2, <3>1, <3>2 DEF Behindhand, Exit, Ends, PieceEnds
  <2>7. ~Beyond(p, p, v)
    BY OnRoute DEF Beyond
  <2>8. Between(p, q, v, i)'
    BY <2>2, <2>3, <2>5, <2>6, <2>7 DEF Between, Exit, Ends, PieceEnds, Beyond, Places, Inside, Other
  <2>9. Departed(v)'
    BY <1>4, <2>2 DEF Departed, Owner, Inside
  <2> QED
    BY <1>5, <2>8, <2>9 DEF Whereabouts, Places
<1> QED
  BY <1>7, <1>8

(* A vehicle on a simple route is inserted where it was seen: its route    *)
(* has one piece in p, and the edge is on it, once.                        *)
LEMMA InsertedWhereSeen ==
  ASSUME Sound, NEW v \in Vehicle, Simple(v), NEW p \in Part, NEW i \in Places(v),
         Inside(p, v, i), pos[p][v] = 0, Insert(p, [veh |-> v, at |-> i])
  PROVE  pos' = [pos EXCEPT ![p][v] = i] /\ misplaced' = misplaced
<1> DEFINE piece == IF Multipart(p, v) THEN progress[p][v] + 1 ELSE 0
           spots == {j \in Places(v) : Inside(p, v, j) /\ PieceNo(p, v, j) = piece}
           same  == {j \in spots : Route[v][j] = Route[v][i]}
           spot  == IF same # {} THEN Min(same) ELSE Min(spots)
<1>1. piece = 0
  BY DEF Simple
<1>2. i \in spots
  BY <1>1, PieceZero
<1>3. same = {i}
  BY <1>2 DEF Simple
<1>4. Min({i}) = i
  <2>1. {i} \subseteq Nat /\ {i} # {}
    BY OnRoute
  <2>2. Min({i}) \in {i}
    BY <2>1, MinOf
  <2> QED
    BY <2>2
<1>5. spot = i /\ spots # {}
  BY <1>2, <1>3, <1>4
<1>6. /\ pos' = IF spots # {} /\ pos[p][v] = 0 THEN [pos EXCEPT ![p][v] = spot] ELSE pos
      /\ misplaced' = IF (spots # {} /\ pos[p][v] = 0) /\ spot # i
                      THEN misplaced \cup {v} ELSE misplaced
  BY DEF Insert
<1> HIDE DEF spots, spot
<1> QED
  BY <1>5, <1>6

(* The next partition takes v over where it has left, and drives it.       *)
LEMMA AddVehicleStep ==
  ASSUME Sound, NEW v \in Vehicle, Simple(v), Whereabouts(v),
         NEW p \in Part, NEW q \in Part, AddVehicle(p, q)
  PROVE  Whereabouts(v)'
<1>0. TypeOK
  BY DEF Sound
<1>1. /\ queue[q][p] # <<>> /\ queue' = [queue EXCEPT ![q][p] = Tail(@)]
      /\ Insert(p, Head(queue[q][p]))
      /\ UNCHANGED <<phase, prev, leaving, asked, time, arrived>>
  BY DEF AddVehicle, border, Insert
<1>2. PICK op \in Operation : op = Head(queue[q][p])
  BY <1>0, <1>1, HeadOf
<1>3. op.veh \in Vehicle /\ op = [veh |-> op.veh, at |-> op.at]
  BY IsOperation
<1>4. /\ sent' = [sent EXCEPT ![p] = @ \ {op.veh}]
      /\ \A r \in Part : ids'[r] \subseteq ids[r] \cup {op.veh}
      /\ \A r \in Part \ {p} : ids'[r] = ids[r]
  BY <1>0, <1>1, <1>2 DEF Insert, TypeOK
<1>5. PICK n \in {0} \cup Places(op.veh) : pos' = [pos EXCEPT ![p] = [@ EXCEPT ![op.veh] = n]]
  BY <1>0, <1>1, <1>2, Inserted DEF Sound
<1>6. \A r \in Part \ {p} : Same(r, v)
  BY <1>0, <1>1, <1>4, <1>5 DEF Same, Asked, TypeOK
<1>7. CASE op.veh # v
  <2>1. SameOrders(v)
    BY ZenonT(40), <1>0, <1>1, <1>2, <1>7, TakenOff
  <2>2. Same(p, v)
    BY <1>0, <1>1, <1>3, <1>4, <1>5, <1>7 DEF Same, Asked, TypeOK
  <2>3. v \notin misplaced'
    BY <1>1, <1>2, <1>7 DEF Insert, Whereabouts
  <2> QED
    BY <1>1, <1>6, <2>1, <2>2, <2>3, Frame
<1>8. CASE op.veh = v
  <2>1. ~NotQueued(v)
    BY <1>0, <1>1, <1>2, <1>8, HeadOf DEF NotQueued
  <2>2. PICK s \in Part, t \in Part, i \in Places(v) : Between(s, t, v, i)
    BY <2>1 DEF Whereabouts, ToDepart, DrivenBy, AtItsEnd
  <2>3. s = q /\ t = p /\ op.at = i /\ NotQueued(v)'
    <3>1. OnItsWay(s, t, v, i) /\ Head(queue[q][p]).veh = v
      BY <1>2, <1>8, <2>2 DEF Between
    <3>2. s = q /\ t = p /\ Head(queue[q][p]).at = i /\ NotQueued(v)'
      BY <1>0, <1>1, <3>1, TakenOff
    <3> QED
      BY <1>2, <3>2
  <2>4. Exit(q, v, i) /\ p = Other(q, Route[v][i])
    BY <2>2, <2>3 DEF Between
  <2>5. q # p /\ Inside(p, v, i) /\ Inside(p, v, i + 1) /\ i + 1 \in Places(v) /\ Beyond(q, p, v)
    BY <2>4, ExitCrosses, NextUntouched
  <2>6. Untouched(p, v)
    BY <2>2, <2>3, <2>5 DEF Between
  <2>7. op = [veh |-> v, at |-> i]
    BY <1>3, <1>8, <2>3
  <2>8. pos' = [pos EXCEPT ![p][v] = i] /\ misplaced' = misplaced
    BY <1>1, <1>2, <2>5, <2>6, <2>7, InsertedWhereSeen DEF Untouched
  <2>9. pos'[p][v] = i /\ i # 0 /\ v \notin sent'[p] /\ ~Handed(p, v)'
    BY <1>0, <1>1, <1>4, <1>8, <2>6, <2>8, OnRoute DEF Untouched, Handed, Asked, TypeOK
  <2>10. ~Exit(p, v, i)
    BY <2>5, ExitCrosses
  <2>11. \A j \in Places(v) : Exit(p, v, j) => v \notin prev'[p][Route[v][j]]
    BY <1>1, <2>6, ExitCrosses DEF Untouched
  <2>12. ASSUME NEW r \in Part \ {p}
         PROVE  Behindhand(r, v, i)' /\ (Beyond(p, r, v) => Untouched(r, v)')
    <3>1. Behindhand(r, v, i) /\ (Beyond(q, r, v) => Untouched(r, v))
      BY <2>2, <2>3 DEF Between
    <3>2. ASSUME Beyond(p, r, v) PROVE Beyond(q, r, v)
      <4>1. PICK k \in Places(v) : Inside(r, v, k) /\ \A j \in Places(v) : Inside(p, v, j) => j < k
        BY <3>2 DEF Beyond
      <4>2. \A j \in Places(v) : Inside(q, v, j) => j <= i
        BY <2>4, EndIsLast DEF Exit
      <4>3. \A j \in Places(v) : Inside(q, v, j) => j < k
        BY <2>5, <4>1, <4>2, OnRoute
      <4> QED
        BY <4>1, <4>3 DEF Beyond
    <3> QED
      BY <1>6, <3>1, <3>2, SameKept, OnRoute DEF Kept
  <2>13. DrivenBy(p, v)'
    <3>1. ~Exit(p, v, pos[p][v])' /\ (pos[p][v])' = i
      BY <2>9, <2>10 DEF Exit, Ends, PieceEnds
    <3>2. \A r \in Part \ {p} : Behindhand(r, v, pos[p][v])' /\ (Beyond(p, r, v) => Untouched(r, v)')
      BY <2>12, <3>1 DEF Behindhand
    <3> QED
      BY <2>3, <2>9, <2>11, <3>1, <3>2
         DEF DrivenBy, Exit, Ends, PieceEnds, Beyond, Places, Inside
  <2>14. Departed(v) /\ Departed(v)'
    BY <1>1, <2>1 DEF Whereabouts, ToDepart, Departed, Owner, Inside
  <2> QED
    BY <2>8, <2>13, <2>14 DEF Whereabouts
<1> QED
  BY <1>7, <1>8

(* Unless it is about to be handed out, or waits at its exit for it, a     *)
(* copy at an exit has been sent.                                          *)
LEMMA UnsentAtExit ==
  ASSUME NEW v \in Vehicle, Whereabouts(v), NEW p \in Part, pos[p][v] # 0,
         Exit(p, v, pos[p][v]), v \notin sent[p]
  PROVE  DrivenBy(p, v) /\ AtExit(p, v)
BY DEF Whereabouts, ToDepart, Untouched, DrivenBy, Between, Behindhand, AtItsEnd

(* handleOutgoingEdges picks v when it has just come to its exit, and only *)
(* then.                                                                   *)
LEMMA Picked ==
  ASSUME Sound, NEW v \in Vehicle, Simple(v), NEW p \in Part, StartHandout(p)
  PROVE  /\ v \in leaving'[p] <=>
              /\ pos[p][v] # 0 /\ Exit(p, v, pos[p][v]) /\ v \notin sent[p]
              /\ v \notin prev[p][Route[v][pos[p][v]]]
         /\ pos[p][v] = 0 => \A e \in Border : v \in prev'[p][e] => v \in prev[p][e]
         /\ \A i \in Places(v) :
              Exit(p, v, i) /\ v \in prev'[p][Route[v][i]] => pos[p][v] = i
<1> DEFINE edges     == {e \in Border : p \in EdgeParts[e]}
           unsent(e) == IF EndsIn(p, e) = {} THEN {} ELSE On(p, e) \ sent[p]
           picked(e) == (unsent(e) \cap RoutesOf(Other(p, e)) \cap EndsIn(p, e)) \ prev[p][e]
<1>0. TypeOK /\ Standing
  BY DEF Sound
<1>1. leaving'[p] = UNION {picked(e) : e \in edges}
  BY <1>0 DEF StartHandout, TypeOK
<1>2. \A e \in Border :
        prev'[p][e] = IF e \notin edges \/ (On(p, e) # {} /\ EndsIn(p, e) = {}) THEN prev[p][e]
                      ELSE On(p, e)
  BY <1>0 DEF StartHandout, TypeOK
<1>3. \A i \in Places(v) : Exit(p, v, i) =>
        /\ Route[v][i] \in edges /\ v \in EndsIn(p, Route[v][i])
        /\ v \in RoutesOf(Other(p, Route[v][i]))
  BY ExitCrosses
<1>4. \A e : v \in On(p, e) <=> pos[p][v] # 0 /\ Route[v][pos[p][v]] = e
  BY DEF On, Present
<1>5. pos[p][v] # 0 => pos[p][v] \in Places(v)
  BY <1>0 DEF TypeOK
<1>6. ASSUME v \in leaving'[p]
      PROVE  /\ pos[p][v] # 0 /\ Exit(p, v, pos[p][v]) /\ v \notin sent[p]
             /\ v \notin prev[p][Route[v][pos[p][v]]]
  <2>1. PICK e \in edges : v \in picked(e)
    BY <1>1, <1>6
  <2>2. v \in On(p, e) /\ v \notin sent[p] /\ v \in EndsIn(p, e) /\ v \notin prev[p][e]
    BY <2>1
  <2>3. PICK j \in Ends(p, v) : Route[v][j] = e
    BY <2>2 DEF EndsIn
  <2>4. j \in Places(v)
    BY Pieces
  <2>5. j = pos[p][v]
    BY <1>4, <1>5, <2>2, <2>3, <2>4 DEF Simple
  <2>6. j # Len(Route[v])
    BY <2>1, <2>3 DEF Simple
  <2> QED
    BY <1>4, <2>2, <2>3, <2>5, <2>6 DEF Exit
<1>7. ASSUME pos[p][v] # 0, Exit(p, v, pos[p][v]), v \notin sent[p],
             v \notin prev[p][Route[v][pos[p][v]]]
      PROVE  v \in leaving'[p]
  <2> DEFINE e == Route[v][pos[p][v]]
  <2>1. e \in edges /\ v \in EndsIn(p, e) /\ v \in RoutesOf(Other(p, e))
    BY <1>3, <1>5, <1>7
  <2>2. v \in unsent(e)
    BY <1>4, <1>7, <2>1
  <2>3. v \in picked(e)
    BY <1>7, <2>1, <2>2
  <2> HIDE DEF picked, edges, e
  <2> QED
    BY <1>1, <2>1, <2>3
<1>8. ASSUME NEW i \in Places(v), Exit(p, v, i), v \in prev'[p][Route[v][i]]
      PROVE  pos[p][v] = i
  <2>1. prev'[p][Route[v][i]] = On(p, Route[v][i])
    BY <1>2, <1>3, <1>8
  <2> QED
    BY <1>4, <1>5, <1>8, <2>1 DEF Simple
<1>9. ASSUME pos[p][v] = 0, NEW e \in Border, v \in prev'[p][e] PROVE v \in prev[p][e]
  BY <1>2, <1>4, <1>9
<1> QED
  BY <1>6, <1>7, <1>8, <1>9

(* When p begins to hand out, v is picked if p drives it and it has come   *)
(* to its exit; nothing changes for the partitions that do not drive it.   *)
LEMMA StartHandoutStep ==
  ASSUME Sound, NEW v \in Vehicle, Simple(v), Whereabouts(v), NEW p \in Part, StartHandout(p)
  PROVE  Whereabouts(v)'
<1>0. TypeOK
  BY DEF Sound
<1>1. /\ phase[p] = "stepped" /\ phase' = [phase EXCEPT ![p] = "handout"]
      /\ UNCHANGED <<time, pos, arrived, asked, sent, ids, queue, misplaced>>
      /\ \A r \in Part \ {p} : leaving'[r] = leaving[r] /\ prev'[r] = prev[r]
      /\ leaving[p] = {} /\ asked[p] = None
  BY DEF StartHandout, world, Sound, Handing, TypeOK
<1>2. SameOrders(v) /\ arrived \subseteq arrived' /\ v \notin misplaced'
  BY <1>1 DEF SameOrders, NotQueued, OnItsWay, Places, Whereabouts
<1>3. \A r \in Part \ {p} : Same(r, v)
  BY <1>1 DEF Same, Asked
<1>4. ~Asked(p, v) /\ ~Asked(p, v)'
  BY <1>1 DEF Asked
<1>5. CASE DrivenBy(p, v)
  <2>1. Departed(v) /\ Departed(v)'
    BY <1>1, <1>5 DEF Whereabouts, ToDepart, Untouched, DrivenBy, Departed, Owner, Inside
  <2>2. pos[p][v] \in Places(v) /\ pos'[p][v] = pos[p][v] /\ pos'[p][v] # 0 /\ v \notin sent'[p]
    BY <1>0, <1>1, <1>5 DEF DrivenBy, TypeOK
  <2>3. ASSUME Exit(p, v, pos[p][v]) PROVE AtExit(p, v)'
    <3>1. v \notin prev[p][Route[v][pos[p][v]]]
      BY <1>1, <1>5, <2>3 DEF DrivenBy, AtExit
    <3>2. v \in leaving'[p]
      BY <1>5, <2>3, <3>1, Picked DEF DrivenBy
    <3> QED
      BY <1>0, <1>1, <1>4, <3>2 DEF AtExit, TypeOK
  <2>4. ASSUME ~Exit(p, v, pos[p][v]) PROVE ~Handed(p, v)'
    BY <1>4, <2>4, Picked DEF Handed
  <2>5. \A i \in Places(v) : Exit(p, v, i) /\ i # pos'[p][v] => v \notin prev'[p][Route[v][i]]
    BY <2>2, Picked
  <2>6. \A r \in Part \ {p} :
          Behindhand(r, v, pos[p][v])' /\ (Beyond(p, r, v) => Untouched(r, v)')
    <3>1. \A r \in Part \ {p} :
            Behindhand(r, v, pos[p][v]) /\ (Beyond(p, r, v) => Untouched(r, v))
      BY <1>5 DEF DrivenBy
    <3> QED
      BY <1>3, <2>2, <3>1, SameKept, OnRoute DEF Kept, Behindhand
  <2>7. Exit(p, v, pos[p][v])' <=> Exit(p, v, pos[p][v])
    BY <2>2 DEF Exit, Ends, PieceEnds
  <2>8. NotQueued(v)'
    BY <1>2, <1>5 DEF DrivenBy, SameOrders
  <2>9. DrivenBy(p, v)'
    BY <2>2, <2>3, <2>4, <2>5, <2>6, <2>7, <2>8
       DEF DrivenBy, Exit, Ends, PieceEnds, Beyond, Places, Inside
  <2> QED
    BY <1>2, <2>1, <2>9 DEF Whereabouts
<1>6. CASE ~DrivenBy(p, v)
  <2>1. ~Handed(p, v)'
    BY <1>4, <1>6, Picked, UnsentAtExit DEF Handed
  <2>2. Untouched(p, v) => Untouched(p, v)'
    BY <1>1, <2>1, Picked DEF Untouched
  <2>3. \A i \in Nat : Behindhand(p, v, i) => Behindhand(p, v, i)'
    BY <1>1, <2>1 DEF Behindhand, Exit, Ends, PieceEnds
  <2>4. \A r \in Part : Kept(r, v)
    BY <1>3, <2>2, <2>3, SameKept DEF Kept
  <2>5. \A r \in Part : DrivenBy(r, v) => Same(r, v) /\ phase'[r] = phase[r]
    BY <1>0, <1>1, <1>3, <1>6 DEF TypeOK
  <2>6. time \in [Part -> Nat] /\ time' \in [Part -> Nat]
    BY <1>0, <1>1 DEF TypeOK
  <2>7. \A r \in Part : Owner(r, v) => (time[r] > Depart[v] <=> time'[r] > Depart[v])
    BY <1>1
  <2> QED
    BY <1>2, <2>4, <2>5, <2>6, <2>7, Elsewhere
<1> QED
  BY <1>5, <1>6

(* What a step does with v: it departs, stays, disappears at the end of    *)
(* its piece, or goes on.                                                  *)
LEMMA Moves ==
  ASSUME Sound, NEW v \in Vehicle, NEW p \in Part, Step(p)
  PROVE  \/ /\ v \in Own(p) /\ Depart[v] = time[p] /\ pos'[p][v] = 1
         \/ /\ pos'[p][v] = pos[p][v]
            /\ pos[p][v] = 0 => ~(v \in Own(p) /\ Depart[v] = time[p])
         \/ /\ pos[p][v] # 0 /\ pos[p][v] \in Ends(p, v) /\ pos'[p][v] = 0
            /\ pos[p][v] = Len(Route[v]) => v \in arrived'
         \/ /\ pos[p][v] # 0 /\ pos[p][v] \notin Ends(p, v) /\ pos'[p][v] = pos[p][v] + 1
<1>0. TypeOK
  BY DEF Sound
<1>1. PICK moving \in SUBSET Present(p) :
        LET gone == {w \in moving : pos[p][w] \in Ends(p, w)} IN
        /\ pos' = [pos EXCEPT ![p] = [w \in Vehicle |->
             IF w \in gone THEN 0
             ELSE IF w \in moving THEN @[w] + 1
             ELSE IF w \in Own(p) /\ Depart[w] = time[p] THEN 1
             ELSE @[w]]]
        /\ arrived' = arrived \cup {w \in gone : pos[p][w] = Len(Route[w])}
  BY DEF Step
<1>2. pos'[p][v] = IF v \in moving /\ pos[p][v] \in Ends(p, v) THEN 0
                   ELSE IF v \in moving THEN pos[p][v] + 1
                   ELSE IF v \in Own(p) /\ Depart[v] = time[p] THEN 1
                   ELSE pos[p][v]
  BY <1>0, <1>1 DEF TypeOK
<1>3. CASE v \in moving
  <2>1. pos[p][v] # 0
    BY <1>3 DEF Present
  <2>2. pos[p][v] \in Ends(p, v) /\ pos[p][v] = Len(Route[v]) => v \in arrived'
    BY <1>1, <1>3
  <2> QED
    BY <1>2, <1>3, <2>1, <2>2
<1>4. CASE v \notin moving
  BY <1>2, <1>4
<1> QED
  BY <1>3, <1>4

(* v departs, or goes on where it is driven and arrives at the end of its  *)
(* route; a copy that is left at an exit stays or disappears.              *)
LEMMA StepStep ==
  ASSUME Sound, NEW v \in Vehicle, Simple(v), Whereabouts(v), NEW p \in Part, Step(p)
  PROVE  Whereabouts(v)'
<1>0. TypeOK /\ Depart[v] \in Nat /\ time[p] \in Nat
  BY NetworkAssumption DEF Sound, TypeOK, NetworkAssumption
<1>1. /\ phase[p] = "loop" /\ phase' = [phase EXCEPT ![p] = "stepped"]
      /\ time' = [time EXCEPT ![p] = @ + 1]
      /\ \A r \in Part \ {p} : pos'[r] = pos[r]
      /\ arrived \subseteq arrived'
      /\ UNCHANGED <<prev, leaving, asked, sent, ids, queue, misplaced>>
  BY <1>0 DEF Step, border, TypeOK
<1>2. SameOrders(v) /\ v \notin misplaced'
  BY <1>1 DEF SameOrders, NotQueued, OnItsWay, Places, Whereabouts
<1>3. \A r \in Part \ {p} : Same(r, v)
  BY <1>1 DEF Same, Asked
<1>4. \A r \in Part : Handed(r, v)' <=> Handed(r, v)
  BY <1>1 DEF Handed, Asked
<1>5. time \in [Part -> Nat] /\ time' \in [Part -> Nat] /\ time'[p] = time[p] + 1
      /\ \A r \in Part \ {p} : time'[r] = time[r]
  BY <1>0, <1>1 DEF TypeOK
<1>6. ~AtExit(p, v)
  BY <1>1 DEF AtExit
<1>7. Departed(v) => Departed(v)'
  BY <1>0, <1>5 DEF Departed, Owner, Inside
<1>8. CASE DrivenBy(p, v)
  <2>1. Departed(v) /\ ~Exit(p, v, pos[p][v]) /\ pos[p][v] \in Places(v) /\ ~Handed(p, v)
    BY <1>0, <1>6, <1>8 DEF Whereabouts, ToDepart, Untouched, DrivenBy, TypeOK
  <2>2. \A i \in Places(v) : Exit(p, v, i) => v \notin prev'[p][Route[v][i]]
    BY <1>1, <1>8, <2>1 DEF DrivenBy
  <2>3. \A r \in Part \ {p} :
          /\ \A i \in Nat : pos[p][v] <= i => Behindhand(r, v, i)'
          /\ Beyond(p, r, v) => Untouched(r, v)'
    <3>1. \A r \in Part \ {p} :
            Behindhand(r, v, pos[p][v]) /\ (Beyond(p, r, v) => Untouched(r, v))
      BY <1>8 DEF DrivenBy
    <3>2. \A r \in Part \ {p} : \A i \in Nat :
            pos[p][v] <= i => Behindhand(r, v, i)
      BY <1>0, <3>1 DEF Behindhand, TypeOK
    <3> QED
      BY <1>3, <3>1, <3>2, SameKept DEF Kept
  <2>4. ASSUME NEW j \in Places(v), pos[p][v] <= j, pos'[p][v] = j PROVE Whereabouts(v)'
    <3>1. ASSUME Exit(p, v, j) PROVE AtExit(p, v)'
      BY <1>0, <1>1, <1>4, <2>1, <2>2, <2>4, <3>1 DEF AtExit, TypeOK
    <3>2. Exit(p, v, pos[p][v])' <=> Exit(p, v, j)
      BY <2>4 DEF Exit, Ends, PieceEnds
    <3>3. \A r \in Part \ {p} : Behindhand(r, v, pos[p][v])'
      BY <2>3, <2>4, OnRoute DEF Behindhand
    <3>4. NotQueued(v)' /\ j # 0 /\ v \notin sent'[p]
      BY <1>1, <1>2, <1>8, OnRoute DEF DrivenBy, SameOrders
    <3>5. DrivenBy(p, v)'
      BY <1>4, <2>1, <2>2, <2>3, <2>4, <3>1, <3>2, <3>3, <3>4
         DEF DrivenBy, Exit, Ends, PieceEnds, Beyond, Places, Inside
    <3> QED
      BY <1>2, <1>7, <2>1, <3>5 DEF Whereabouts
  <2>5. CASE pos[p][v] \in Ends(p, v) /\ pos'[p][v] = 0
             /\ (pos[p][v] = Len(Route[v]) => v \in arrived')
    <3>1. pos[p][v] = Len(Route[v]) /\ Len(Route[v]) \in Nat /\ Len(Route[v])' = Len(Route[v])
      BY <2>1, <2>5, OnRoute DEF Exit
    <3>2. \A r \in Part \ {p} : Behindhand(r, v, Len(Route[v]))'
      BY <2>3, <3>1 DEF Behindhand
    <3>3. Behindhand(p, v, Len(Route[v]))'
      BY <1>4, <2>1, <2>5 DEF Behindhand
    <3>4. AtItsEnd(v)'
      BY <1>2, <1>8, <2>5, <3>1, <3>2, <3>3 DEF AtItsEnd, DrivenBy, SameOrders
    <3> QED
      BY <1>2, <1>7, <2>1, <3>4 DEF Whereabouts
  <2>6. CASE pos[p][v] \notin Ends(p, v) /\ pos'[p][v] = pos[p][v] + 1
    <3>1. Inside(p, v, pos[p][v])
      BY <1>8 DEF DrivenBy, Sound, Standing
    <3>2. pos[p][v] + 1 \in Places(v) /\ pos[p][v] <= pos[p][v] + 1
      BY <2>1, <2>6, <3>1, GoesOn, OnRoute
    <3> QED
      BY <2>4, <2>6, <3>2
  <2>7. CASE pos'[p][v] = pos[p][v]
    BY <2>1, <2>4, <2>7, OnRoute
  <2>8. ~(v \in Own(p) /\ Depart[v] = time[p])
    BY <1>0, <2>1 DEF Own, Departed, Owner
  <2> QED
    BY <2>5, <2>6, <2>7, <2>8, Moves
<1>9. CASE ~DrivenBy(p, v) /\ ~(v \in Own(p) /\ Depart[v] = time[p])
  <2>1. ASSUME Untouched(p, v) PROVE Untouched(p, v)'
    <3>1. pos'[p][v] = 0
      BY <1>9, <2>1, Moves DEF Untouched
    <3> QED
      BY <1>1, <1>4, <2>1, <3>1 DEF Untouched
  <2>2. ASSUME NEW i \in Nat, Behindhand(p, v, i) PROVE Behindhand(p, v, i)'
    <3>1. pos'[p][v] = 0 \/ pos'[p][v] = pos[p][v]
      BY <1>9, <2>2, Moves DEF Behindhand, Exit
    <3> QED
      BY <1>1, <1>4, <2>2, <3>1 DEF Behindhand, Exit, Ends, PieceEnds
  <2>3. \A r \in Part : Kept(r, v)
    BY <1>3, <2>1, <2>2, SameKept DEF Kept
  <2>4. \A r \in Part : DrivenBy(r, v) => Same(r, v) /\ phase'[r] = phase[r]
    BY <1>0, <1>1, <1>3, <1>9 DEF TypeOK
  <2>5. \A r \in Part : Owner(r, v) => (time[r] > Depart[v] <=> time'[r] > Depart[v])
    BY <1>0, <1>5, <1>9 DEF Own, Owner
  <2> QED
    BY <1>1, <1>2, <1>5, <2>3, <2>4, <2>5, Elsewhere
<1>10. CASE ~DrivenBy(p, v) /\ v \in Own(p) /\ Depart[v] = time[p]
  <2>1. Owner(p, v) /\ ~Exit(p, v, 1) /\ \A r \in Part : Owner(r, v) => r = p
    BY <1>10, RouteBegins DEF Own, Owner
  <2>2. ToDepart(v)
    BY <1>0, <1>10, <2>1 DEF Whereabouts, Departed
  <2>3. pos'[p][v] = 1
    BY <1>10, <2>2, Moves DEF ToDepart, Untouched
  <2>4. \A r \in Part \ {p} : Untouched(r, v)'
    BY <1>3, <2>2, SameKept DEF ToDepart, Kept
  <2>5. \A r \in Part \ {p} : Behindhand(r, v, pos[p][v])'
    BY <2>4 DEF Untouched, Behindhand
  <2>6. /\ pos'[p][v] # 0 /\ v \notin sent'[p] /\ ~Handed(p, v)' /\ NotQueued(v)'
        /\ \A i \in Places(v) : Exit(p, v, i) => v \notin prev'[p][Route[v][i]]
    BY <1>1, <1>2, <1>4, <2>2, <2>3, ExitCrosses DEF ToDepart, Untouched, SameOrders
  <2>7. ~Exit(p, v, pos[p][v])'
    BY <2>1, <2>3 DEF Exit, Ends, PieceEnds
  <2>8. DrivenBy(p, v)'
    BY <2>4, <2>5, <2>6, <2>7 DEF DrivenBy, Exit, Ends, PieceEnds, Beyond, Places, Inside
  <2>9. Departed(v)'
    BY <1>0, <1>5, <1>10, <2>1 DEF Departed, Owner, Inside
  <2> QED
    BY <1>2, <2>8, <2>9 DEF Whereabouts
<1> QED
  BY <1>8, <1>9, <1>10

-----------------------------------------------------------------------------
(* The invariant, and what follows from it.                                *)

(* At the start no vehicle has departed.                                   *)
LEMMA LocatedInit == Init => Located
<1> SUFFICES ASSUME Init, NEW v \in Vehicle PROVE Whereabouts(v)
  BY DEF Located
<1>1. NotQueued(v) /\ v \notin misplaced
  BY DEF Init, NotQueued
<1>2. \A p \in Part : Untouched(p, v)
  BY DEF Init, Untouched, Handed, Asked
<1>3. Depart[v] \in Nat /\ \A p \in Part : time[p] <= Depart[v]
  BY NetworkAssumption DEF NetworkAssumption, Init
<1> QED
  BY <1>1, <1>2, <1>3 DEF Whereabouts, ToDepart

(* Every step leaves a vehicle on a simple route in a known place.         *)
LEMMA LocatedStep == Sound /\ Located /\ [Next]_vars => Located'
<1> SUFFICES ASSUME Sound, Located, [Next]_vars, NEW v \in Vehicle, Simple(v)
             PROVE  Whereabouts(v)'
  BY DEF Located, Simple, Multipart, Begins, PieceBegins, Places
<1>1. Whereabouts(v)
  BY DEF Located
<1>2. CASE Next
  <2>1. ASSUME NEW p \in Part, PartitionNext(p) PROVE Whereabouts(v)'
    <3>1. CASE \E w \in Vehicle : Ask(p, w)
      BY <1>1, <3>1, AskStep
    <3>2. CASE \E q \in Part : AddVehicle(p, q)
      BY <1>1, <3>2, AddVehicleStep
    <3>3. CASE Step(p)
      BY <1>1, <3>3, StepStep
    <3>4. CASE StartHandout(p)
      BY <1>1, <3>4, StartHandoutStep
    <3>5. CASE Send(p)
      BY <1>1, <3>5, SendStep
    <3>6. CASE \/ ArriveAtBarrier(p) \/ CrossBarrier(p) \/ ArriveAtStep(p) \/ CrossStep(p)
               \/ \E q \in Part : LockQueue(p, q) \/ UnlockQueue(p, q)
               \/ Applied(p)
      BY <1>1, <3>6, QuietSteps
    <3> QED
      BY <2>1, <3>1, <3>2, <3>3, <3>4, <3>5, <3>6 DEF PartitionNext
  <2>2. \E p \in Part : TRUE
    BY RouteBegins
  <2>3. CASE Open \/ Over
    BY <1>1, <2>2, <2>3, QuietSteps DEF Over
  <2> QED
    BY <1>2, <2>1, <2>3 DEF Next
<1>3. CASE UNCHANGED vars
  <2>1. \E p \in Part : TRUE
    BY RouteBegins
  <2> QED
    BY <1>1, <1>3, <2>1, QuietSteps
<1> QED
  BY <1>2, <1>3

(* IInv is an invariant of every run.                                      *)
THEOREM Invariance == Spec => []IInv
<1>1. Init => IInv
  BY SoundInit, InStepInit, LocatedInit DEF IInv
<1>2. IInv /\ [Next]_vars => IInv'
  BY SoundStep, BarriersStep, VotesStep, DeliveriesStep, VerdictStep, LocatedStep
     DEF IInv, InStep, Sound
<1> QED
  BY <1>1, <1>2, PTL DEF Spec

(* While v is on its way the partition that is to insert it does not have  *)
(* it.                                                                     *)
LEMMA QueuedNotPresent ==
  ASSUME Sound, NEW v \in Vehicle, Simple(v), Whereabouts(v),
         NEW p \in Part, NEW q \in Part, NEW k \in DOMAIN queue[q][p], queue[q][p][k].veh = v
  PROVE  v \notin Present(p)
<1>1. ~NotQueued(v)
  BY DEF NotQueued
<1>2. PICK s \in Part, t \in Part, i \in Places(v) : Between(s, t, v, i)
  BY <1>1 DEF Whereabouts, ToDepart, DrivenBy, AtItsEnd
<1>3. s = q /\ t = p
  BY <1>2 DEF Between, OnItsWay
<1>4. Exit(q, v, i) /\ p = Other(q, Route[v][i])
  BY <1>2, <1>3 DEF Between
<1>5. Beyond(q, p, v)
  BY <1>4, NextUntouched
<1> QED
  BY <1>2, <1>3, <1>5 DEF Between, Untouched, Present

(* Of two copies one is at the exit of its partition, not after the other. *)
LEMMA OneDrives ==
  ASSUME Sound, NEW v \in Vehicle, Simple(v), Whereabouts(v),
         NEW p \in Part, NEW q \in Part, p # q, pos[p][v] # 0, pos[q][v] # 0
  PROVE  \E r \in {p, q} :
           /\ Exit(r, v, pos[r][v]) /\ pos[r][v] <= pos[p][v] /\ pos[r][v] <= pos[q][v]
<1>1. pos[p][v] \in Nat /\ pos[q][v] \in Nat
  BY DEF Sound, TypeOK
<1>2. CASE \E d \in Part : DrivenBy(d, v)
  <2>1. PICK d \in Part : DrivenBy(d, v)
    BY <1>2
  <2>2. CASE d = p
    <3>1. Behindhand(q, v, pos[p][v])
      BY <2>1, <2>2 DEF DrivenBy
    <3> QED
      BY <1>1, <3>1 DEF Behindhand
  <2>3. CASE d = q
    <3>1. Behindhand(p, v, pos[q][v])
      BY <2>1, <2>3 DEF DrivenBy
    <3> QED
      BY <1>1, <3>1 DEF Behindhand
  <2>4. CASE d # p /\ d # q
    <3>1. Behindhand(p, v, pos[d][v]) /\ Behindhand(q, v, pos[d][v])
      BY <2>1, <2>4 DEF DrivenBy
    <3> QED
      BY <1>1, <3>1 DEF Behindhand
  <2> QED
    BY <2>2, <2>3, <2>4
<1>3. CASE ~\E d \in Part : DrivenBy(d, v)
  <2>1. \E i : Behindhand(p, v, i) /\ Behindhand(q, v, i)
    BY <1>3 DEF Whereabouts, ToDepart, Untouched, Between, AtItsEnd
  <2> QED
    BY <1>1, <2>1 DEF Behindhand
<1> QED
  BY <1>2, <1>3

(* Whatever the network and the other vehicles: a vehicle on a simple      *)
(* route is inserted where it was seen, it is never inserted where it is   *)
(* already, its copy left behind goes no further, and it is not lost.      *)
LEMMA SimpleVehicle ==
  ASSUME Sound, NEW v \in Vehicle, Simple(v), Whereabouts(v)
  PROVE  v \notin misplaced /\ NotDoubled(v) /\ ShadowAtTheBorder(v) /\ NotLost(v)
<1>1. v \notin misplaced
  BY DEF Whereabouts
<1>2. NotDoubled(v)
  BY QueuedNotPresent DEF NotDoubled
<1>3. ShadowAtTheBorder(v)
  <2> SUFFICES ASSUME NEW p \in Part, NEW q \in Part, p # q, v \in Present(p), v \in Present(q)
               PROVE  \E r \in {p, q} :
                        /\ pos[r][v] = Min({pos[p][v], pos[q][v]})
                        /\ pos[r][v] \in Ends(r, v) /\ Route[v][pos[r][v]] \in Border
    BY DEF ShadowAtTheBorder
  <2>1. pos[p][v] # 0 /\ pos[q][v] # 0
    BY DEF Present
  <2>2. PICK r \in {p, q} :
          /\ Exit(r, v, pos[r][v]) /\ pos[r][v] <= pos[p][v] /\ pos[r][v] <= pos[q][v]
    BY <2>1, OneDrives
  <2>3. pos[r][v] \in Places(v) /\ pos[p][v] \in Nat /\ pos[q][v] \in Nat
    BY <2>1 DEF Sound, TypeOK
  <2>4. Route[v][pos[r][v]] \in Border
    BY <2>2, <2>3, ExitCrosses
  <2>5. Min({pos[p][v], pos[q][v]}) \in {pos[p][v], pos[q][v]}
        /\ \A y \in {pos[p][v], pos[q][v]} : Min({pos[p][v], pos[q][v]}) <= y
    <3> DEFINE S == {pos[p][v], pos[q][v]}
    <3>1. S \subseteq Nat /\ S # {}
      BY <2>3
    <3> HIDE DEF S
    <3>2. Min(S) \in S /\ \A y \in S : Min(S) <= y
      BY <3>1, MinOf
    <3> QED
      BY <3>2 DEF S
  <2>6. pos[r][v] = Min({pos[p][v], pos[q][v]})
    BY <2>2, <2>3, <2>5
  <2> QED
    BY <2>2, <2>4, <2>6 DEF Exit
<1>4. NotLost(v)
  <2> SUFFICES ASSUME NEW p \in Part, v \in Own(p), time[p] > Depart[v]
               PROVE  v \in arrived \/ Queued(v) \/ \E q \in Part : v \in Present(q)
    BY DEF NotLost
  <2>1. ~ToDepart(v)
    <3>1. time[p] \in Nat /\ Depart[v] \in Nat
      BY NetworkAssumption DEF NetworkAssumption, Sound, TypeOK
    <3> QED
      BY <3>1 DEF ToDepart, Own, Owner
  <2>2. CASE \E q \in Part : DrivenBy(q, v)
    BY <2>2 DEF DrivenBy, Present
  <2>3. CASE \E q, r \in Part, i \in Places(v) : Between(q, r, v, i)
    BY <2>3 DEF Between, OnItsWay, Queued
  <2>4. CASE AtItsEnd(v)
    BY <2>4 DEF AtItsEnd
  <2> QED
    BY <2>1, <2>2, <2>3, <2>4 DEF Whereabouts
<1> QED
  BY <1>1, <1>2, <1>3, <1>4

(* Whatever the other vehicles do, no vehicle on a simple route is lost,   *)
(* doubled, inserted in the wrong place, or driven on by two partitions.   *)
THEOREM SimpleVehicles ==
  Spec => [](\A v \in Vehicle : Simple(v) =>
               v \notin misplaced /\ NotDoubled(v) /\ ShadowAtTheBorder(v) /\ NotLost(v))
<1>1. IInv => \A v \in Vehicle : Simple(v) =>
                v \notin misplaced /\ NotDoubled(v) /\ ShadowAtTheBorder(v) /\ NotLost(v)
  BY SimpleVehicle DEF IInv, Located
<1> QED
  BY Invariance, <1>1, PTL

(* Where all routes are simple, the border swallows no vehicle,            *)
THEOREM NoneIsLost ==
  ASSUME \A v \in Vehicle : Simple(v)
  PROVE  Spec => []NoneLost
<1>1. IInv => NoneLost
  BY SimpleVehicle DEF IInv, Located, NoneLost
<1> QED
  BY Invariance, <1>1, PTL

(* no partition inserts a vehicle that it has,                             *)
THEOREM NoneIsDoubled ==
  ASSUME \A v \in Vehicle : Simple(v)
  PROVE  Spec => []NeverDoubled
<1>1. IInv => NeverDoubled
  BY SimpleVehicle DEF IInv, Located, NeverDoubled
<1> QED
  BY Invariance, <1>1, PTL

(* the copy left behind is on the border edge that ends its piece,         *)
THEOREM ShadowsStop ==
  ASSUME \A v \in Vehicle : Simple(v)
  PROVE  Spec => []ShadowsEndAtTheBorder
<1>1. IInv => ShadowsEndAtTheBorder
  BY SimpleVehicle DEF IInv, Located, ShadowsEndAtTheBorder
<1> QED
  BY Invariance, <1>1, PTL

(* and every vehicle goes on where it was seen.                            *)
THEOREM AllResume ==
  ASSUME \A v \in Vehicle : Simple(v)
  PROVE  Spec => []ResumesWhereItLeft
<1>1. IInv => ResumesWhereItLeft
  BY SimpleVehicle DEF IInv, Located, ResumesWhereItLeft, Sound, TypeOK
<1> QED
  BY Invariance, <1>1, PTL
=============================================================================
