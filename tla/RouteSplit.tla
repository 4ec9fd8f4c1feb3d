----------------------------- MODULE RouteSplit -----------------------------
(***************************************************************************)
(* How the scripts cut the route of a vehicle for the partitions: each     *)
(* takes the runs of edges that lie in it as pieces and numbers them, and  *)
(* keeps the vehicle if it starts there (partroutes.py); of a vehicle that *)
(* starts on a border edge all copies but one are removed (createParts.py).*)
(*                                                                         *)
(* The id of a piece is that of the route and a number, or the route's     *)
(* alone.  A number is written with as many zeros before it as it takes to *)
(* make all numbers of a route equally long.                               *)
(***************************************************************************)
EXTENDS Integers, Sequences, SequencesExt, FiniteSetsExt

CONSTANTS
  NumParts,   \* the number of partitions
  Edges,      \* Edges[p] are the edges in partition p
  Route       \* the routes that the vehicle may have

VARIABLES
  route,     \* its route
  pieces,    \* the pieces in each partition
  starts,    \* the partitions that keep the vehicle
  checked    \* partitions that _final_duplicates_check has visited

split == <<route, pieces, starts, checked>>

Part == 0 .. NumParts - 1

(* Every edge lies in some partition, and a route has an edge.             *)
ASSUME RouteAssumption ==
  /\ NumParts \in Nat
  /\ Route \subseteq Seq(UNION {Edges[p] : p \in Part}) \ {<< >>}

Whole == [zeros |-> -1, num |-> 0]   \* the id of a route that is one piece
Plain(n) == [zeros |-> 0, num |-> n]

(* A number of d digits is at least 9 * (d - 1) + 1.                       *)
Digits(n) == Max({d \in 1 .. n \div 9 + 1 : n >= 10 ^ (d - 1)} \cup {1})

(* The runs of s that lie in E: route_parts and current_part after an edge.*)
NextEdge(r, edge, E) ==
  IF edge \in E THEN [r EXCEPT !.current = Append(@, edge)]
  ELSE IF r.current # << >> THEN [parts |-> Append(r.parts, r.current), current |-> << >>]
  ELSE r

Runs(s, E) ==
  LET upTo[n \in 0 .. Len(s)] ==
        IF n = 0 THEN [parts |-> << >>, current |-> << >>] ELSE NextEdge(upTo[n - 1], s[n], E)
      last == upTo[Len(s)]
  IN IF last.current # << >> THEN Append(last.parts, last.current) ELSE last.parts

FilterOrSplit(s, E) ==
  LET parts == Runs(s, E)
      Numbered(i) == IF Len(parts) = 1 THEN Whole
                     ELSE [zeros |-> Digits(Len(parts)) - Digits(i - 1), num |-> i - 1]
  IN [i \in DOMAIN parts |->
       [id |-> Numbered(i), edges |-> parts[i], isStart |-> parts[i][1] = s[1]]]

RouteNodeIsFirst(piece) == piece.id \in {Whole, Plain(0)}

(* The piece that a vehicle of this partition starts on, if any.           *)
FirstPiece(s) == {i \in DOMAIN s : RouteNodeIsFirst(s[i])}

(* A faulty check that leaves the gap.                                     *)
AsTheyAre(s) == s

(* _fix_multipart_route_ids closes the gap that a removed piece leaves.    *)
Renumbered(s) ==
  [i \in DOMAIN s |->
    IF s[i].id # Whole /\ s[i].id.num > i - 1 THEN [s[i] EXCEPT !.id = Plain(i - 1)] ELSE s[i]]

RouteInit ==
  /\ route \in Route
  /\ pieces = [p \in Part |-> << >>]
  /\ starts = [p \in Part |-> FALSE]
  /\ checked = -1

PartRoute(p) ==
  /\ checked = -1 /\ pieces[p] = << >>
  /\ pieces' = [pieces EXCEPT ![p] = FilterOrSplit(route, Edges[p])]
  /\ starts' = [starts EXCEPT ![p] = \E i \in FirstPiece(pieces'[p]) : pieces'[p][i].isStart]
  /\ UNCHANGED <<route, checked>>

AllSplit ==
  /\ checked = -1 /\ \A p \in Part : pieces[p] # << >> \/ Runs(route, Edges[p]) = << >>
  /\ checked' = 0
  /\ UNCHANGED <<route, pieces, starts>>

FirstLength(s) == Max({Len(s[i].edges) : i \in FirstPiece(s)} \cup {0})

(* The lengths of the copies that are left; of equal ones the last stays.  *)
FinalDuplicatesCheck(p) ==
  /\ checked = p
  /\ LET rem == /\ starts[p]
                /\ \E q \in Part \ {p} :
                     starts[q] /\ FirstLength(pieces[q]) >= FirstLength(pieces[p])
     IN /\ starts' = [starts EXCEPT ![p] = @ /\ ~rem]
        /\ pieces' = [pieces EXCEPT ![p] = Renumbered(IF rem THEN Tail(@) ELSE @)]
  /\ checked' = p + 1
  /\ UNCHANGED route

Done == checked = NumParts /\ UNCHANGED split

RouteNext == AllSplit \/ Done \/ \E p \in Part : PartRoute(p) \/ FinalDuplicatesCheck(p)

RouteSpec == RouteInit /\ [][RouteNext]_split

-----------------------------------------------------------------------------
(* Correctness.                                                            *)

Visits(p) == Runs(route, Edges[p])

(* The name that addVehicle looks for when the vehicle comes in for the    *)
(* n-th time, from 0 on.                                                   *)
PieceName(p, n) == IF \E i \in DOMAIN pieces[p] : pieces[p][i].id # Whole THEN Plain(n) ELSE Whole

(* What is left in p of a vehicle: the pieces of all visits, or of all but *)
(* the one it would start with, under the names that addVehicle looks for. *)
InPlace(p) ==
  /\ [i \in DOMAIN pieces[p] |-> pieces[p][i].edges] =
       IF route[1] \in Edges[p] /\ ~starts[p] THEN Tail(Visits(p)) ELSE Visits(p)
  /\ \A i \in DOMAIN pieces[p] : pieces[p][i].id = PieceName(p, i - 1)

OneStart == Cardinality({p \in Part : starts[p]}) = 1

(* "Elements with a route, to keep if their route starts in this           *)
(* partition" (partroutes.py:56), and "Make sure each number for the same  *)
(* route has the same amount of digits, so sorting in route processing     *)
(* works well" (partroutes.py:186): one partition keeps the vehicle, and   *)
(* in each partition addVehicle finds a piece for each visit.              *)
PiecesFound == checked = NumParts => OneStart /\ \A p \in Part : InPlace(p)

(* The same of the partitions that are visited less than ten times, so     *)
(* that no number has zeros before it (_filter_or_split_route,             *)
(* _final_duplicates_check, addVehicle): a vehicle that starts in one of   *)
(* them is kept by one partition, and the pieces of each are found. What   *)
(* the others keep is left open.                                           *)
FewPiecesFound ==
  checked = NumParts =>
    LET few == {p \in Part : Len(Visits(p)) < 10}
    IN /\ (\E p \in few : route[1] \in Edges[p]) => OneStart
       /\ \A p \in few : InPlace(p)
=============================================================================
