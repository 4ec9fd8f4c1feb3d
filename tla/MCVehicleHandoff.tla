-------------------------- MODULE MCVehicleHandoff --------------------------
(* Small networks for VehicleHandoff. Edges b1, b2 and d lie on the border *)
(* of partitions 0 and 1; a is inside 0, c1 and c2 inside 1:               *)
(*    a -> b1 -> b2 -> c1 -> c2 -> d -> a     b2 -> c1 -> d -> a           *)
(* IInv of VehicleHandoffInv holds on them, too.                           *)
EXTENDS VehicleHandoffInv

MCPart == {0, 1}

MCEdgeParts == [a |-> {0}, b1 |-> {0, 1}, b2 |-> {0, 1}, c1 |-> {1}, c2 |-> {1},
                d |-> {0, 1}]

(* x crosses the border once; y goes round and leaves partition 0 twice.   *)
MCRoute == [x |-> <<"a", "b1", "b2", "c1">>,
            y |-> <<"a", "b1", "b2", "c1", "c2", "d", "a", "b1", "b2", "c1">>]
MCDepart == [x |-> 1, y |-> 0]

(* x may be held up for some steps.                                        *)
MCJam == [x |-> 4, y |-> 0]

(* y returns to partition 0.                                               *)
MCReturn == [y |-> <<"a", "b2", "c1", "d", "a">>]
MCReturnDepart == [y |-> 0]
MCReturnJam == [y |-> 0]
=============================================================================
