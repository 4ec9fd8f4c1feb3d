-------------------------- MODULE MCVehicleIdCache --------------------------
(* Two neighbours and three steps.                                         *)
EXTENDS VehicleIdCache

CONSTANTS left, right, nobody

MCHandler == {left, right}
MCVehicle == {"v"}
=============================================================================
