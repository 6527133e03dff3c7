------------------------------ MODULE MCUplink -------------------------------
(***************************************************************************)
(* Instances of Uplink.  Six numbers are enough for the nodes anybody can  *)
(* hold at one time: the sender, the reader's, the writer's and one for    *)
(* each of the three rebuilders.                                           *)
(***************************************************************************)
EXTENDS Uplink

MCNodes == 1..6
LateRoute == {"none", "wifi"}
StableRoute == {"wifi"}
Roaming == {"wifi", "lte"}
=============================================================================
