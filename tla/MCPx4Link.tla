------------------------------ MODULE MCPx4Link ------------------------------
(* Px4Link and Px4Beats on a small instance.  Two ticks of loss window     *)
(* separate "just entered", "inside the window" and "past it"; RecoverN =  *)
(* 2 is the default of the code, and the cap is one above it so that       *)
(* counting past the threshold happens.  PX4 sends each heartbeat once,    *)
(* one way or the other.                                                   *)
EXTENDS Px4Beats

OneCopy == {{"unicast"}, {"broadcast"}}
=============================================================================
