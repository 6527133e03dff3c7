--------------------------- MODULE MCParamBridge ----------------------------
(* ParamBridge with one parameter of each type and two values.             *)
EXTENDS ParamBridge
=============================================================================
