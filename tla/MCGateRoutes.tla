---------------------------- MODULE MCGateRoutes ----------------------------
(* Instances of GateRoutes for TLC: the configurations beside this module   *)
(* give the constants small sets of model values.                           *)
EXTENDS GateRoutes
=============================================================================
