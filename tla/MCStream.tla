------------------------------ MODULE MCStream ------------------------------
(* Instances of Stream for TLC: the configuration beside this module gives  *)
(* the constants small sets of model values.                                *)
EXTENDS Stream
=============================================================================
