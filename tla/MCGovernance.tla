---------------------------- MODULE MCGovernance ----------------------------
(* Instances of Governance for TLC: the configurations beside this module   *)
(* give the constants small sets of model values.                           *)
EXTENDS Governance, TLC

(* Takes that play the same part are interchangeable: no definition names one
   of them, and the properties checked under this set quantify over them.    *)
TakeSymmetry == Permutations(Takes)
=============================================================================
