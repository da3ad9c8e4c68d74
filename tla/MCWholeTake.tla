---------------------------- MODULE MCWholeTake ----------------------------
(* Instances of WholeTake for TLC: the configuration beside this module     *)
(* gives the constants small sets of model values.                          *)
EXTENDS WholeTake

(* The scenarios that issue the whole task: hitl and pending. *)
FullTask == <<"read_documents", "write_internal_report", "send_external_email">>
=============================================================================
