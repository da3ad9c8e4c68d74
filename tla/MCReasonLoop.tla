---------------------------- MODULE MCReasonLoop ----------------------------
(* Instances of ReasonLoop for TLC. *)
EXTENDS ReasonLoop

(* The scenarios that issue the whole task: hitl and pending. *)
FullTask == <<"read_documents", "write_internal_report", "send_external_email">>
=============================================================================
