-------------------------------- MODULE Acts --------------------------------
(***************************************************************************)
(* What an act IS: the pending act a reasoning turn committed to, the      *)
(* arguments it resolves to, the projection that becomes the question put  *)
(* to the control plane, and what the tool's body really does.             *)
(*                                                                         *)
(* A graph state g is a record with the members the bindings read:         *)
(*   pending     the proposed act, or NoAct                                *)
(*   sequence    how many acts the run has proposed                        *)
(*   draft       the model's own prose, or Nothing                         *)
(*   reportText  the text the internal write saved, or Nothing             *)
(***************************************************************************)
EXTENDS Naturals

CONSTANTS
  Texts,        \* the report texts a model may write
  Recipients,   \* the recipients a model may name
  Malformed,    \* those of them without an "@"
  Destinations, \* the upload destinations a model may name
  Corpora,      \* the states the corpus directory may be in
  EmptyCorpus,  \* the one of them with no document
  Nothing,      \* the empty string, the absent member
  MaxActs       \* bound: how many acts one run proposes

ASSUME ActsAssumption ==
  /\ Malformed \subseteq Recipients
  /\ EmptyCorpus \in Corpora
  /\ MaxActs \in Nat
  /\ Nothing \notin Texts \cup Recipients \cup Destinations \cup Corpora

Tools ==
  {"read_documents", "write_internal_report", "send_external_email", "upload_external"}

(* A node carries the name of its tool, and one capability. *)
Policy ==
  [read_documents        |-> "allow",
   write_internal_report |-> "allow",
   send_external_email   |-> "suspend",
   upload_external       |-> "deny"]

-----------------------------------------------------------------------------
Targets == Recipients \cup Destinations \cup {Nothing}
NoAct == [tool |-> "none", target |-> Nothing, sequence |-> 0]
PendingAct == [tool : Tools, target : Targets, sequence : 1..MaxActs]
GraphState ==
  [pending : PendingAct \cup {NoAct}, sequence : 0..MaxActs,
   draft : Texts \cup {Nothing}, reportText : Texts \cup {Nothing}]

(* The one short argument the tool's schema lets the model supply. *)
ArgumentOf(tool) ==
  CASE tool = "send_external_email" -> Recipients \cup {Nothing}
    [] tool = "upload_external"     -> Destinations \cup {Nothing}
    [] OTHER                        -> {Nothing}

-----------------------------------------------------------------------------
(* The complete arguments of the pending act. It dispatches on the tool the
   state names, whatever node is asking; a member the tool does not have is
   read as the empty string by whoever asks for it.                         *)
Resolve(g, corpus) ==
  LET tool == g.pending.tool
      If(owner, value) == IF tool = owner THEN value ELSE Nothing
  IN [documents   |-> If("read_documents", corpus),
      content     |-> If("write_internal_report", g.draft),
      recipient   |-> If("send_external_email", g.pending.target),
      body        |-> If("send_external_email",
                         IF g.reportText # Nothing THEN g.reportText ELSE g.draft),
      destination |-> If("upload_external", g.pending.target)]

Values == Texts \cup Recipients \cup Destinations \cup Corpora \cup {Nothing}

(* Slip: bind_send_external forgets the body. *)
BoundWithoutBody ==
  [read_documents        |-> {"documents"},
   write_internal_report |-> {"content"},
   send_external_email   |-> {"recipient"},
   upload_external       |-> {"destination"}]

(* The arguments each binding projects into the question. *)
Bound ==
  [read_documents        |-> {"documents"},
   write_internal_report |-> {"content"},
   send_external_email   |-> {"recipient", "body"},
   upload_external       |-> {"destination"}]

(* What a re-ask must reproduce to be the same ask: the scope and the
   principal are one value each in a run; the digest is the mapping itself.  *)
Question(node, g, corpus) ==
  [act |-> g.pending.sequence, capability |-> node,
   args |-> [f \in Bound[node] |-> Resolve(g, corpus)[f]]]

(* The arguments each tool function makes its effect of. *)
Used ==
  [read_documents        |-> {"documents"},
   write_internal_report |-> {"content"},
   send_external_email   |-> {"recipient", "body"},
   upload_external       |-> {"destination"}]

(* What the body does: the same shape, filled by the tool function. The read
   globs the corpus itself and ignores the arguments it was handed.          *)
Performed(node, g, corpus) ==
  [act |-> g.pending.sequence, capability |-> node,
   args |-> [f \in Used[node] |->
               IF node = "read_documents" THEN corpus ELSE Resolve(g, corpus)[f]]]

Questions ==
  UNION {[act : 1..MaxActs, capability : {node}, args : [Bound[node] -> Values]] :
           node \in Tools}

(* The tool's own "that is not a thing I can do". *)
ToolRefuses(node, g, corpus) ==
  LET args == Resolve(g, corpus)
  IN \/ node = "read_documents" /\ corpus = EmptyCorpus
     \/ node = "write_internal_report" /\ args.content = Nothing
     \/ node = "send_external_email" /\ args.recipient \in Malformed \cup {Nothing}
=============================================================================
