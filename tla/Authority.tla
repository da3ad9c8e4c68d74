------------------------------ MODULE Authority ------------------------------
(***************************************************************************)
(* What the demonstration promises about protected acts, and nothing of    *)
(* how: an act is performed only under a decision that allowed exactly     *)
(* that act, each decision covers one performance and at most one, and a   *)
(* decision about an act the policy suspends is issued from one person's   *)
(* approval of that act, which it uses up.                                 *)
(*                                                                         *)
(* An approval may be withdrawn before it is used (the wait's deadline     *)
(* passes) and a decision may never be used at all (the answer is lost,    *)
(* the process dies): exactly-once is not promised.                        *)
(***************************************************************************)
CONSTANTS
  Acts,                   \* the protected acts
  Outcome(_),             \* the policy's outcome for an act
  Waits, Decisions,       \* approval references and decision references
  NoWait                  \* the wait of a decision the policy made by itself

VARIABLES
  approved,   \* approvals a person gave and nothing has used: [wait, act]
  issued,     \* decisions that allowed an act: [ref, act, wait]
  performed   \* acts performed, each under a decision: [under, act]

vars == <<approved, issued, performed>>

Init ==
  /\ approved = {}
  /\ issued = {}
  /\ performed = {}

Approve(w, a) ==
  /\ Outcome(a) = "suspend"
  /\ \A p \in approved : p.wait # w
  /\ \A d \in issued : d.wait # w
  /\ approved' = approved \cup {[wait |-> w, act |-> a]}
  /\ UNCHANGED <<issued, performed>>

Withdraw(p) ==
  /\ approved' = approved \ {p}
  /\ UNCHANGED <<issued, performed>>

IssueByPolicy(d, a) ==
  /\ Outcome(a) = "allow"
  /\ \A i \in issued : i.ref # d
  /\ issued' = issued \cup {[ref |-> d, act |-> a, wait |-> NoWait]}
  /\ UNCHANGED <<approved, performed>>

IssueByApproval(d, p) ==
  /\ \A i \in issued : i.ref # d
  /\ issued' = issued \cup {[ref |-> d, act |-> p.act, wait |-> p.wait]}
  /\ approved' = approved \ {p}
  /\ UNCHANGED performed

Perform(i) ==
  /\ \A e \in performed : e.under # i.ref
  /\ performed' = performed \cup {[under |-> i.ref, act |-> i.act]}
  /\ UNCHANGED <<approved, issued>>

Next ==
  \/ \E w \in Waits, a \in Acts : Approve(w, a)
  \/ \E p \in approved : Withdraw(p)
  \/ \E d \in Decisions, a \in Acts : IssueByPolicy(d, a)
  \/ \E d \in Decisions, p \in approved : IssueByApproval(d, p)
  \/ \E i \in issued : Perform(i)

Spec == Init /\ [][Next]_vars
=============================================================================
