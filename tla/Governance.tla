----------------------------- MODULE Governance -----------------------------
(***************************************************************************)
(* Takes of the demonstration against one control plane.                   *)
(*                                                                         *)
(* A take is a process: its graph (a reasoning node and four governed      *)
(* nodes, one per tool), the governed-node wrapper that asks before a body *)
(* runs, and the driver that turns what comes back into a verdict, waits   *)
(* for a person and resumes. Takes share the control plane (policy,        *)
(* approvals, decisions), the outbox and the corpus directory; a person    *)
(* answers waits and the plane goes down and comes back at any time.       *)
(*                                                                         *)
(* The reasoning node is abstracted to what a turn may do to the members   *)
(* the acts are made of; module ReasonLoop is its exact model.             *)
(***************************************************************************)
EXTENDS Acts, FiniteSets

CONSTANTS
  Takes,        \* processes
  Reporters,    \* takes whose scenario stops at a suspension ("pending")
  Callers,      \* takes driven through GovernedRun by a program, not by main
  ApprovalRefs, \* bound: the approval references the plane may mint
  DecisionRefs, \* bound: the decision references the plane may mint
  Lapses        \* whether a wait's deadline may pass during the run

ASSUME TakesAssumption ==
  /\ Reporters \subseteq Takes
  /\ Callers \subseteq Takes
  /\ Nothing \notin ApprovalRefs \cup DecisionRefs
  /\ Lapses \in BOOLEAN

VARIABLES
  \* one value per take
  pc,       \* what the process is doing
  at,       \* the graph's next task: "reason", or the governed node
  g,        \* the graph state, as its in-memory checkpoint holds it
  result,   \* the verdict of the last invocation
  waitRef,  \* the approval reference that verdict names
  held,     \* the decision the open block runs under
  last,     \* the stamp's record: the last decision per capability
  \* shared
  waits,     \* the plane's approvals, by reference
  decisions, \* the decisions that allowed an act
  up,        \* whether the plane can be reached
  corpus,    \* the corpus directory
  effects    \* everything a body did, with the decision it ran under

take == <<pc, at, g, result, waitRef, held, last>>
plane == <<waits, decisions>>
vars == <<take, plane, up, corpus, effects>>

-----------------------------------------------------------------------------
Verdicts == {"completed", "denied", "rejected", "refused", "unobservable", "suspended"}
Uncaught == "uncaught"      \* an exception the driver lets through
NoResult == "none"

Phases ==
  {"running",   \* inside app.invoke, about to run the task named by "at"
   "body",      \* the boundary's block is open, the body has not acted
   "acted",     \* the body has acted, its result is not in the state yet
  "declined",  \* the same, and the tool refused the call
   "over",      \* the invocation returned a verdict (or raised)
   "waiting",   \* wait_for_a_person, about to read the wait
   "unanswered",\* the same, the read gave no answer; about to look at the clock
   "answered",  \* the read gave one; the take is about to resume
   "exited", "crashed"}

NoWait == [state |-> "unused", question |-> Nothing, opened_for |-> Nothing]
Wait ==
  [state : {"pending", "approved", "rejected", "spent", "lapsed"},
   question : Questions, opened_for : Questions]
Decision == [ref : DecisionRefs, question : Questions, wait : ApprovalRefs \cup {Nothing}]
Effect ==
  [take : Takes, under : DecisionRefs, stamp : DecisionRefs \cup {Nothing},
   done : Questions]

TypeOK ==
  /\ pc \in [Takes -> Phases]
  /\ at \in [Takes -> Tools \cup {"reason"}]
  /\ g \in [Takes -> GraphState]
  /\ result \in [Takes -> Verdicts \cup {Uncaught, NoResult}]
  /\ waitRef \in [Takes -> ApprovalRefs \cup {Nothing}]
  /\ held \in [Takes -> DecisionRefs \cup {Nothing}]
  /\ last \in [Takes -> [Tools -> DecisionRefs \cup {Nothing}]]
  /\ waits \in [ApprovalRefs -> Wait \cup {NoWait}]
  /\ decisions \subseteq Decision
  /\ up \in BOOLEAN
  /\ corpus \in Corpora
  /\ effects \subseteq Effect

Init ==
  /\ pc = [t \in Takes |-> "running"]
  /\ at = [t \in Takes |-> "reason"]
  /\ g = [t \in Takes |-> [pending |-> NoAct, sequence |-> 0,
                           draft |-> Nothing, reportText |-> Nothing]]
  /\ result = [t \in Takes |-> NoResult]
  /\ waitRef = [t \in Takes |-> Nothing]
  /\ held = [t \in Takes |-> Nothing]
  /\ last = [t \in Takes |-> [n \in Tools |-> Nothing]]
  /\ waits = [r \in ApprovalRefs |-> NoWait]
  /\ decisions = {}
  /\ up \in BOOLEAN
  /\ corpus \in Corpora
  /\ effects = {}

-----------------------------------------------------------------------------
(* The invocation is over: the driver has a verdict. *)
Over(t, verdict, ref) ==
  /\ pc' = [pc EXCEPT ![t] = "over"]
  /\ result' = [result EXCEPT ![t] = verdict]
  /\ waitRef' = [waitRef EXCEPT ![t] = ref]
  /\ held' = [held EXCEPT ![t] = Nothing]

(***************************************************************************)
(* The reasoning node.                                                     *)
(***************************************************************************)
(* The prose a turn may take as the draft: none once a report is saved. *)
DraftsAfter(state) ==
  {state.draft} \cup (IF state.reportText = Nothing THEN Texts ELSE {})

(* A turn that proposes a tool: one act, numbered by the run. *)
Propose(t) ==
  /\ pc[t] = "running" /\ at[t] = "reason"
  /\ g[t].sequence < MaxActs
  /\ \E tool \in Tools : \E target \in ArgumentOf(tool) :
     \E draft \in DraftsAfter(g[t]) :
       /\ g' = [g EXCEPT ![t] =
                  [pending |-> [tool |-> tool, target |-> target,
                                sequence |-> g[t].sequence + 1],
                   sequence |-> g[t].sequence + 1,
                   draft |-> draft, reportText |-> g[t].reportText]]
       /\ at' = [at EXCEPT ![t] = tool]
  /\ UNCHANGED <<pc, result, waitRef, held, last, plane, up, corpus, effects>>

(* A turn that proposes nothing; its prose may be taken all the same. *)
NothingPending(t) ==
  \E draft \in DraftsAfter(g[t]) :
    g' = [g EXCEPT ![t].pending = NoAct, ![t].draft = draft]

(* A turn the graph sends back to the reasoning node. *)
Correct(t) ==
  /\ pc[t] = "running" /\ at[t] = "reason"
  /\ NothingPending(t)
  /\ UNCHANGED <<pc, at, result, waitRef, held, last, plane, up, corpus, effects>>

(* A turn that ends the graph: nothing pending, nothing to correct. *)
Finish(t) ==
  /\ pc[t] = "running" /\ at[t] = "reason"
  /\ NothingPending(t)
  /\ Over(t, "completed", Nothing)
  /\ UNCHANGED <<at, last, plane, up, corpus, effects>>

(* The model's endpoint fails mid-run, or the framework's own step limit is
   reached, before whatever task is next but the one a resume starts again at:
   neither is an exception the driver names.                                 *)
ReasonRaises(t) ==
  /\ pc[t] = "running"
  /\ at[t] = "reason" \/ waitRef[t] = Nothing
  /\ Over(t, Uncaught, Nothing)
  /\ UNCHANGED <<at, g, last, plane, up, corpus, effects>>

(***************************************************************************)
(* The governed node, from its top: bind, ask, and then enter the body or  *)
(* not. The ask is one request; its answer may be lost after the plane     *)
(* gave it, which the client reports as an ask that could not be put.      *)
(***************************************************************************)
Asking(t) == pc[t] = "running" /\ at[t] # "reason" /\ g[t].pending # NoAct
TheQuestion(t) == Question(at[t], g[t], corpus)
OutcomeFor(t) == Policy[at[t]]

(* The wait the plane has open for the question, if any. *)
OpenStates == {"pending", "approved", "rejected"}
WaitsFor(q) == {r \in ApprovalRefs : waits[r].state \in OpenStates /\ waits[r].question = q}

FreshDecisions == {d \in DecisionRefs : \A x \in decisions : x.ref # d}
FreshWaits == {r \in ApprovalRefs : waits[r].state = "unused"}

CouldNotAsk(t) == Over(t, "unobservable", Nothing)

(* Slip: the stamp is recorded once per capability. *)
EnterStampedBefore(t, d) ==
  /\ pc' = [pc EXCEPT ![t] = "body"]
  /\ held' = [held EXCEPT ![t] = d]
  /\ last' = [last EXCEPT ![t][at[t]] = IF @ = Nothing THEN d ELSE @]
  /\ waitRef' = [waitRef EXCEPT ![t] = Nothing]
  /\ UNCHANGED result
(* Slip: the block is opened without a handle on what allowed it. *)
EnterUnauthorised(t, d) ==
  /\ pc' = [pc EXCEPT ![t] = "body"]
  /\ waitRef' = [waitRef EXCEPT ![t] = Nothing]
  /\ last' = [last EXCEPT ![t][at[t]] = d]
  /\ UNCHANGED <<result, held>>

(* Inside the block: the stamp is recorded before the body is entered, and
   what the take was waiting on has been answered.                           *)
Enter(t, d) ==
  /\ pc' = [pc EXCEPT ![t] = "body"]
  /\ held' = [held EXCEPT ![t] = d]
  /\ last' = [last EXCEPT ![t][at[t]] = d]
  /\ waitRef' = [waitRef EXCEPT ![t] = Nothing]
  /\ UNCHANGED result

Issue(d, q, r) == decisions' = decisions \cup {[ref |-> d, question |-> q, wait |-> r]}

(* The projection has nothing to name: a resume took the pending act away. *)
NothingToBind(t) ==
  /\ pc[t] = "running" /\ at[t] # "reason" /\ g[t].pending = NoAct
  /\ Over(t, Uncaught, Nothing)
  /\ UNCHANGED <<at, g, last, plane, up, corpus, effects>>

AskUnreachable(t) ==
  /\ Asking(t) /\ ~up
  /\ CouldNotAsk(t)
  /\ UNCHANGED <<at, g, last, plane, up, corpus, effects>>

AskRefused(t) ==
  /\ Asking(t) /\ up
  /\ Over(t, "refused", Nothing)
  /\ UNCHANGED <<at, g, last, plane, up, corpus, effects>>

AskAllowed(t) ==
  /\ Asking(t) /\ up /\ OutcomeFor(t) = "allow"
  /\ FreshDecisions # {}
  /\ LET d == CHOOSE x \in FreshDecisions : TRUE
     IN /\ Issue(d, TheQuestion(t), Nothing)
        /\ \/ Enter(t, d)
           \/ CouldNotAsk(t) /\ UNCHANGED last
  /\ UNCHANGED <<at, g, waits, up, corpus, effects>>

AskDenied(t) ==
  /\ Asking(t) /\ up /\ OutcomeFor(t) = "deny"
  /\ Over(t, "denied", Nothing) \/ CouldNotAsk(t)
  /\ UNCHANGED <<at, g, last, plane, up, corpus, effects>>

(* Slip: an answer the poll has read counts for the wait the re-ask opens. *)
AnswerIsEnough(t) ==
  /\ Asking(t) /\ up /\ OutcomeFor(t) = "suspend"
  /\ WaitsFor(TheQuestion(t)) = {}
  /\ FreshWaits # {}
  /\ LET r == CHOOSE x \in FreshWaits : TRUE
     IN /\ waits' = [waits EXCEPT ![r] =
                       [state |-> "pending", question |-> TheQuestion(t),
                        opened_for |-> Performed(at[t], g[t], corpus)]]
        /\ IF waitRef[t] # Nothing
           THEN \E d \in DecisionRefs : Enter(t, d)
           ELSE Over(t, "suspended", r) /\ UNCHANGED last
  /\ UNCHANGED <<at, g, decisions, up, corpus, effects>>
(* No wait is open for the question: the plane opens one. The boundary
   raises, and the wrapper interrupts the graph with the wait's reference.   *)
AskOpensWait(t) ==
  /\ Asking(t) /\ up /\ OutcomeFor(t) = "suspend"
  /\ WaitsFor(TheQuestion(t)) = {}
  /\ FreshWaits # {}
  /\ LET r == CHOOSE x \in FreshWaits : TRUE
     IN /\ waits' = [waits EXCEPT ![r] =
                       [state |-> "pending", question |-> TheQuestion(t),
                        opened_for |-> Performed(at[t], g[t], corpus)]]
        /\ Over(t, "suspended", r) \/ CouldNotAsk(t)
  /\ UNCHANGED <<at, g, last, decisions, up, corpus, effects>>

(* Slip: the wrapper reads the value a resume carries as an authorisation. *)
ResumeIsEnough(t) ==
  /\ Asking(t) /\ up /\ OutcomeFor(t) = "suspend"
  /\ \E r \in WaitsFor(TheQuestion(t)) :
       /\ waits[r].state = "pending"
       /\ IF waitRef[t] = r
          THEN \E d \in DecisionRefs : Enter(t, d)
          ELSE Over(t, "suspended", r) /\ UNCHANGED last
  /\ UNCHANGED <<at, g, plane, up, corpus, effects>>

AskFindsPending(t) ==
  /\ Asking(t) /\ up /\ OutcomeFor(t) = "suspend"
  /\ \E r \in WaitsFor(TheQuestion(t)) :
       /\ waits[r].state = "pending"
       /\ Over(t, "suspended", r) \/ CouldNotAsk(t)
  /\ UNCHANGED <<at, g, last, plane, up, corpus, effects>>

(* Slip: the approval that allowed the act stays open. *)
AskKeepsTheApproval(t) ==
  /\ Asking(t) /\ up /\ OutcomeFor(t) = "suspend"
  /\ FreshDecisions # {}
  /\ \E r \in WaitsFor(TheQuestion(t)) :
       LET d == CHOOSE x \in FreshDecisions : TRUE
       IN /\ waits[r].state = "approved"
          /\ Issue(d, TheQuestion(t), r)
          /\ Enter(t, d)
  /\ UNCHANGED <<at, g, waits, up, corpus, effects>>

AskFindsApproved(t) ==
  /\ Asking(t) /\ up /\ OutcomeFor(t) = "suspend"
  /\ FreshDecisions # {}
  /\ \E r \in WaitsFor(TheQuestion(t)) :
       LET d == CHOOSE x \in FreshDecisions : TRUE
       IN /\ waits[r].state = "approved"
          /\ waits' = [waits EXCEPT ![r].state = "spent"]
          /\ Issue(d, TheQuestion(t), r)
          /\ \/ Enter(t, d)
             \/ CouldNotAsk(t) /\ UNCHANGED last
  /\ UNCHANGED <<at, g, up, corpus, effects>>

AskFindsRejected(t) ==
  /\ Asking(t) /\ up /\ OutcomeFor(t) = "suspend"
  /\ \E r \in WaitsFor(TheQuestion(t)) :
       /\ waits[r].state = "rejected"
       /\ Over(t, "rejected", Nothing) \/ CouldNotAsk(t)
  /\ UNCHANGED <<at, g, last, plane, up, corpus, effects>>

(***************************************************************************)
(* The body, and its return into the graph state.                          *)
(***************************************************************************)
(* The external acts stamp their artefact with what the stamp's record     *)
(* holds for their capability; the others leave no stamp.                  *)
Stamp(t) ==
  IF at[t] \in {"send_external_email", "upload_external"} THEN last[t][at[t]] ELSE Nothing
Effects(t) ==
  IF ToolRefuses(at[t], g[t], corpus) THEN {}
  ELSE {[take |-> t, under |-> held[t], stamp |-> Stamp(t),
         done |-> Performed(at[t], g[t], corpus)]}

(* Slip: the block may run its body again. *)
ExecuteAgain(t) ==
  /\ pc[t] = "body"
  /\ effects' = effects \cup Effects(t)
  /\ UNCHANGED <<take, plane, up, corpus>>

Execute(t) ==
  /\ pc[t] = "body"
  /\ effects' = effects \cup Effects(t)
  /\ pc' = [pc EXCEPT ![t] = IF ToolRefuses(at[t], g[t], corpus) THEN "declined" ELSE "acted"]
  /\ UNCHANGED <<at, g, result, waitRef, held, last, plane, up, corpus>>

(* Slip: whatever a body raises is reported as an ask that could not be put. *)
BodyRaisesUnseen(t) ==
  /\ pc[t] = "body"
  /\ \E left \in {{}, Effects(t)} : effects' = effects \cup left
  /\ Over(t, "unobservable", Nothing)
  /\ UNCHANGED <<at, g, last, plane, up, corpus>>

(* The filesystem refuses the write, before or after the file exists. *)
BodyRaises(t) ==
  /\ pc[t] = "body"
  /\ \E left \in {{}, Effects(t)} : effects' = effects \cup left
  /\ Over(t, Uncaught, Nothing)
  /\ UNCHANGED <<at, g, last, plane, up, corpus>>

(* Slip: the saved text is not carried into the state. *)
ReturnForgetsTheReport(t) ==
  /\ pc[t] \in {"acted", "declined"}
  /\ g' = [g EXCEPT ![t].pending = NoAct]
  /\ pc' = [pc EXCEPT ![t] = "running"]
  /\ at' = [at EXCEPT ![t] = "reason"]
  /\ held' = [held EXCEPT ![t] = Nothing]
  /\ UNCHANGED <<result, waitRef, last, plane, up, corpus, effects>>

(* The outcome is recorded on the grant, the block closes, the node's update
   is merged into the state and the edge leads back to the reasoning node.   *)
Return(t) ==
  /\ pc[t] \in {"acted", "declined"}
  /\ g' = [g EXCEPT ![t].pending = NoAct,
                    ![t].reportText =
                      IF pc[t] = "acted" /\ g[t].pending.tool = "write_internal_report"
                      THEN g[t].draft ELSE @]
  /\ pc' = [pc EXCEPT ![t] = "running"]
  /\ at' = [at EXCEPT ![t] = "reason"]
  /\ held' = [held EXCEPT ![t] = Nothing]
  /\ UNCHANGED <<result, waitRef, last, plane, up, corpus, effects>>

(***************************************************************************)
(* The driver in main: report, wait for a person, resume, exit.            *)
(***************************************************************************)
Idle == <<at, g, last, plane, up, corpus, effects>>

(* Everything but a suspension somebody waits for ends the process. *)
Exit(t) ==
  /\ t \notin Callers /\ pc[t] = "over"
  /\ result[t] # "suspended" \/ t \in Reporters
  /\ pc' = [pc EXCEPT ![t] = "exited"]
  /\ UNCHANGED <<result, waitRef, held, Idle>>

StartWaiting(t) ==
  /\ t \notin Callers \cup Reporters /\ pc[t] = "over" /\ result[t] = "suspended"
  /\ pc' = [pc EXCEPT ![t] = "waiting"]
  /\ UNCHANGED <<result, waitRef, held, Idle>>

(* One read of the wait said something other than pending. What a read of a
   lapsed wait says is the plane's; either reading is allowed.               *)
Answered(t) ==
  /\ pc[t] = "waiting" /\ up
  /\ waits[waitRef[t]].state # "pending"
  /\ pc' = [pc EXCEPT ![t] = "answered"]
  /\ UNCHANGED <<result, waitRef, held, Idle>>

(* It said pending, or nothing came back: the plane is away, or the answer to
   the read was lost.                                                        *)
ReadsNothing(t) ==
  /\ pc[t] = "waiting"
  /\ pc' = [pc EXCEPT ![t] = "unanswered"]
  /\ UNCHANGED <<result, waitRef, held, Idle>>

(* Slip: no deadline on the poll. *)
GiveUpNever(t) ==
  /\ pc[t] = "unanswered" /\ waits[waitRef[t]].state = "lapsed"
  /\ pc' = [pc EXCEPT ![t] = "exited"]
  /\ UNCHANGED <<result, waitRef, held, Idle>>

(* The time to wait is over. Whatever the person did since that read is not
   looked at again.                                                          *)
GiveUp(t) ==
  /\ pc[t] = "unanswered"
  /\ pc' = [pc EXCEPT ![t] = "exited"]
  /\ UNCHANGED <<result, waitRef, held, Idle>>

PollAgain(t) ==
  /\ pc[t] = "unanswered"
  /\ pc' = [pc EXCEPT ![t] = "waiting"]
  /\ UNCHANGED <<result, waitRef, held, Idle>>

(* Slip: a resume counts as one more proposal. *)
ResumeRenumbers(t) ==
  /\ pc[t] = "answered" /\ g[t].sequence < MaxActs
  /\ pc' = [pc EXCEPT ![t] = "running"]
  /\ g' = [g EXCEPT ![t].sequence = @ + 1, ![t].pending.sequence = @ + 1]
  /\ UNCHANGED <<at, result, waitRef, held, last, plane, up, corpus, effects>>

(* Resuming re-executes the suspended node from its top. *)
Resume(t) ==
  /\ pc[t] = "answered"
  /\ pc' = [pc EXCEPT ![t] = "running"]
  /\ UNCHANGED <<result, waitRef, held, Idle>>

(* What a program that merges state into a run may leave it with: any value of
   any member, several at once, as long as a pending act has its tool's shape. *)
Mergeable ==
  {state \in GraphState :
     state.pending = NoAct \/ state.pending.target \in ArgumentOf(state.pending.tool)}

(* A program that holds a GovernedRun may resume it whatever came back, and
   may merge other state into it as it does.                                 *)
CallerResumes(t) ==
  /\ t \in Callers /\ pc[t] = "over" /\ result[t] # "completed"
  /\ \E state \in Mergeable \cup {g[t]} : g' = [g EXCEPT ![t] = state]
  /\ pc' = [pc EXCEPT ![t] = "running"]
  /\ UNCHANGED <<at, result, waitRef, held, last, plane, up, corpus, effects>>

(* The process dies. Its checkpoint was in memory and dies with it. *)
Crash(t) ==
  /\ pc[t] \notin {"exited", "crashed"}
  /\ pc' = [pc EXCEPT ![t] = "crashed"]
  /\ held' = [held EXCEPT ![t] = Nothing]
  /\ UNCHANGED <<result, waitRef, Idle>>

(***************************************************************************)
(* Around the takes: a person, the plane, the corpus directory.            *)
(***************************************************************************)
Around == <<take, up, corpus, decisions, effects>>

Approve(r) ==
  /\ up /\ waits[r].state = "pending"
  /\ waits' = [waits EXCEPT ![r].state = "approved"]
  /\ UNCHANGED Around

Reject(r) ==
  /\ up /\ waits[r].state = "pending"
  /\ waits' = [waits EXCEPT ![r].state = "rejected"]
  /\ UNCHANGED Around

Lapse(r) ==
  /\ Lapses /\ waits[r].state \in OpenStates
  /\ waits' = [waits EXCEPT ![r].state = "lapsed"]
  /\ UNCHANGED Around

PlaneGoesOrReturns == up' = ~up /\ UNCHANGED <<take, plane, corpus, effects>>

CorpusChanges ==
  /\ corpus' \in Corpora \ {corpus}
  /\ UNCHANGED <<take, plane, up, effects>>

-----------------------------------------------------------------------------
Ask(t) ==
  \/ NothingToBind(t)
  \/ AskUnreachable(t) \/ AskRefused(t)
  \/ AskAllowed(t) \/ AskDenied(t)
  \/ AskOpensWait(t) \/ AskFindsPending(t)
  \/ AskFindsApproved(t) \/ AskFindsRejected(t)

(* The steps the process takes by itself. *)
Step(t) ==
  \/ Propose(t) \/ Correct(t) \/ Finish(t) \/ ReasonRaises(t)
  \/ Ask(t)
  \/ Execute(t) \/ BodyRaises(t) \/ Return(t)
  \/ Exit(t) \/ StartWaiting(t)
  \/ Answered(t) \/ ReadsNothing(t) \/ GiveUp(t) \/ PollAgain(t) \/ Resume(t)

Environment ==
  \/ \E r \in ApprovalRefs : Approve(r) \/ Reject(r) \/ Lapse(r)
  \/ PlaneGoesOrReturns \/ CorpusChanges

Next ==
  \/ \E t \in Takes : Step(t) \/ CallerResumes(t) \/ Crash(t)
  \/ Environment

Spec == Init /\ [][Next]_vars

-----------------------------------------------------------------------------
(***************************************************************************)
(* Safety.                                                                 *)
(***************************************************************************)
EffectsOf(node) == {e \in effects : e.done.capability = node}
DecisionOf(e) == CHOOSE d \in decisions : d.ref = e.under
External == {"send_external_email", "upload_external"}

(* What a person approved is what was done: every message that left was sent
   under an approval, and is the act the wait was opened for, field by field,
   whatever state was merged into the graph between the ask and the act.     *)
ExecutedAsApproved ==
  \A e \in EffectsOf("send_external_email") :
    \E d \in decisions :
      /\ d.ref = e.under
      /\ d.wait # Nothing
      /\ waits[d.wait].opened_for = e.done

(* One person's act authorises one execution, however many takes ask the same
   question, resume, lose the answer or die.                                 *)
OneApprovalOneExecution ==
  \A e, f \in EffectsOf("send_external_email") :
    DecisionOf(e).wait = DecisionOf(f).wait => e = f

(* An artefact in the outbox names the decision it was written under, and no
   two artefacts share a name, so that none overwrites another.              *)
ArtefactNamesItsDecision ==
  \A e, f \in effects :
    e.done.capability \in External =>
      /\ e.stamp = e.under
      /\ f.stamp = e.stamp => f = e

(* A take of main that ends, or waits, on anything but a completed run has not
   performed the act it was asking about: "nothing ran" is true when printed. *)
NothingRan ==
  \A t \in Takes \ Callers :
    /\ pc[t] \in {"over", "waiting", "unanswered", "answered", "exited"}
    /\ result[t] \in Verdicts \ {"completed"}
    => \A e \in effects : e.take = t => e.done.act # g[t].pending.sequence

(* A resumed take asks what it asked before: between a suspension and the
   re-ask, nothing in the take's own path changes the question.              *)
ReaskIsTheSameAsk ==
  \A t \in Takes \ Callers :
    /\ pc[t] \in {"waiting", "unanswered", "answered", "running"} /\ waitRef[t] # Nothing
    => /\ at[t] # "reason"
       /\ TheQuestion(t) = waits[waitRef[t]].question

(* The external send delivers what the internal write recorded: once a take of
   main has saved a report, the body it sends is that report.                *)
SendDeliversTheSavedReport ==
  \A w \in EffectsOf("write_internal_report"), e \in EffectsOf("send_external_email") :
    /\ w.take = e.take /\ w.take \notin Callers /\ w.done.act < e.done.act
    => e.done.args["body"] = w.done.args["content"]

(* Resuming grants nothing: a body is entered only in the step in which the
   plane issues a decision for the question the node asks now, and for an act
   the policy suspends only by using up an approval.                         *)
EntersOnlyOnAFreshAnswer ==
  [][\A t \in Takes :
       pc[t] # "body" /\ pc'[t] = "body" =>
         \E d \in decisions' \ decisions :
           /\ d.ref = held'[t] /\ d.question = TheQuestion(t)
           /\ \/ OutcomeFor(t) = "allow"
              \/ /\ d.wait # Nothing
                 /\ waits[d.wait].state = "approved"
                 /\ waits'[d.wait].state = "spent"]_vars

(***************************************************************************)
(* The inductive invariant the safety theorems rest on.                    *)
(***************************************************************************)
(* What the plane issued: references are never reused, a wait pays for one
   decision about its own question, and a send is never allowed without one. *)
Grants ==
  /\ \A x, y \in decisions :
       x.ref = y.ref \/ (x.wait = y.wait /\ x.wait # Nothing) => x = y
  /\ \A x \in decisions :
       x.wait # Nothing =>
         waits[x.wait].state = "spent" /\ waits[x.wait].question = x.question
  /\ \A x \in decisions :
       x.question.capability = "send_external_email" => x.wait # Nothing
  /\ \A r \in ApprovalRefs :
       waits[r].state # "unused" => waits[r].opened_for = waits[r].question

(* An open block runs under a decision of its own, which no effect has used,
   about the question its node asks and, off the read, about its arguments.  *)
Covers(x, t) ==
  /\ x.ref = held[t]
  /\ x.question.capability = at[t]
  /\ at[t] # "read_documents" => x.question = TheQuestion(t)
Blocks ==
  /\ \A t \in Takes :
       pc[t] = "body" =>
         /\ at[t] \in Tools /\ g[t].pending # NoAct /\ last[t][at[t]] = held[t]
         /\ \E x \in decisions : Covers(x, t)
         /\ \A e \in effects : e.under # held[t]
  /\ \A t, u \in Takes :
       pc[t] = "body" /\ pc[u] = "body" /\ held[t] = held[u] => t = u

(* What was done, each act under a decision about it that nothing else used. *)
Ledger ==
  /\ \A e, f \in effects : e.under = f.under => e = f
  /\ \A e \in effects :
       /\ e.stamp = IF e.done.capability \in External THEN e.under ELSE Nothing
       /\ \E x \in decisions :
            /\ x.ref = e.under
            /\ x.question.capability = e.done.capability
            /\ e.done.capability # "read_documents" => x.question = e.done

GovernanceInv == TypeOK /\ Grants /\ Blocks /\ Ledger

(* Acts are numbered as they are proposed: what a take of main has done bears
   a number it has given out, and while the take is short of its body, or has
   ended there, not the number of the act at hand.                            *)
ShortOfTheBody(t) ==
  \/ pc[t] \in {"running", "body", "waiting", "unanswered", "answered"}
  \/ pc[t] \in {"over", "exited"} /\ result[t] \in Verdicts \ {"completed"}
Numbered(t) ==
  /\ g[t].pending = NoAct \/ g[t].pending.sequence = g[t].sequence
  /\ \A e \in effects :
       e.take = t =>
         /\ e.done.act \in 1..g[t].sequence
         /\ ShortOfTheBody(t) => e.done.act # g[t].pending.sequence
Numbering == \A t \in Takes \ Callers : Numbered(t)

(***************************************************************************)
(* Liveness, under the fairness of WholeTake.                              *)
(***************************************************************************)
(* Every take of main comes to an end, whatever the person and the plane do,
   or is made to ask about its acts again and again: a wait that lapses, or is
   spent, under the poll is asked about anew, and nothing in the driver bounds
   that. A take is not credited with an end the references' bound gives it.  *)
EveryTakeEnds ==
  \A t \in Takes \ Callers : <>(pc[t] \in {"exited", "crashed"} \/ FreshWaits = {})

(* An approval the poll has read is not left lying: it is used, unless the
   plane goes away, the take dies or the re-ask is refused. (One that is given
   after the last read, or while a read fails, may be.)                      *)
ApprovalReachesTheTake ==
  \A t \in Takes \ Callers, r \in ApprovalRefs :
    (pc[t] = "answered" /\ waitRef[t] = r /\ waits[r].state = "approved")
      ~> (waits[r].state # "approved" \/ ~up \/ pc[t] = "crashed" \/ result[t] = "refused")

(***************************************************************************)
(* Refinement: what the takes do to protected acts is what Authority       *)
(* promises. A read of the corpus leaves nothing behind and is not one.    *)
(***************************************************************************)
Protected == Tools \ {"read_documents"}

Promise ==
  INSTANCE Authority WITH
    Acts <- Questions,
    Outcome <- LAMBDA q : Policy[q.capability],
    Waits <- ApprovalRefs,
    Decisions <- DecisionRefs,
    NoWait <- Nothing,
    approved <- {[wait |-> r, act |-> waits[r].question] :
                   r \in {s \in ApprovalRefs : waits[s].state = "approved"}},
    issued <- {[ref |-> d.ref, act |-> d.question, wait |-> d.wait] : d \in decisions},
    performed <- {[under |-> e.under, act |-> e.done] :
                    e \in {f \in effects : f.done.capability \in Protected}}

(* The takes implement the promise. *)
KeepsThePromise == Promise!Spec

(***************************************************************************)
(* What the repository says and the code does not do.                      *)
(***************************************************************************)
(* "The SAME resolution the binding projection digested": what a body did is
   what the decision it ran under was asked about, reads included.           *)
DoneAsDecided ==
  \A e \in effects : \E d \in decisions : d.ref = e.under /\ d.question = e.done
=============================================================================
