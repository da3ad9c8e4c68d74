----------------------------- MODULE WholeTake -----------------------------
(***************************************************************************)
(* Takes with their reasoning node in full. Governance lets a turn do      *)
(* whatever a turn may do to an act; ReasonLoop lets a governed node do    *)
(* whatever it may do to the next turn. Here the validation loop runs      *)
(* inside the takes of main: seen from the plane they are the takes of     *)
(* Governance, and seen from its node each is a run of ReasonLoop.         *)
(*                                                                         *)
(* A program that drives a run by itself may merge any member into it; its *)
(* takes are those of Governance.                                          *)
(***************************************************************************)
EXTENDS Governance, Sequences

CONSTANTS
  Required, MaxNudges, MaxCalls   \* as in ReasonLoop

ASSUME WholeAssumption ==
  /\ Required \in Seq(Tools)
  /\ MaxNudges \in Nat
  /\ MaxCalls \in Nat

VARIABLE
  loop   \* per take, what its reasoning node goes by beside the acts' members

wholeVars == <<vars, loop>>

-----------------------------------------------------------------------------
(* "drafted" tells what the prose in the draft answered, and "over" how the
   last turn ended the graph: neither is kept by the code.                   *)
Loop ==
  [nudge : BOOLEAN, nudges : 0..MaxNudges, draft_requested : BOOLEAN,
   attempted : SUBSET Tools, asked : BOOLEAN, sentBack : Nat, calls : 0..MaxCalls,
   drafted : {"report", "remark", "none"}, over : {"answered", "ended", "none"}]

WholeInit ==
  /\ Init
  /\ loop = [t \in Takes |->
               [nudge |-> FALSE, nudges |-> 0, draft_requested |-> FALSE,
                attempted |-> {}, asked |-> FALSE, sentBack |-> 0, calls |-> 0,
                drafted |-> "none", over |-> "none"]]

-----------------------------------------------------------------------------
(* Required acts that the transcript does not name, and the first of them. *)
Missing(t) == {i \in 1..Len(Required) : Required[i] \notin loop[t].attempted}
FirstMissing(t) == CHOOSE i \in Missing(t) : \A j \in Missing(t) : i <= j

(* Slip: whatever long prose the model writes before a report is saved is the
   draft.                                                                    *)
TakenUnasked(t, prose) == prose # Nothing /\ g[t].reportText = Nothing
(* The long prose of a reply, if it has any, answers an open request. *)
Taken(t, prose) ==
  prose # Nothing /\ loop[t].draft_requested /\ g[t].reportText = Nothing
DraftOf(t, prose) == IF Taken(t, prose) THEN prose ELSE g[t].draft

(* Slip: the report is asked for whatever else is outstanding. *)
AsksAtOnce(t, prose) == DraftOf(t, prose) = Nothing
(* The correction asks for the report: the write is next and there is no draft. *)
Asks(t, prose) ==
  Required[FirstMissing(t)] = "write_internal_report" /\ DraftOf(t, prose) = Nothing

(* What any reply does to the node's own members. *)
AfterReply(t, prose) ==
  [loop[t] EXCEPT
     !.nudge = FALSE, !.asked = FALSE,
     !.draft_requested = @ /\ ~Taken(t, prose),
     !.drafted = IF Taken(t, prose) THEN IF loop[t].asked THEN "report" ELSE "remark" ELSE @]

AtReason(t) == t \notin Callers /\ pc[t] = "running" /\ at[t] = "reason"

(* The reply calls a tool. *)
TurnProposes(t) ==
  /\ AtReason(t) /\ loop[t].calls < MaxCalls /\ g[t].sequence < MaxActs
  /\ \E tool \in Tools, prose \in Texts \cup {Nothing} : \E target \in ArgumentOf(tool) :
       /\ g' = [g EXCEPT ![t] =
                  [pending |-> [tool |-> tool, target |-> target,
                                sequence |-> g[t].sequence + 1],
                   sequence |-> g[t].sequence + 1,
                   draft |-> DraftOf(t, prose), reportText |-> g[t].reportText]]
       /\ at' = [at EXCEPT ![t] = tool]
       /\ loop' = [loop EXCEPT ![t] =
                     [AfterReply(t, prose) EXCEPT !.attempted = @ \cup {tool}, !.calls = @ + 1]]
  /\ UNCHANGED <<pc, result, waitRef, held, last, plane, up, corpus, effects>>

(* Slip: the correction is not counted. *)
TurnCorrectedAgain(t) ==
  /\ AtReason(t) /\ Missing(t) # {}
  /\ \E prose \in Texts \cup {Nothing} :
       /\ g' = [g EXCEPT ![t].pending = NoAct, ![t].draft = DraftOf(t, prose)]
       /\ loop' = [loop EXCEPT ![t] =
                     [AfterReply(t, prose) EXCEPT
                        !.nudge = TRUE, !.draft_requested = Asks(t, prose), !.asked = Asks(t, prose)]]
  /\ UNCHANGED <<pc, at, result, waitRef, held, last, plane, up, corpus, effects>>
(* It calls none, and a required act was never attempted. *)
TurnCorrected(t) ==
  /\ AtReason(t) /\ Missing(t) # {} /\ loop[t].nudges < MaxNudges
  /\ \E prose \in Texts \cup {Nothing} :
       /\ g' = [g EXCEPT ![t].pending = NoAct, ![t].draft = DraftOf(t, prose)]
       /\ loop' = [loop EXCEPT ![t] =
                     [AfterReply(t, prose) EXCEPT
                        !.nudge = TRUE, !.nudges = @ + 1, !.sentBack = @ + 1,
                        !.draft_requested = Asks(t, prose), !.asked = Asks(t, prose)]]
  /\ UNCHANGED <<pc, at, result, waitRef, held, last, plane, up, corpus, effects>>

(* It calls none, and there is nothing to correct or no correction left. *)
TurnAnswers(t) ==
  /\ AtReason(t) /\ (Missing(t) = {} \/ loop[t].nudges >= MaxNudges)
  /\ \E prose \in Texts \cup {Nothing} :
       /\ g' = [g EXCEPT ![t].pending = NoAct, ![t].draft = DraftOf(t, prose)]
       /\ loop' = [loop EXCEPT ![t] = [AfterReply(t, prose) EXCEPT !.over = "answered"]]
  /\ Over(t, "completed", Nothing)
  /\ UNCHANGED <<at, last, plane, up, corpus, effects>>

(* It calls a tool that does not exist: only the transcript is written. *)
TurnCallsUnknown(t) ==
  /\ AtReason(t) /\ loop[t].calls < MaxCalls
  /\ g' = [g EXCEPT ![t].pending = NoAct]
  /\ IF loop[t].nudge
     THEN /\ loop' = [loop EXCEPT ![t].calls = @ + 1, ![t].asked = FALSE, ![t].sentBack = @ + 1]
          /\ UNCHANGED <<pc, result, waitRef, held>>
     ELSE /\ loop' = [loop EXCEPT ![t].calls = @ + 1, ![t].asked = FALSE, ![t].over = "ended"]
          /\ Over(t, "completed", Nothing)
  /\ UNCHANGED <<at, last, plane, up, corpus, effects>>

Turn(t) == TurnProposes(t) \/ TurnCorrected(t) \/ TurnAnswers(t) \/ TurnCallsUnknown(t)

(* Everything a process does between its turns. *)
Onward(t) ==
  /\ \/ ReasonRaises(t) \/ Ask(t) \/ Execute(t) \/ BodyRaises(t) \/ Return(t)
     \/ Exit(t) \/ StartWaiting(t)
     \/ Answered(t) \/ ReadsNothing(t) \/ GiveUp(t) \/ PollAgain(t) \/ Resume(t)
     \/ t \in Callers /\ Step(t)
  /\ UNCHANGED loop

WholeNext ==
  \/ \E t \in Takes : Turn(t) \/ Onward(t)
  \/ (\E t \in Takes : CallerResumes(t) \/ Crash(t)) /\ UNCHANGED loop
  \/ Environment /\ UNCHANGED loop

WholeSpec == WholeInit /\ [][WholeNext]_wholeVars

(* A process that is not killed keeps running: every wait of the code has a
   timeout (the model's answer, the ask, one read of the poll). The deadline of
   the poll is on a clock that goes on, so a take that comes to look at it again
   and again finds it passed. Nobody has to answer a wait, and nothing has to
   crash, lapse, go away or come back.                                       *)
WholeFairSpec ==
  /\ WholeSpec
  /\ \A t \in Takes :
       /\ WF_wholeVars(Turn(t) \/ Onward(t))
       /\ SF_wholeVars(GiveUp(t) /\ UNCHANGED loop)

-----------------------------------------------------------------------------
(* A take as its own reasoning node sees it: where the graph stands, or how it
   left; and of every text, only what it answered.                           *)
NodeAt(t) ==
  IF result[t] = "completed" THEN loop[t].over
  ELSE IF \/ pc[t] \in {"exited", "crashed"}
          \/ pc[t] = "over" /\ result[t] # "suspended"
       THEN "left"
       ELSE at[t]
Said(t, text) == IF text = Nothing THEN "none" ELSE loop[t].drafted

Node(t) ==
  INSTANCE ReasonLoop WITH
    at <- NodeAt(t),
    nudge <- loop[t].nudge, nudges <- loop[t].nudges,
    draft <- Said(t, g[t].draft), report_text <- Said(t, g[t].reportText),
    draft_requested <- loop[t].draft_requested,
    attempted <- loop[t].attempted, asked <- loop[t].asked,
    sentBack <- loop[t].sentBack, calls <- loop[t].calls

(* What goes on around a take's reasoning node, whatever the plane, people and
   other takes do, is what the loop was specified against: Node(t)!Spec of each
   take of main, its steps taken together.                                   *)
RunsTheLoop ==
  /\ \A t \in Takes \ Callers : Node(t)!Init
  /\ [][\A t \in Takes \ Callers : [Node(t)!Next]_(Node(t)!vars)]_wholeVars

(* One report: every text a take of main saves or sends is the same text. Prose
   the model wrote before, between or after is never asked about nor let out. *)
TextOf(e) ==
  IF e.done.capability = "write_internal_report" THEN e.done.args["content"]
  ELSE e.done.args["body"]
Carriers(t) ==
  {e \in EffectsOf("write_internal_report") \cup EffectsOf("send_external_email") :
     e.take = t /\ TextOf(e) # Nothing}
OneReport ==
  \A t \in Takes \ Callers : \A e, f \in Carriers(t) : TextOf(e) = TextOf(f)

(* No text is saved or leaves before the work it reports on: everything the
   scenario lists ahead of some write was attempted by then.                 *)
WorkComesFirst(t) ==
  \E i \in 1..Len(Required) :
    /\ Required[i] = "write_internal_report"
    /\ \A j \in 1..(i - 1) : Required[j] \in loop[t].attempted
ReportFollowsTheWork ==
  \A t \in Takes \ Callers : Carriers(t) # {} => WorkComesFirst(t)
=============================================================================
