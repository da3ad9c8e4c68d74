----------------------------- MODULE ReasonLoop -----------------------------
(***************************************************************************)
(* The reasoning node of one run, and the validation loop around it: what  *)
(* a turn makes of a reply, where the graph goes next, and which prose     *)
(* becomes the report. Governance abstracts all of it to "a turn may       *)
(* propose an act or end the run"; here the governed nodes are abstracted  *)
(* instead, to a return or to the end of the run.                          *)
(*                                                                         *)
(* A reply is a tool call or none, with long prose or not. Prose is told   *)
(* apart by one thing only: whether it answers the request to write the    *)
(* report, the last message the model was shown, or is said in passing.    *)
(***************************************************************************)
EXTENDS Naturals, Sequences

CONSTANTS
  Required,   \* the acts the scenario asks for, in order
  MaxNudges,  \* MAX_NUDGES
  MaxCalls    \* bound: how many tool calls the model makes in a run

Tools ==
  {"read_documents", "write_internal_report", "send_external_email", "upload_external"}

ASSUME ReasonLoopAssumption ==
  /\ Required \in Seq(Tools)
  /\ MaxNudges \in Nat
  /\ MaxCalls \in Nat

VARIABLES
  at,              \* the graph's next task, or how the run ended
  nudge, nudges,   \* the state's own members
  draft, draft_requested, report_text,
  attempted,       \* the known tools named in the transcript
  asked,           \* the transcript ends with the request for the report
  sentBack,        \* how often the graph led the reasoning node back to itself
  calls            \* tool calls made, of any name

vars == <<at, nudge, nudges, draft, draft_requested, report_text, attempted,
          asked, sentBack, calls>>

-----------------------------------------------------------------------------
None == "none"
Prose == {"report", "remark"}
Ends ==
  {"answered",  \* END, by a final answer
   "ended",     \* END, by a turn that proposed nothing
   "left"}      \* an exception, or a verdict a resume does not follow

TypeOK ==
  /\ at \in Tools \cup Ends \cup {"reason"}
  /\ nudge \in BOOLEAN /\ nudges \in 0..MaxNudges
  /\ draft \in Prose \cup {None} /\ report_text \in Prose \cup {None}
  /\ draft_requested \in BOOLEAN /\ asked \in BOOLEAN
  /\ attempted \subseteq Tools
  /\ sentBack \in Nat /\ calls \in 0..MaxCalls

Init ==
  /\ at = "reason"
  /\ nudge = FALSE /\ nudges = 0
  /\ draft = None /\ report_text = None
  /\ draft_requested = FALSE /\ asked = FALSE
  /\ attempted = {}
  /\ sentBack = 0 /\ calls = 0

-----------------------------------------------------------------------------
(* Positions of the acts that are still outstanding, and the first of them. *)
Missing == {i \in 1..Len(Required) : Required[i] \notin attempted}
FirstMissing == CHOOSE i \in Missing : \A j \in Missing : i <= j

(* Slip: long prose is a draft whenever the model writes it. *)
AnsweringAlways == TRUE
(* The prose of a reply is taken as the draft if it is long and a request for
   the report is open.                                                       *)
Answering == draft_requested /\ report_text = None
Taken(long) == long /\ Answering
TakeDraft(long) ==
  draft' = IF Taken(long) THEN IF asked THEN "report" ELSE "remark" ELSE draft

(* The edge out of the reasoning node when nothing is pending. *)
RouteWithoutAct(nudged, end) == IF nudged THEN "reason" ELSE end

(* Slip: the report is requested as soon as a write is outstanding at all. *)
AskingTooEarly ==
  draft' = None /\ \E i \in Missing : Required[i] = "write_internal_report"
(* Asking for the report: the write is next and there is no prose to save. *)
AskingForDraft == Required[FirstMissing] = "write_internal_report" /\ draft' = None

(* Slip: one correction too many. *)
CorrectOnceMore(long) ==
  /\ at = "reason"
  /\ Missing # {} /\ nudges <= MaxNudges
  /\ TakeDraft(long)
  /\ nudge' = TRUE /\ nudges' = nudges + 1
  /\ draft_requested' = AskingForDraft /\ asked' = AskingForDraft
  /\ at' = RouteWithoutAct(TRUE, "ended") /\ sentBack' = sentBack + 1
  /\ UNCHANGED <<report_text, attempted, calls>>
(* Slip: corrections are not counted. *)
CorrectForever(long) ==
  /\ at = "reason"
  /\ Missing # {}
  /\ TakeDraft(long)
  /\ nudge' = TRUE
  /\ draft_requested' = AskingForDraft /\ asked' = AskingForDraft
  /\ at' = RouteWithoutAct(TRUE, "ended")
  /\ UNCHANGED <<nudges, report_text, attempted, sentBack, calls>>
(* The reply calls no tool, and a required act was never attempted. *)
Correct(long) ==
  /\ at = "reason"
  /\ Missing # {} /\ nudges < MaxNudges
  /\ TakeDraft(long)
  /\ nudge' = TRUE /\ nudges' = nudges + 1
  /\ draft_requested' = AskingForDraft /\ asked' = AskingForDraft
  /\ at' = RouteWithoutAct(TRUE, "ended") /\ sentBack' = sentBack + 1
  /\ UNCHANGED <<report_text, attempted, calls>>

(* Slip: the last correction is never made. *)
AnswerTooSoon(long) ==
  /\ at = "reason"
  /\ Missing = {} \/ nudges + 1 >= MaxNudges
  /\ TakeDraft(long)
  /\ draft_requested' = (draft_requested /\ ~Taken(long))
  /\ nudge' = FALSE /\ asked' = FALSE
  /\ at' = RouteWithoutAct(FALSE, "answered")
  /\ UNCHANGED <<nudges, report_text, attempted, sentBack, calls>>
(* The reply calls no tool, and there is nothing to correct, or no correction
   left.                                                                     *)
Answer(long) ==
  /\ at = "reason"
  /\ Missing = {} \/ nudges >= MaxNudges
  /\ TakeDraft(long)
  /\ draft_requested' = (draft_requested /\ ~Taken(long))
  /\ nudge' = FALSE /\ asked' = FALSE
  /\ at' = RouteWithoutAct(FALSE, "answered")
  /\ UNCHANGED <<nudges, report_text, attempted, sentBack, calls>>

(* The reply calls a tool that does not exist: its prose is dropped, the call
   is answered in the transcript, and no member of the state is written.     *)
CallUnknown ==
  /\ at = "reason" /\ calls < MaxCalls
  /\ calls' = calls + 1 /\ asked' = FALSE
  /\ at' = RouteWithoutAct(nudge, "ended")
  /\ sentBack' = IF nudge THEN sentBack + 1 ELSE sentBack
  /\ UNCHANGED <<nudge, nudges, draft, draft_requested, report_text, attempted>>

(* Slip: prose that rides on a tool call is taken and the request left open. *)
CallToolKeepsTheRequest(tool, long) ==
  /\ at = "reason" /\ calls < MaxCalls
  /\ TakeDraft(long)
  /\ attempted' = attempted \cup {tool}
  /\ nudge' = FALSE /\ asked' = FALSE /\ calls' = calls + 1
  /\ at' = tool
  /\ UNCHANGED <<nudges, draft_requested, report_text, sentBack>>
(* The reply calls a tool: its first call is the pending act. *)
CallTool(tool, long) ==
  /\ at = "reason" /\ calls < MaxCalls
  /\ TakeDraft(long)
  /\ draft_requested' = (draft_requested /\ ~Taken(long))
  /\ attempted' = attempted \cup {tool}
  /\ nudge' = FALSE /\ asked' = FALSE /\ calls' = calls + 1
  /\ at' = tool
  /\ UNCHANGED <<nudges, report_text, sentBack>>

(* The governed node returns: the act was executed, or its tool refused it.
   The write has no content to save without a draft, and refuses.            *)
ToolReturns(executed) ==
  /\ at \in Tools
  /\ at = "write_internal_report" /\ draft = None => ~executed
  /\ report_text' = IF executed /\ at = "write_internal_report" THEN draft ELSE report_text
  /\ at' = "reason" /\ asked' = FALSE
  /\ UNCHANGED <<nudge, nudges, draft, draft_requested, attempted, sentBack, calls>>

(* The run ends inside a node: no answer, a refusal, an exception. *)
Leave ==
  /\ at \in Tools \cup {"reason"}
  /\ at' = "left"
  /\ UNCHANGED <<nudge, nudges, draft, draft_requested, report_text, attempted,
                 asked, sentBack, calls>>

(* The run goes on: a turn of the model, or the return of a governed node. *)
Proceed ==
  \/ \E long \in BOOLEAN : Correct(long) \/ Answer(long)
  \/ \E tool \in Tools, long \in BOOLEAN : CallTool(tool, long)
  \/ CallUnknown
  \/ \E executed \in BOOLEAN : ToolReturns(executed)

Next == Proceed \/ Leave

Spec == Init /\ [][Next]_vars

(* A turn waits for a model with a timeout, a governed node for an answer with
   a timeout: a run that can go on does. It never has to leave.              *)
FairSpec == Spec /\ WF_vars(Proceed)

-----------------------------------------------------------------------------
(* The report is requested in its window: every act the scenario wants before
   the write has been attempted, and nothing is drafted or saved yet.        *)
RequestedInItsWindow ==
  draft_requested =>
    /\ draft = None /\ report_text = None
    /\ \E i \in 1..Len(Required) :
         /\ Required[i] = "write_internal_report"
         /\ \A j \in 1..(i - 1) : Required[j] \in attempted

(* The draft is written once: whatever the model goes on saying, the text that
   was taken as the report is the one that is asked about, saved and sent.   *)
DraftIsWrittenOnce == [][draft # None => draft' = draft]_vars

(* What was saved is what a later act reads as the draft. *)
SavedReportIsTheDraft == report_text # None => report_text = draft

(* A model that was let off with work it never attempted has really been sent
   round MAX_NUDGES times: no correction was counted and not made.           *)
UnfinishedWasCorrected ==
  at = "answered" /\ Missing # {} => nudges = MaxNudges /\ sentBack >= MaxNudges

(* A model that stops calling tools ends the run, whatever it says. *)
RunEnds == <>(at \in Ends)

-----------------------------------------------------------------------------
(* What the repository says and the code does not do. *)

(* "Only the prose that ANSWERS that request is taken as the report." *)
ReportAnswersTheRequest == report_text # "remark"
=============================================================================
