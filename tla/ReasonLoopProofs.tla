-------------------------- MODULE ReasonLoopProofs --------------------------
(***************************************************************************)
(* Theorems about ReasonLoop, for every task, every number of corrections  *)
(* and every number of tool calls.                                         *)
(***************************************************************************)
EXTENDS ReasonLoop, WellFoundedInduction, TLAPS

-----------------------------------------------------------------------------
(* The strengthening: a request is open only before there is a draft, and a
   saved report is the draft. The guard on the saved report in Answering is
   therefore never what decides.                                             *)
DraftInv ==
  /\ TypeOK
  /\ draft_requested => draft = None
  /\ report_text # None => report_text = draft

(* One turn's prose, and what it does to the request. *)
LEMMA TurnKeepsTheDraft ==
  ASSUME DraftInv, NEW long \in BOOLEAN, TakeDraft(long)
  PROVE  /\ draft' \in Prose \cup {None}
         /\ draft # None => draft' = draft
         /\ Taken(long) => draft' # None
         /\ draft' # draft => Taken(long)
<1>1. Taken(long) => draft_requested /\ draft = None
  BY DEF Taken, Answering, DraftInv
<1>2. QED
  BY <1>1 DEF TakeDraft, DraftInv, TypeOK, Prose, None

LEMMA DraftInvStays == DraftInv /\ [Next]_vars => DraftInv' /\ (draft # None => draft' = draft)
<1> SUFFICES ASSUME DraftInv, [Next]_vars
             PROVE  DraftInv' /\ (draft # None => draft' = draft)
  OBVIOUS
<1>1. TypeOK
  BY DEF DraftInv
<1>2. ASSUME NEW long \in BOOLEAN, Correct(long)
      PROVE  DraftInv' /\ (draft # None => draft' = draft)
  <2>1. TakeDraft(long)
    BY <1>2 DEF Correct
  <2>2. draft' \in Prose \cup {None} /\ (draft # None => draft' = draft)
    BY <2>1, TurnKeepsTheDraft
  <2>3. draft_requested' \in BOOLEAN /\ asked' \in BOOLEAN /\ (draft_requested' => draft' = None)
    BY <1>2 DEF Correct, AskingForDraft
  <2>4. nudges' \in 0..MaxNudges
    BY <1>1, <1>2, ReasonLoopAssumption DEF Correct, TypeOK
  <2>5. TypeOK'
    BY <1>1, <1>2, <2>2, <2>3, <2>4 DEF Correct, RouteWithoutAct, TypeOK
  <2>6. report_text' # None => report_text' = draft'
    BY <1>2, <2>2 DEF Correct, DraftInv
  <2>7. QED
    BY <2>2, <2>3, <2>5, <2>6 DEF DraftInv
<1>3. ASSUME NEW long \in BOOLEAN, Answer(long)
      PROVE  DraftInv' /\ (draft # None => draft' = draft)
  <2>1. TakeDraft(long)
    BY <1>3 DEF Answer
  <2>2. /\ draft' \in Prose \cup {None} /\ (draft # None => draft' = draft)
        /\ draft' # draft => Taken(long)
    BY <2>1, TurnKeepsTheDraft
  <2>3. draft_requested' \in BOOLEAN /\ (draft_requested' => draft' = None)
    BY <1>1, <1>3, <2>2 DEF Answer, DraftInv
  <2>4. TypeOK'
    BY <1>1, <1>3, <2>2, <2>3 DEF Answer, RouteWithoutAct, TypeOK, Ends
  <2>5. report_text' # None => report_text' = draft'
    BY <1>3, <2>2 DEF Answer, DraftInv
  <2>6. QED
    BY <2>2, <2>3, <2>4, <2>5 DEF DraftInv
<1>4. ASSUME NEW tool \in Tools, NEW long \in BOOLEAN, CallTool(tool, long)
      PROVE  DraftInv' /\ (draft # None => draft' = draft)
  <2>1. TakeDraft(long)
    BY <1>4 DEF CallTool
  <2>2. /\ draft' \in Prose \cup {None} /\ (draft # None => draft' = draft)
        /\ draft' # draft => Taken(long)
    BY <2>1, TurnKeepsTheDraft
  <2>3. draft_requested' \in BOOLEAN /\ (draft_requested' => draft' = None)
    BY <1>1, <1>4, <2>2 DEF CallTool, DraftInv
  <2>4. calls' \in 0..MaxCalls
    BY <1>1, <1>4, ReasonLoopAssumption DEF CallTool, TypeOK
  <2>5. TypeOK'
    BY <1>1, <1>4, <2>2, <2>3, <2>4 DEF CallTool, TypeOK
  <2>6. report_text' # None => report_text' = draft'
    BY <1>4, <2>2 DEF CallTool, DraftInv
  <2>7. QED
    BY <2>2, <2>3, <2>5, <2>6 DEF DraftInv
<1>5. CASE CallUnknown
  <2>1. calls' \in 0..MaxCalls
    BY <1>1, <1>5, ReasonLoopAssumption DEF CallUnknown, TypeOK
  <2>2. at' \in Tools \cup Ends \cup {"reason"} /\ sentBack' \in Nat
    BY <1>1, <1>5 DEF CallUnknown, RouteWithoutAct, TypeOK, Ends
  <2>3. UNCHANGED <<nudge, nudges, draft, draft_requested, report_text, attempted>>
    BY <1>5 DEF CallUnknown
  <2>4. asked' \in BOOLEAN
    BY <1>5 DEF CallUnknown
  <2>5. QED
    BY <2>1, <2>2, <2>3, <2>4 DEF DraftInv, TypeOK
<1>6. ASSUME NEW executed \in BOOLEAN, ToolReturns(executed)
      PROVE  DraftInv' /\ (draft # None => draft' = draft)
  BY <1>6 DEF ToolReturns, DraftInv, TypeOK
<1>7. CASE Leave
  BY <1>7 DEF Leave, DraftInv, TypeOK, Ends
<1>8. CASE UNCHANGED vars
  BY <1>8 DEF vars, DraftInv, TypeOK
<1>9. QED
  BY <1>2, <1>3, <1>4, <1>5, <1>6, <1>7, <1>8 DEF Next, Proceed

LEMMA DraftInvStarts == Init => DraftInv
<1>1. 0 \in 0..MaxNudges /\ 0 \in 0..MaxCalls /\ 0 \in Nat
  BY ReasonLoopAssumption
<1>2. QED
  BY <1>1 DEF Init, DraftInv, TypeOK

(* What was saved is what a later act reads as the draft. *)
THEOREM SavedIsDraft == Spec => []SavedReportIsTheDraft
<1>1. DraftInv /\ [Next]_vars => DraftInv'
  BY DraftInvStays
<1>2. DraftInv => SavedReportIsTheDraft
  BY DEF DraftInv, SavedReportIsTheDraft
<1>3. QED
  BY <1>1, <1>2, DraftInvStarts, PTL DEF Spec

(* The text taken as the report is never replaced by another. *)
THEOREM DraftNeverChanges == Spec => DraftIsWrittenOnce
<1>1. DraftInv /\ [Next]_vars => DraftInv'
  BY DraftInvStays
<1>2. DraftInv /\ [Next]_vars => [draft # None => draft' = draft]_vars
  BY DraftInvStays
<1>3. QED
  BY <1>1, <1>2, DraftInvStarts, PTL DEF Spec, DraftIsWrittenOnce

(* A model that was let off with work outstanding was really sent round. *)
THEOREM UnfinishedAnswersWereCorrected == Spec => []UnfinishedWasCorrected
<1> DEFINE CountInv == DraftInv /\ nudges <= sentBack /\ UnfinishedWasCorrected
<1>1. Init => CountInv
  BY DraftInvStarts DEF Init, UnfinishedWasCorrected
<1>2. ASSUME CountInv, [Next]_vars
      PROVE  CountInv'
  <2>0. /\ nudges \in 0..MaxNudges /\ sentBack \in Nat /\ MaxNudges \in Nat
        /\ nudges <= sentBack
    BY <1>2, ReasonLoopAssumption DEF DraftInv, TypeOK
  <2>1. CASE \E long \in BOOLEAN : Answer(long)
    <3>1. /\ nudges' = nudges /\ sentBack' = sentBack /\ Missing' = Missing
          /\ Missing = {} \/ nudges >= MaxNudges
      BY <2>1 DEF Answer, Missing
    <3>2. QED
      BY <1>2, <2>0, <3>1, DraftInvStays DEF UnfinishedWasCorrected
  <2>2. CASE \/ \E long \in BOOLEAN : Correct(long)
             \/ \E tool \in Tools, long \in BOOLEAN : CallTool(tool, long)
             \/ CallUnknown \/ Leave
             \/ \E executed \in BOOLEAN : ToolReturns(executed)
    <3>1. at' # "answered"
      BY <2>2 DEF Correct, CallTool, CallUnknown, Leave, ToolReturns, RouteWithoutAct, Tools
    <3>2. \/ nudges' = nudges /\ sentBack' \in {sentBack, sentBack + 1}
          \/ nudges' = nudges + 1 /\ sentBack' = sentBack + 1
      BY <2>2 DEF Correct, CallTool, CallUnknown, Leave, ToolReturns
    <3>3. nudges' <= sentBack'
      BY <2>0, <3>2
    <3>4. QED
      BY <1>2, <3>1, <3>3, DraftInvStays DEF UnfinishedWasCorrected
  <2>3. CASE UNCHANGED vars
    BY <1>2, <2>3, DraftInvStays DEF vars, UnfinishedWasCorrected, Missing
  <2>4. QED
    BY <1>2, <2>1, <2>2, <2>3 DEF Next, Proceed
<1>3. CountInv => UnfinishedWasCorrected
  OBVIOUS
<1>4. QED
  BY <1>1, <1>2, <1>3, PTL DEF Spec

(* Every member of the state has its type. *)
THEOREM LoopTypes == Spec => []TypeOK
<1>1. DraftInv /\ [Next]_vars => DraftInv'
  BY DraftInvStays
<1>2. DraftInv => TypeOK
  BY DEF DraftInv
<1> QED
  BY <1>1, <1>2, DraftInvStarts, PTL DEF Spec

-----------------------------------------------------------------------------
(* The first missing act is the first: what the task wants before it has been
   attempted.                                                                *)
LEMMA BeforeTheFirstMissing ==
  ASSUME Missing # {}
  PROVE  /\ FirstMissing \in Missing
         /\ \A j \in 1..(FirstMissing - 1) : Required[j] \in attempted
<1>1. Missing \subseteq Nat
  BY DEF Missing
<1>2. PICK i \in Missing : \A j \in Missing : ~ (<<j, i>> \in OpToRel(<, Nat))
  BY <1>1, NatLessThanWellFounded, WFMin
<1>3. \A j \in Missing : i <= j
  <2>1. \A j \in Missing : ~ (j < i)
    BY <1>1, <1>2 DEF OpToRel
  <2> QED
    BY <1>1, <2>1
<1>4. FirstMissing \in Missing /\ \A j \in Missing : FirstMissing <= j
  BY <1>2, <1>3 DEF FirstMissing
<1>5. ASSUME NEW j \in 1..(FirstMissing - 1) PROVE Required[j] \in attempted
  <2>1. FirstMissing \in 1..Len(Required)
    BY <1>4 DEF Missing
  <2>2. Len(Required) \in Nat
    BY ReasonLoopAssumption
  <2>3. j \in 1..Len(Required) /\ j < FirstMissing
    BY <2>1, <2>2
  <2>4. j \notin Missing
    BY <1>1, <1>4, <2>3
  <2> QED
    BY <2>3, <2>4 DEF Missing
<1> QED
  BY <1>4, <1>5

(* The report is asked for when it is next, and the request does not outlive
   its window, however many turns later it is answered.                      *)
THEOREM RequestsAreInTheirWindow == Spec => []RequestedInItsWindow
<1> DEFINE Due == \E i \in 1..Len(Required) :
                    /\ Required[i] = "write_internal_report"
                    /\ \A j \in 1..(i - 1) : Required[j] \in attempted
           WindowInv == DraftInv /\ (draft_requested => Due)
<1>1. Init => WindowInv
  BY DraftInvStarts DEF Init
<1>2. ASSUME WindowInv, [Next]_vars PROVE WindowInv'
  <2>1. DraftInv'
    BY <1>2, DraftInvStays
  <2>2. ASSUME NEW long \in BOOLEAN, Correct(long), draft_requested' PROVE Due'
    <3>1. Missing # {} /\ Required[FirstMissing] = "write_internal_report" /\ attempted' = attempted
      BY <2>2 DEF Correct, AskingForDraft
    <3>2. FirstMissing \in 1..Len(Required)
      BY <3>1, BeforeTheFirstMissing DEF Missing
    <3> QED
      BY <3>1, <3>2, BeforeTheFirstMissing
  <2>3. CASE \/ \E long \in BOOLEAN : Answer(long)
             \/ \E tool \in Tools, long \in BOOLEAN : CallTool(tool, long)
             \/ CallUnknown \/ Leave
             \/ \E executed \in BOOLEAN : ToolReturns(executed)
             \/ UNCHANGED vars
    <3>0. attempted \subseteq attempted'
      BY <2>3 DEF Answer, CallTool, CallUnknown, Leave, ToolReturns, vars
    <3>1. draft_requested' => draft_requested
      BY <2>3, Zenon DEF Answer, CallTool, CallUnknown, Leave, ToolReturns, vars
    <3>2. Due => Due'
      BY <3>0
    <3> QED
      BY <1>2, <2>1, <3>1, <3>2
  <2> QED
    BY <1>2, <2>1, <2>2, <2>3 DEF Next, Proceed
<1>3. WindowInv => RequestedInItsWindow
  BY DEF DraftInv, RequestedInItsWindow, None
<1> QED
  BY <1>1, <1>2, <1>3, PTL DEF Spec
=============================================================================
