-------------------------- MODULE WholeTakeProofs --------------------------
(***************************************************************************)
(* Takes with their reasoning node in full: what is proved of Governance   *)
(* holds of them, each of their nodes is a run of ReasonLoop, and what the *)
(* two together say of the report.                                         *)
(***************************************************************************)
EXTENDS WholeTake, TakeProofs, WellFoundedInduction

LoopTyped == loop \in [Takes -> Loop]

(***************************************************************************)
(* Seen from the plane.                                                    *)
(***************************************************************************)
(* The draft a turn leaves is one a turn of Governance may leave. *)
LEMMA DraftIsPossible ==
  ASSUME NEW t \in Takes, NEW prose \in Texts \cup {Nothing}
  PROVE  DraftOf(t, prose) \in DraftsAfter(g[t])
BY DEF DraftOf, Taken, DraftsAfter

(* A turn of the validation loop is a turn of Governance. *)
LEMMA TurnIsAStep ==
  ASSUME TypeOK, NEW t \in Takes, Turn(t)
  PROVE  Propose(t) \/ Correct(t) \/ Finish(t)
<1>1. CASE TurnProposes(t)
  <2>1. PICK tool \in Tools, prose \in Texts \cup {Nothing} : \E target \in ArgumentOf(tool) :
          /\ g' = [g EXCEPT ![t] =
                     [pending |-> [tool |-> tool, target |-> target,
                                   sequence |-> g[t].sequence + 1],
                      sequence |-> g[t].sequence + 1,
                      draft |-> DraftOf(t, prose), reportText |-> g[t].reportText]]
          /\ at' = [at EXCEPT ![t] = tool]
    BY <1>1 DEF TurnProposes
  <2>2. DraftOf(t, prose) \in DraftsAfter(g[t])
    BY DraftIsPossible
  <2>3. /\ pc[t] = "running" /\ at[t] = "reason" /\ g[t].sequence < MaxActs
        /\ UNCHANGED <<pc, result, waitRef, held, last, plane, up, corpus, effects>>
    BY <1>1 DEF TurnProposes, AtReason
  <2> QED
    BY <2>1, <2>2, <2>3 DEF Propose
<1>2. CASE TurnCorrected(t)
  <2>1. NothingPending(t)
    BY <1>2, DraftIsPossible DEF TurnCorrected, NothingPending
  <2> QED
    BY <1>2, <2>1 DEF TurnCorrected, AtReason, Correct
<1>3. CASE TurnAnswers(t)
  <2>1. NothingPending(t)
    BY <1>3, DraftIsPossible DEF TurnAnswers, NothingPending
  <2> QED
    BY <1>3, <2>1 DEF TurnAnswers, AtReason, Finish
<1>4. CASE TurnCallsUnknown(t)
  <2>1. g[t].draft \in DraftsAfter(g[t])
    BY DEF DraftsAfter
  <2>2. [g EXCEPT ![t].pending = NoAct] = [g EXCEPT ![t].pending = NoAct, ![t].draft = g[t].draft]
    BY DEF TypeOK, GraphState
  <2>3. NothingPending(t)
    BY <1>4, <2>1, <2>2 DEF TurnCallsUnknown, NothingPending
  <2>4. pc[t] = "running" /\ at[t] = "reason"
    BY <1>4 DEF TurnCallsUnknown, AtReason
  <2>5. CASE loop[t].nudge
    BY <1>4, <2>3, <2>4, <2>5 DEF TurnCallsUnknown, Correct
  <2>6. CASE ~loop[t].nudge
    BY <1>4, <2>3, <2>4, <2>6 DEF TurnCallsUnknown, Finish
  <2> QED
    BY <2>5, <2>6
<1> QED
  BY <1>1, <1>2, <1>3, <1>4 DEF Turn

LEMMA OnwardIsAStep ==
  ASSUME NEW t \in Takes, Onward(t)
  PROVE  Step(t)
BY DEF Onward, Step

LEMMA WholeIsGovernance == TypeOK /\ [WholeNext]_wholeVars => [Next]_vars
<1> SUFFICES ASSUME TypeOK, [WholeNext]_wholeVars PROVE [Next]_vars
  OBVIOUS
<1>1. ASSUME NEW t \in Takes, Turn(t) \/ Onward(t) PROVE Step(t)
  BY <1>1, TurnIsAStep, OnwardIsAStep DEF Step
<1> QED
  BY <1>1 DEF WholeNext, wholeVars, Next

(* The invariants of the takes, from which what follows is shown. *)
TakesInv == GovernanceInv /\ Numbering /\ Saving

LEMMA TakesInvHolds == WholeSpec => []TakesInv
<1>1. WholeInit => TakesInv
  BY InvariantStarts, NumberingStarts, SavingStarts DEF WholeInit, TakesInv
<1>2. TakesInv /\ [WholeNext]_wholeVars => TakesInv'
  BY WholeIsGovernance, InvariantStays, NumberingStays, SavingStays DEF TakesInv, GovernanceInv
<1> QED
  BY <1>1, <1>2, PTL DEF WholeSpec

(* A take whose reasoning node is the validation loop of graph.py is a take of
   Governance: whatever is proved of the takes for any turn at all holds of
   the turns that make_reason_node makes.                                    *)
THEOREM TurnsAreGoverned == WholeSpec => Spec
<1>1. WholeInit => Init
  BY DEF WholeInit
<1>2. TakesInv /\ [WholeNext]_wholeVars => [Next]_vars
  BY WholeIsGovernance DEF TakesInv, GovernanceInv
<1> QED
  BY <1>1, <1>2, TakesInvHolds, PTL DEF WholeSpec, Spec

-----------------------------------------------------------------------------
(***************************************************************************)
(* The invariant of a take and its node.                                   *)
(***************************************************************************)
(* A run is over for its node when its invocation is completed, and then the
   process goes nowhere but out.                                             *)
Settled(t) ==
  /\ result[t] = "completed" <=> loop[t].over # "none"
  /\ result[t] = "completed" => pc[t] \in {"over", "exited", "crashed"}
(* Inside a governed node there is an act; a write that happened had a text. *)
InsideANode(t) ==
  /\ pc[t] \in {"body", "acted", "declined"} => at[t] \in Tools /\ g[t].pending # NoAct
  /\ pc[t] = "acted" /\ at[t] = "write_internal_report" => g[t].draft # Nothing
(* The report is asked for, and written, after the work it reports on; while it
   is asked for there is none, and what there is answered a request.         *)
Window(t) ==
  /\ at[t] # "reason" => ~loop[t].asked
  /\ loop[t].draft_requested => g[t].draft = Nothing
  /\ loop[t].draft_requested \/ g[t].draft # Nothing => WorkComesFirst(t)
  /\ g[t].draft # Nothing => loop[t].drafted # "none"
(* What was saved or sent is the draft. *)
CarriesTheDraft(t) == \A e \in Carriers(t) : TextOf(e) = g[t].draft

NodeInv(t) == Settled(t) /\ InsideANode(t) /\ Window(t) /\ CarriesTheDraft(t)
WholeInv == LoopTyped /\ \A t \in Takes \ Callers : NodeInv(t)

-----------------------------------------------------------------------------
(* What a reply does to the members of its node. *)
LEMMA ReplyMembers ==
  ASSUME LoopTyped, NEW t \in Takes, NEW prose
  PROVE  /\ AfterReply(t, prose) \in Loop
         /\ ~AfterReply(t, prose).nudge /\ ~AfterReply(t, prose).asked
         /\ AfterReply(t, prose).nudges = loop[t].nudges
         /\ AfterReply(t, prose).draft_requested = (loop[t].draft_requested /\ ~Taken(t, prose))
         /\ AfterReply(t, prose).attempted = loop[t].attempted
         /\ AfterReply(t, prose).sentBack = loop[t].sentBack
         /\ AfterReply(t, prose).calls = loop[t].calls
         /\ AfterReply(t, prose).drafted =
              IF Taken(t, prose) THEN IF loop[t].asked THEN "report" ELSE "remark"
              ELSE loop[t].drafted
         /\ AfterReply(t, prose).over = loop[t].over
<1>0. loop[t] \in Loop
  BY DEF LoopTyped
<1> DEFINE r == AfterReply(t, prose)
<1>1. r \in Loop
  BY <1>0 DEF AfterReply, Loop, Taken
<1>2. ~r.nudge /\ ~r.asked
  BY <1>0 DEF AfterReply, Loop
<1>3. r.nudges = loop[t].nudges /\ r.attempted = loop[t].attempted
  BY <1>0 DEF AfterReply, Loop
<1>4. r.draft_requested = (loop[t].draft_requested /\ ~Taken(t, prose))
  BY <1>0 DEF AfterReply, Loop
<1>5. r.sentBack = loop[t].sentBack /\ r.calls = loop[t].calls
  BY <1>0 DEF AfterReply, Loop
<1>6. r.drafted = IF Taken(t, prose) THEN IF loop[t].asked THEN "report" ELSE "remark"
                  ELSE loop[t].drafted
  BY <1>0 DEF AfterReply, Loop
<1>7. r.over = loop[t].over
  BY <1>0 DEF AfterReply, Loop
<1> QED
  BY <1>1, <1>2, <1>3, <1>4, <1>5, <1>6, <1>7

(* Turn by turn: what becomes of the take and of its node's members. *)
OnlyLoopOf(t) == loop' \in [Takes -> Loop] /\ \A u \in Takes \ {t} : loop'[u] = loop[u]
ProseIsRead(t, prose) ==
  /\ g'[t].draft = DraftOf(t, prose) /\ g'[t].reportText = g[t].reportText
  /\ loop'[t].drafted =
       IF Taken(t, prose) THEN IF loop[t].asked THEN "report" ELSE "remark" ELSE loop[t].drafted

LEMMA Proposing ==
  ASSUME TypeOK, LoopTyped, NEW t \in Takes, TurnProposes(t)
  PROVE  \E tool \in Tools, prose \in Texts \cup {Nothing} :
           /\ at'[t] = tool /\ UNCHANGED <<pc, result, effects>>
           /\ OnlyLoopOf(t) /\ ProseIsRead(t, prose)
           /\ ~loop'[t].nudge /\ ~loop'[t].asked
           /\ loop'[t].draft_requested = (loop[t].draft_requested /\ ~Taken(t, prose))
           /\ loop'[t].attempted = loop[t].attempted \cup {tool}
           /\ loop'[t].calls = loop[t].calls + 1
           /\ loop'[t].nudges = loop[t].nudges /\ loop'[t].sentBack = loop[t].sentBack
           /\ loop'[t].over = loop[t].over
<1>1. PICK tool \in Tools, prose \in Texts \cup {Nothing} : \E target \in ArgumentOf(tool) :
        /\ g' = [g EXCEPT ![t] =
                   [pending |-> [tool |-> tool, target |-> target,
                                 sequence |-> g[t].sequence + 1],
                    sequence |-> g[t].sequence + 1,
                    draft |-> DraftOf(t, prose), reportText |-> g[t].reportText]]
        /\ at' = [at EXCEPT ![t] = tool]
        /\ loop' = [loop EXCEPT ![t] =
                      [AfterReply(t, prose) EXCEPT !.attempted = @ \cup {tool}, !.calls = @ + 1]]
  BY DEF TurnProposes
<1>2. at'[t] = tool /\ g'[t].draft = DraftOf(t, prose) /\ g'[t].reportText = g[t].reportText
  BY <1>1 DEF TypeOK
<1> DEFINE r == AfterReply(t, prose)
           s == [r EXCEPT !.attempted = loop[t].attempted \cup {tool}, !.calls = loop[t].calls + 1]
<1>3. /\ r \in Loop /\ r.attempted = loop[t].attempted /\ r.calls = loop[t].calls
      /\ loop[t].calls + 1 \in 0..MaxCalls
  BY ReplyMembers, WholeAssumption DEF TurnProposes, LoopTyped, Loop
<1>4. s \in Loop
  BY <1>3 DEF Loop
<1>5. loop' = [loop EXCEPT ![t] = s]
  BY <1>1, <1>3
<1>6. /\ s.nudge = r.nudge /\ s.asked = r.asked /\ s.draft_requested = r.draft_requested
      /\ s.attempted = r.attempted \cup {tool} /\ s.calls = r.calls + 1
      /\ s.nudges = r.nudges /\ s.sentBack = r.sentBack
      /\ s.drafted = r.drafted /\ s.over = r.over
  BY <1>3 DEF Loop
<1> HIDE DEF s
<1>7. OnlyLoopOf(t) /\ loop'[t] = s
  BY <1>4, <1>5 DEF OnlyLoopOf, LoopTyped
<1>8. ProseIsRead(t, prose)
  BY <1>2, <1>6, <1>7, ReplyMembers DEF ProseIsRead
<1>9. /\ ~loop'[t].nudge /\ ~loop'[t].asked
      /\ loop'[t].draft_requested = (loop[t].draft_requested /\ ~Taken(t, prose))
      /\ loop'[t].attempted = loop[t].attempted \cup {tool}
      /\ loop'[t].calls = loop[t].calls + 1
      /\ loop'[t].nudges = loop[t].nudges /\ loop'[t].sentBack = loop[t].sentBack
      /\ loop'[t].over = loop[t].over
  BY <1>6, <1>7, ReplyMembers
<1>10. UNCHANGED <<pc, result, effects>>
  BY DEF TurnProposes
<1> QED
  BY <1>2, <1>7, <1>8, <1>9, <1>10

LEMMA Correcting ==
  ASSUME TypeOK, LoopTyped, NEW t \in Takes, TurnCorrected(t)
  PROVE  \E prose \in Texts \cup {Nothing} :
           /\ UNCHANGED <<pc, at, result, effects>>
           /\ OnlyLoopOf(t) /\ ProseIsRead(t, prose)
           /\ loop'[t].nudge = TRUE /\ loop'[t].nudges = loop[t].nudges + 1
           /\ loop'[t].sentBack = loop[t].sentBack + 1
           /\ loop'[t].draft_requested = Asks(t, prose) /\ loop'[t].asked = Asks(t, prose)
           /\ loop'[t].attempted = loop[t].attempted
           /\ loop'[t].calls = loop[t].calls /\ loop'[t].over = loop[t].over
<1>1. PICK prose \in Texts \cup {Nothing} :
        /\ g' = [g EXCEPT ![t].pending = NoAct, ![t].draft = DraftOf(t, prose)]
        /\ loop' = [loop EXCEPT ![t] =
                      [AfterReply(t, prose) EXCEPT
                         !.nudge = TRUE, !.nudges = @ + 1, !.sentBack = @ + 1,
                         !.draft_requested = Asks(t, prose), !.asked = Asks(t, prose)]]
  BY DEF TurnCorrected
<1>2. g'[t].draft = DraftOf(t, prose) /\ g'[t].reportText = g[t].reportText
  BY <1>1 DEF TypeOK, GraphState
<1>3. PICK asks \in BOOLEAN : asks = Asks(t, prose)
  BY DEF Asks
<1> DEFINE r == AfterReply(t, prose)
           s == [r EXCEPT !.nudge = TRUE, !.nudges = loop[t].nudges + 1,
                          !.sentBack = loop[t].sentBack + 1,
                          !.draft_requested = asks, !.asked = asks]
<1>4. /\ r \in Loop /\ r.nudges = loop[t].nudges /\ r.sentBack = loop[t].sentBack
      /\ loop[t].nudges + 1 \in 0..MaxNudges
  BY ReplyMembers, WholeAssumption DEF TurnCorrected, LoopTyped, Loop
<1>5. s \in Loop
  <2>1. PICK m \in 0..MaxNudges, n \in Nat : m = loop[t].nudges + 1 /\ n = loop[t].sentBack + 1
    BY <1>4 DEF Loop
  <2>2. [r EXCEPT !.nudge = TRUE, !.nudges = m, !.sentBack = n] \in Loop
    BY <1>4 DEF Loop
  <2>3. \A k \in Loop : [k EXCEPT !.draft_requested = asks, !.asked = asks] \in Loop
    BY DEF Loop
  <2> QED
    BY <2>1, <2>2, <2>3
<1>6. loop' = [loop EXCEPT ![t] = s]
  BY <1>1, <1>3, <1>4
<1>7. /\ s.nudge = TRUE /\ s.nudges = r.nudges + 1 /\ s.sentBack = r.sentBack + 1
      /\ s.draft_requested = asks /\ s.asked = asks
      /\ s.attempted = r.attempted /\ s.calls = r.calls
      /\ s.drafted = r.drafted /\ s.over = r.over
  <2>1. s.nudge = TRUE /\ s.nudges = r.nudges + 1 /\ s.sentBack = r.sentBack + 1
    BY <1>4 DEF Loop
  <2>2. s.draft_requested = asks /\ s.asked = asks
    BY <1>4 DEF Loop
  <2>3. s.attempted = r.attempted /\ s.calls = r.calls
    BY <1>4 DEF Loop
  <2>4. s.drafted = r.drafted /\ s.over = r.over
    BY <1>4 DEF Loop
  <2> QED
    BY <2>1, <2>2, <2>3, <2>4
<1> HIDE DEF s
<1>8. OnlyLoopOf(t) /\ loop'[t] = s
  BY <1>5, <1>6 DEF OnlyLoopOf, LoopTyped
<1>9. ProseIsRead(t, prose)
  BY <1>2, <1>7, <1>8, ReplyMembers DEF ProseIsRead
<1>10. /\ loop'[t].nudge = TRUE /\ loop'[t].nudges = loop[t].nudges + 1
       /\ loop'[t].sentBack = loop[t].sentBack + 1
       /\ loop'[t].draft_requested = Asks(t, prose) /\ loop'[t].asked = Asks(t, prose)
       /\ loop'[t].attempted = loop[t].attempted
       /\ loop'[t].calls = loop[t].calls /\ loop'[t].over = loop[t].over
  BY <1>3, <1>7, <1>8, ReplyMembers
<1>11. UNCHANGED <<pc, at, result, effects>>
  BY DEF TurnCorrected
<1> QED
  BY <1>8, <1>9, <1>10, <1>11

LEMMA Answering ==
  ASSUME TypeOK, LoopTyped, NEW t \in Takes, TurnAnswers(t)
  PROVE  \E prose \in Texts \cup {Nothing} :
           /\ UNCHANGED <<at, effects>> /\ pc'[t] = "over" /\ result'[t] = "completed"
           /\ OnlyLoopOf(t) /\ ProseIsRead(t, prose)
           /\ ~loop'[t].nudge /\ ~loop'[t].asked
           /\ loop'[t].draft_requested = (loop[t].draft_requested /\ ~Taken(t, prose))
           /\ loop'[t].attempted = loop[t].attempted /\ loop'[t].calls = loop[t].calls
           /\ loop'[t].nudges = loop[t].nudges /\ loop'[t].sentBack = loop[t].sentBack
           /\ loop'[t].over = "answered"
<1>1. PICK prose \in Texts \cup {Nothing} :
        /\ g' = [g EXCEPT ![t].pending = NoAct, ![t].draft = DraftOf(t, prose)]
        /\ loop' = [loop EXCEPT ![t] = [AfterReply(t, prose) EXCEPT !.over = "answered"]]
  BY DEF TurnAnswers
<1>2. /\ g'[t].draft = DraftOf(t, prose) /\ g'[t].reportText = g[t].reportText
      /\ UNCHANGED <<at, effects>> /\ pc'[t] = "over" /\ result'[t] = "completed"
  BY <1>1 DEF TypeOK, GraphState, TurnAnswers, Over
<1> DEFINE r == AfterReply(t, prose)
           s == [r EXCEPT !.over = "answered"]
<1>3. r \in Loop
  BY ReplyMembers
<1>4. s \in Loop
  BY <1>3 DEF Loop
<1>6. /\ s.nudge = r.nudge /\ s.asked = r.asked /\ s.draft_requested = r.draft_requested
      /\ s.attempted = r.attempted /\ s.calls = r.calls
      /\ s.nudges = r.nudges /\ s.sentBack = r.sentBack
      /\ s.drafted = r.drafted /\ s.over = "answered"
  BY <1>3 DEF Loop
<1> HIDE DEF s
<1>7. OnlyLoopOf(t) /\ loop'[t] = s
  BY <1>1, <1>4 DEF OnlyLoopOf, LoopTyped, s
<1>8. ProseIsRead(t, prose)
  BY <1>2, <1>6, <1>7, ReplyMembers DEF ProseIsRead
<1> QED
  BY <1>2, <1>6, <1>7, <1>8, ReplyMembers

LEMMA CallingUnknown ==
  ASSUME TypeOK, LoopTyped, NEW t \in Takes, TurnCallsUnknown(t)
  PROVE  /\ UNCHANGED <<at, effects>> /\ OnlyLoopOf(t)
         /\ g'[t].draft = g[t].draft /\ g'[t].reportText = g[t].reportText
         /\ loop'[t].drafted = loop[t].drafted
         /\ loop'[t].nudge = loop[t].nudge /\ ~loop'[t].asked
         /\ loop'[t].draft_requested = loop[t].draft_requested
         /\ loop'[t].attempted = loop[t].attempted /\ loop'[t].calls = loop[t].calls + 1
         /\ loop'[t].nudges = loop[t].nudges
         /\ \/ /\ loop[t].nudge /\ UNCHANGED <<pc, result>>
               /\ loop'[t].sentBack = loop[t].sentBack + 1 /\ loop'[t].over = loop[t].over
            \/ /\ ~loop[t].nudge /\ pc'[t] = "over" /\ result'[t] = "completed"
               /\ loop'[t].sentBack = loop[t].sentBack /\ loop'[t].over = "ended"
<1>1. g' = [g EXCEPT ![t].pending = NoAct]
  BY DEF TurnCallsUnknown
<1>2. g'[t].draft = g[t].draft /\ g'[t].reportText = g[t].reportText
  BY <1>1 DEF TypeOK, GraphState
<1>3. loop \in [Takes -> Loop] /\ loop[t] \in Loop /\ loop[t].calls + 1 \in 0..MaxCalls
  BY WholeAssumption DEF LoopTyped, TurnCallsUnknown, Loop
<1>4. CASE loop[t].nudge
  <2>1. loop' = [loop EXCEPT ![t].calls = @ + 1, ![t].asked = FALSE, ![t].sentBack = @ + 1]
    BY <1>4 DEF TurnCallsUnknown
  <2>2. OnlyLoopOf(t)
    BY <1>3, <2>1 DEF OnlyLoopOf, Loop
  <2>3. /\ loop'[t].drafted = loop[t].drafted /\ loop'[t].nudge = loop[t].nudge /\ ~loop'[t].asked
        /\ loop'[t].draft_requested = loop[t].draft_requested
        /\ loop'[t].attempted = loop[t].attempted /\ loop'[t].calls = loop[t].calls + 1
        /\ loop'[t].nudges = loop[t].nudges
        /\ loop'[t].sentBack = loop[t].sentBack + 1 /\ loop'[t].over = loop[t].over
    BY <1>3, <2>1 DEF Loop
  <2> QED
    BY <1>2, <1>4, <2>2, <2>3 DEF TurnCallsUnknown
<1>5. CASE ~loop[t].nudge
  <2>1. loop' = [loop EXCEPT ![t].calls = @ + 1, ![t].asked = FALSE, ![t].over = "ended"]
    BY <1>5 DEF TurnCallsUnknown
  <2>2. OnlyLoopOf(t)
    BY <1>3, <2>1 DEF OnlyLoopOf, Loop
  <2>3. /\ loop'[t].drafted = loop[t].drafted /\ loop'[t].nudge = loop[t].nudge /\ ~loop'[t].asked
        /\ loop'[t].draft_requested = loop[t].draft_requested
        /\ loop'[t].attempted = loop[t].attempted /\ loop'[t].calls = loop[t].calls + 1
        /\ loop'[t].nudges = loop[t].nudges
        /\ loop'[t].sentBack = loop[t].sentBack /\ loop'[t].over = "ended"
    BY <1>3, <2>1 DEF Loop
  <2>4. pc'[t] = "over" /\ result'[t] = "completed"
    BY <1>5 DEF TurnCallsUnknown, Over, TypeOK
  <2> QED
    BY <1>2, <1>5, <2>2, <2>3, <2>4 DEF TurnCallsUnknown
<1> QED
  BY <1>4, <1>5

-----------------------------------------------------------------------------
(* The first missing act is the first: what the task wants before it has been
   attempted.                                                                *)
LEMMA FirstMissingIsNext ==
  ASSUME NEW t \in Takes, Missing(t) # {},
         Required[FirstMissing(t)] = "write_internal_report"
  PROVE  WorkComesFirst(t)
<1>1. Missing(t) \subseteq Nat
  BY DEF Missing
<1>2. PICK i \in Missing(t) : \A j \in Missing(t) : ~ (<<j, i>> \in OpToRel(<, Nat))
  BY <1>1, NatLessThanWellFounded, WFMin
<1>3. \A j \in Missing(t) : i <= j
  <2>1. \A j \in Missing(t) : ~ (j < i)
    BY <1>1, <1>2 DEF OpToRel
  <2> QED
    BY <1>1, <2>1
<1>4. FirstMissing(t) \in Missing(t) /\ \A j \in Missing(t) : FirstMissing(t) <= j
  BY <1>2, <1>3 DEF FirstMissing
<1>5. FirstMissing(t) \in 1..Len(Required) /\ Len(Required) \in Nat
  BY <1>4, WholeAssumption DEF Missing
<1>6. ASSUME NEW j \in 1..(FirstMissing(t) - 1) PROVE Required[j] \in loop[t].attempted
  <2>1. j \in 1..Len(Required) /\ j < FirstMissing(t)
    BY <1>5
  <2>2. j \notin Missing(t)
    BY <1>1, <1>4, <2>1
  <2> QED
    BY <2>1, <2>2 DEF Missing
<1> QED
  BY <1>5, <1>6 DEF WorkComesFirst

(* Work that has been attempted stays attempted. *)
LEMMA WorkIsNotLost ==
  ASSUME NEW t \in Takes, loop[t].attempted \subseteq loop'[t].attempted, WorkComesFirst(t)
  PROVE  WorkComesFirst(t)'
BY DEF WorkComesFirst

(* A step that is none of the take's. *)
LEMMA NodeUntouched ==
  ASSUME NEW t \in Takes, NodeInv(t),
         pc'[t] = pc[t], at'[t] = at[t], g'[t] = g[t], result'[t] = result[t], loop'[t] = loop[t],
         \A e \in effects' : e.take = t => e \in effects
  PROVE  NodeInv(t)'
<1>1. CarriesTheDraft(t)'
  BY DEF NodeInv, CarriesTheDraft, Carriers, EffectsOf
<1>2. WorkComesFirst(t)' <=> WorkComesFirst(t)
  BY DEF WorkComesFirst
<1> QED
  BY <1>1, <1>2 DEF NodeInv, Settled, InsideANode, Window

(* What becomes of the window when a reply is read: the report that is asked for
   or taken is asked for, and taken, after its work.                          *)
LEMMA ReplyKeepsTheWindow ==
  ASSUME NEW t \in Takes, NodeInv(t), NEW prose \in Texts \cup {Nothing}, ProseIsRead(t, prose),
         effects' = effects, loop[t].attempted \subseteq loop'[t].attempted,
         at'[t] = "reason" \/ ~loop'[t].asked,
         loop'[t].draft_requested =>
           \/ loop[t].draft_requested /\ ~Taken(t, prose)
           \/ WorkComesFirst(t) /\ DraftOf(t, prose) = Nothing
  PROVE  Window(t)' /\ CarriesTheDraft(t)'
<1>1. g'[t].draft = DraftOf(t, prose)
  BY DEF ProseIsRead
<1>2. CASE Taken(t, prose)
  <2>1. g'[t].draft = prose /\ prose # Nothing /\ loop[t].draft_requested
    BY <1>1, <1>2 DEF DraftOf, Taken
  <2>2. g[t].draft = Nothing /\ WorkComesFirst(t)
    BY <2>1 DEF NodeInv, Window
  <2>3. loop'[t].drafted \in {"report", "remark"}
    BY <1>2 DEF ProseIsRead
  <2>4. ~loop'[t].draft_requested
    BY <1>1, <1>2, <2>1
  <2>5. Carriers(t)' = {}
    BY <2>2 DEF NodeInv, CarriesTheDraft, Carriers, EffectsOf
  <2>6. WorkComesFirst(t)'
    BY <2>2, WorkIsNotLost
  <2>7. Window(t)'
    BY <2>3, <2>4, <2>6 DEF Window
  <2> QED
    BY <2>5, <2>7 DEF CarriesTheDraft
<1>3. CASE ~Taken(t, prose)
  <2>1. g'[t].draft = g[t].draft /\ loop'[t].drafted = loop[t].drafted
    BY <1>1, <1>3 DEF DraftOf, ProseIsRead
  <2>2. loop'[t].draft_requested => g'[t].draft = Nothing /\ WorkComesFirst(t)
    BY <1>1, <2>1 DEF NodeInv, Window
  <2>3. loop'[t].draft_requested \/ g'[t].draft # Nothing => WorkComesFirst(t)'
    BY <2>1, <2>2, WorkIsNotLost DEF NodeInv, Window
  <2>4. CarriesTheDraft(t)'
    BY <2>1 DEF NodeInv, CarriesTheDraft, Carriers, EffectsOf
  <2>5. Window(t)'
    BY <2>1, <2>2, <2>3 DEF NodeInv, Window
  <2> QED
    BY <2>4, <2>5
<1> QED
  BY <1>2, <1>3

(* The turns of a take keep its invariant. *)
LEMMA TurnKeepsNode ==
  ASSUME TypeOK, LoopTyped, NEW t \in Takes, NodeInv(t), Turn(t)
  PROVE  NodeInv(t)' /\ OnlyLoopOf(t)
<1>0. pc[t] = "running" /\ at[t] = "reason" /\ result[t] # "completed" /\ loop[t].over = "none"
  BY DEF Turn, TurnProposes, TurnCorrected, TurnAnswers, TurnCallsUnknown, AtReason, NodeInv, Settled
<1>1. CASE TurnProposes(t)
  <2>1. PICK tool \in Tools, prose \in Texts \cup {Nothing} :
          /\ at'[t] = tool /\ UNCHANGED <<pc, result, effects>>
          /\ OnlyLoopOf(t) /\ ProseIsRead(t, prose) /\ ~loop'[t].asked
          /\ loop'[t].draft_requested = (loop[t].draft_requested /\ ~Taken(t, prose))
          /\ loop'[t].attempted = loop[t].attempted \cup {tool}
          /\ loop'[t].over = loop[t].over
    BY <1>1, Proposing
  <2>2. Window(t)' /\ CarriesTheDraft(t)'
    BY <2>1, ReplyKeepsTheWindow
  <2>3. Settled(t)' /\ InsideANode(t)'
    BY <1>0, <2>1 DEF Settled, InsideANode
  <2> QED
    BY <2>1, <2>2, <2>3 DEF NodeInv
<1>2. CASE TurnCorrected(t)
  <2>1. PICK prose \in Texts \cup {Nothing} :
          /\ UNCHANGED <<pc, at, result, effects>>
          /\ OnlyLoopOf(t) /\ ProseIsRead(t, prose)
          /\ loop'[t].draft_requested = Asks(t, prose)
          /\ loop'[t].attempted = loop[t].attempted /\ loop'[t].over = loop[t].over
    BY <1>2, Correcting
  <2>2. Asks(t, prose) => WorkComesFirst(t) /\ DraftOf(t, prose) = Nothing
    BY <1>2, FirstMissingIsNext DEF Asks, TurnCorrected
  <2>3. Window(t)' /\ CarriesTheDraft(t)'
    BY <1>0, <2>1, <2>2, ReplyKeepsTheWindow
  <2>4. Settled(t)' /\ InsideANode(t)'
    BY <1>0, <2>1 DEF Settled, InsideANode
  <2> QED
    BY <2>1, <2>3, <2>4 DEF NodeInv
<1>3. CASE TurnAnswers(t)
  <2>1. PICK prose \in Texts \cup {Nothing} :
          /\ UNCHANGED <<at, effects>> /\ pc'[t] = "over" /\ result'[t] = "completed"
          /\ OnlyLoopOf(t) /\ ProseIsRead(t, prose)
          /\ loop'[t].draft_requested = (loop[t].draft_requested /\ ~Taken(t, prose))
          /\ loop'[t].attempted = loop[t].attempted /\ loop'[t].over = "answered"
    BY <1>3, Answering
  <2>2. Window(t)' /\ CarriesTheDraft(t)'
    BY <1>0, <2>1, ReplyKeepsTheWindow
  <2>3. Settled(t)' /\ InsideANode(t)'
    BY <2>1 DEF Settled, InsideANode
  <2> QED
    BY <2>1, <2>2, <2>3 DEF NodeInv
<1>4. CASE TurnCallsUnknown(t)
  <2>1. /\ UNCHANGED <<at, effects>> /\ OnlyLoopOf(t)
        /\ g'[t].draft = g[t].draft /\ loop'[t].drafted = loop[t].drafted
        /\ loop'[t].draft_requested = loop[t].draft_requested
        /\ loop'[t].attempted = loop[t].attempted
        /\ \/ pc'[t] = pc[t] /\ result'[t] = result[t] /\ loop'[t].over = loop[t].over
           \/ pc'[t] = "over" /\ result'[t] = "completed" /\ loop'[t].over = "ended"
    BY <1>4, CallingUnknown
  <2>2. WorkComesFirst(t)' <=> WorkComesFirst(t)
    BY <2>1 DEF WorkComesFirst
  <2>3. Window(t)' /\ CarriesTheDraft(t)'
    BY <1>0, <2>1, <2>2 DEF NodeInv, Window, CarriesTheDraft, Carriers, EffectsOf
  <2>4. Settled(t)' /\ InsideANode(t)'
    BY <1>0, <2>1 DEF Settled, InsideANode
  <2> QED
    BY <2>1, <2>3, <2>4 DEF NodeInv
<1> QED
  BY <1>1, <1>2, <1>3, <1>4 DEF Turn

(* What a body saves or sends is the draft. *)
LEMMA ActsCarryTheDraft ==
  ASSUME TakesInv, NEW t \in Takes \ Callers, NodeInv(t), pc[t] = "body", g' = g,
         effects' = effects \/ effects' = effects \cup Effects(t)
  PROVE  CarriesTheDraft(t)'
<1>1. /\ at[t] \in Tools /\ g[t].pending # NoAct /\ g[t] \in GraphState
      /\ AtItsAct(t) /\ DraftIsTheReport(t)
  BY DEF TakesInv, GovernanceInv, Blocks, TypeOK, Saving, Saves
<1>2. g[t].pending.tool = at[t]
  BY <1>1 DEF AtItsAct, Tools
<1>3. ASSUME NEW e \in Effects(t), e.done.capability \in {"write_internal_report", "send_external_email"}
      PROVE  TextOf(e) = g[t].draft
  <2>1. e.done = Performed(at[t], g[t], corpus)
    BY <1>3 DEF Effects
  <2>2. e.done.capability = at[t]
    BY <2>1 DEF Performed
  <2>3. CASE at[t] = "write_internal_report"
    BY <1>2, <2>1, <2>2, <2>3 DEF TextOf, Performed, Used, Resolve
  <2>4. CASE at[t] = "send_external_email"
    <3>1. e.done.args["body"] = IF g[t].reportText # Nothing THEN g[t].reportText ELSE g[t].draft
      BY <1>2, <2>1, <2>4 DEF Performed, Used, Resolve
    <3> QED
      BY <1>1, <2>2, <2>4, <3>1 DEF TextOf, DraftIsTheReport
  <2> QED
    BY <1>3, <2>2, <2>3, <2>4
<1> QED
  BY <1>3 DEF NodeInv, CarriesTheDraft, Carriers, EffectsOf

(* So do the steps between its turns, and its death. *)
LEMMA OnwardKeepsNode ==
  ASSUME TakesInv, LoopTyped, NEW t \in Takes \ Callers, NodeInv(t), Onward(t) \/ Crash(t), UNCHANGED loop
  PROVE  NodeInv(t)'
<1>0. TypeOK
  BY DEF TakesInv, GovernanceInv
<1>1. WorkComesFirst(t)' <=> WorkComesFirst(t)
  BY DEF WorkComesFirst
<1>2. CASE ReasonRaises(t)
  <2>1. pc[t] = "running" /\ pc'[t] = "over" /\ result'[t] = Uncaught /\ UNCHANGED <<at, g, effects>>
    BY <1>0, <1>2 DEF ReasonRaises, Over, TypeOK
  <2> QED
    BY <1>1, <2>1 DEF NodeInv, Settled, InsideANode, Window, CarriesTheDraft, Carriers, EffectsOf,
                      Uncaught
<1>3. CASE Ask(t)
  <2>1. /\ pc[t] = "running" /\ UNCHANGED <<at, g, effects>>
        /\ pc'[t] = "body" => at[t] \in Tools /\ g[t].pending # NoAct
    BY <1>0, <1>3 DEF Ask, NothingToBind, AskUnreachable, AskRefused, AskAllowed, AskDenied,
                      AskOpensWait, AskFindsPending, AskFindsApproved, AskFindsRejected,
                      CouldNotAsk, Over, Asking, TypeOK
  <2>2. /\ pc'[t] \in {"over", "body"}
        /\ result'[t] = result[t] \/ result'[t] \in {"unobservable", "refused", "denied", "suspended",
                                                     "rejected", Uncaught}
    BY <1>0, <1>3 DEF Ask, NothingToBind, AskUnreachable, AskRefused, AskAllowed, AskDenied,
                      AskOpensWait, AskFindsPending, AskFindsApproved, AskFindsRejected,
                      CouldNotAsk, Over, Enter, TypeOK
  <2>3. Settled(t)' /\ InsideANode(t)'
    BY <2>1, <2>2 DEF NodeInv, Settled, InsideANode, Uncaught
  <2> QED
    BY <1>1, <2>1, <2>3 DEF NodeInv, Window, CarriesTheDraft, Carriers, EffectsOf
<1>4. CASE Execute(t) \/ BodyRaises(t)
  <2>1. /\ pc[t] = "body" /\ UNCHANGED <<at, g>>
        /\ effects' = effects \/ effects' = effects \cup Effects(t)
        /\ \/ pc'[t] \in {"acted", "declined"} /\ result'[t] = result[t]
           \/ pc'[t] = "over" /\ result'[t] = Uncaught
        /\ pc'[t] = "acted" => ~ToolRefuses(at[t], g[t], corpus)
    BY <1>0, <1>4 DEF Execute, BodyRaises, Over, TypeOK
  <2>2. CarriesTheDraft(t)'
    BY <2>1, ActsCarryTheDraft
  <2>3. pc'[t] = "acted" /\ at[t] = "write_internal_report" => g[t].draft # Nothing
    <3>1. at[t] \in Tools /\ g[t].pending # NoAct /\ AtItsAct(t)
      BY <2>1 DEF NodeInv, InsideANode, TakesInv, Saving, Saves
    <3>2. g[t].pending.tool = at[t]
      BY <3>1 DEF AtItsAct, Tools
    <3> QED
      BY <2>1, <3>2 DEF ToolRefuses, Resolve
  <2>4. Settled(t)' /\ InsideANode(t)' /\ Window(t)'
    BY <1>1, <2>1, <2>3 DEF NodeInv, Settled, InsideANode, Window, Uncaught
  <2> QED
    BY <2>2, <2>4 DEF NodeInv
<1>5. CASE Return(t)
  <2>1. /\ pc[t] \in {"acted", "declined"} /\ pc'[t] = "running" /\ at'[t] = "reason"
        /\ UNCHANGED <<result, effects>> /\ g'[t].draft = g[t].draft
    BY <1>0, <1>5 DEF Return, TypeOK, GraphState
  <2> QED
    BY <1>1, <2>1 DEF NodeInv, Settled, InsideANode, Window, CarriesTheDraft, Carriers, EffectsOf
<1>6. CASE Exit(t) \/ StartWaiting(t) \/ Answered(t) \/ ReadsNothing(t) \/ GiveUp(t)
           \/ PollAgain(t) \/ Resume(t) \/ Crash(t)
  <2>1. /\ UNCHANGED <<at, g, result, effects>>
        /\ \/ pc'[t] \in {"exited", "crashed"}
           \/ /\ pc[t] \in {"waiting", "unanswered", "answered"}
              /\ pc'[t] \in {"waiting", "unanswered", "answered", "running"}
           \/ result[t] = "suspended" /\ pc'[t] = "waiting"
    BY <1>0, <1>6 DEF Exit, StartWaiting, Answered, ReadsNothing, GiveUp, PollAgain, Resume, Crash,
                      Idle, TypeOK
  <2> QED
    BY <1>1, <2>1 DEF NodeInv, Settled, InsideANode, Window, CarriesTheDraft, Carriers, EffectsOf
<1> QED
  BY <1>2, <1>3, <1>4, <1>5, <1>6 DEF Onward

(* One step of one take, or around all of them. *)
LEMMA WholeInvStays == TakesInv /\ WholeInv /\ [WholeNext]_wholeVars => WholeInv'
<1> SUFFICES ASSUME TakesInv, WholeInv, [WholeNext]_wholeVars PROVE WholeInv'
  OBVIOUS
<1>0. TypeOK /\ LoopTyped
  BY DEF TakesInv, GovernanceInv, WholeInv
<1>1. ASSUME NEW u \in Takes, Turn(u) PROVE WholeInv'
  <2>1. u \in Takes \ Callers
    BY <1>1 DEF Turn, TurnProposes, TurnCorrected, TurnAnswers, TurnCallsUnknown, AtReason
  <2>2. NodeInv(u)' /\ OnlyLoopOf(u)
    BY <1>0, <1>1, <2>1, TurnKeepsNode DEF WholeInv
  <2>3. Step(u)
    BY <1>0, <1>1, TurnIsAStep DEF Step
  <2>4. ASSUME NEW t \in Takes \ Callers, t # u PROVE NodeInv(t)'
    BY <1>0, <2>2, <2>3, <2>4, OthersStay, NodeUntouched DEF WholeInv, OnlyLoopOf
  <2> QED
    BY <2>2, <2>4 DEF WholeInv, LoopTyped, OnlyLoopOf
<1>2. ASSUME NEW u \in Takes, Onward(u) \/ CallerResumes(u) \/ Crash(u), UNCHANGED loop
      PROVE  WholeInv'
  <2>1. Step(u) \/ CallerResumes(u) \/ Crash(u)
    BY <1>2, OnwardIsAStep
  <2>2. ASSUME NEW t \in Takes \ Callers PROVE NodeInv(t)'
    <3>1. CASE t # u
      BY <1>0, <1>2, <2>1, <3>1, OthersStay, NodeUntouched DEF WholeInv
    <3>2. CASE t = u
      BY <1>0, <1>2, <3>2, OnwardKeepsNode DEF WholeInv, CallerResumes
    <3> QED
      BY <3>1, <3>2
  <2> QED
    BY <1>0, <1>2, <2>2 DEF WholeInv, LoopTyped
<1>3. CASE (Environment /\ UNCHANGED loop) \/ UNCHANGED wholeVars
  <2>1. UNCHANGED <<pc, at, g, result, effects, loop>>
    BY <1>3 DEF Environment, Approve, Reject, Lapse, PlaneGoesOrReturns, CorpusChanges, Around,
                take, vars, wholeVars
  <2>2. ASSUME NEW t \in Takes \ Callers PROVE NodeInv(t)'
    BY <2>1, NodeUntouched DEF WholeInv
  <2> QED
    BY <1>0, <2>1, <2>2 DEF WholeInv, LoopTyped
<1>4. ASSUME NEW u \in Takes, Onward(u) PROVE UNCHANGED loop
  BY <1>4 DEF Onward
<1> QED
  BY <1>1, <1>2, <1>3, <1>4 DEF WholeNext

LEMMA WholeInvStarts == WholeInit => WholeInv
<1> SUFFICES ASSUME WholeInit PROVE WholeInv
  OBVIOUS
<1>1. LoopTyped
  BY WholeAssumption DEF WholeInit, LoopTyped, Loop
<1>2. ASSUME NEW t \in Takes PROVE NodeInv(t)
  BY DEF WholeInit, Init, NodeInv, Settled, InsideANode, Window, CarriesTheDraft, Carriers, EffectsOf,
         NoResult
<1> QED
  BY <1>1, <1>2 DEF WholeInv

(* The node's members keep to their values, corrections stay within the bound,
   and what a take and its node say of each other agrees, for any number of
   takes and any list of required acts.                                      *)
THEOREM WholeInvariant == WholeSpec => []WholeInv
BY TakesInvHolds, WholeInvStarts, WholeInvStays, PTL DEF WholeSpec

(* Every text that a take of main saves or sends is the same text: what the
   model wrote when it was asked for the report, whatever else it wrote, was
   corrected about, had refused or re-asked.                                 *)
THEOREM OneReportOnly == WholeSpec => []OneReport
<1>1. WholeInv => OneReport
  BY DEF WholeInv, NodeInv, CarriesTheDraft, OneReport
<1> QED
  BY <1>1, WholeInvariant, PTL

(* It is saved and sent after the work it reports on was attempted: what the
   scenario lists before some write.                                         *)
THEOREM WorkBeforeTheReport == WholeSpec => []ReportFollowsTheWork
<1>1. WholeInv => ReportFollowsTheWork
  BY DEF WholeInv, NodeInv, CarriesTheDraft, Window, Carriers, ReportFollowsTheWork
<1> QED
  BY <1>1, WholeInvariant, PTL

-----------------------------------------------------------------------------
(***************************************************************************)
(* Seen from the node: each take of main is a run of ReasonLoop.           *)
(***************************************************************************)
(* What a take looks like to its node. *)
LEMMA InTheGraph ==
  ASSUME NEW t \in Takes, result[t] # "completed", pc[t] \notin {"over", "exited", "crashed"}
  PROVE  NodeAt(t) = at[t]
BY DEF NodeAt

LEMMA NothingIsSaid ==
  ASSUME NEW t \in Takes, NodeInv(t), DraftIsTheReport(t)
  PROVE  /\ Said(t, g[t].draft) = "none" <=> g[t].draft = Nothing
         /\ Said(t, g[t].reportText) = "none" <=> g[t].reportText = Nothing
BY DEF NodeInv, Window, DraftIsTheReport, Said

(* A step that leaves the take where its node sees it. *)
LEMMA NodeStands ==
  ASSUME NEW t \in Takes, NodeAt(t)' = NodeAt(t), loop'[t] = loop[t],
         g'[t].draft = g[t].draft, g'[t].reportText = g[t].reportText
  PROVE  UNCHANGED Node(t)!vars
BY DEF Node!vars, Said

(* A step that takes it out of the graph. *)
LEMMA NodeLeaves ==
  ASSUME NEW t \in Takes, NodeAt(t) \in Tools \cup {"reason"}, NodeAt(t)' = "left",
         loop'[t] = loop[t], g'[t].draft = g[t].draft, g'[t].reportText = g[t].reportText
  PROVE  Node(t)!Next
<1>1. Node(t)!Leave
  BY DEF Node!Leave, Node!Tools, Tools, Said
<1> QED
  BY <1>1 DEF Node!Next

(* How the prose of a reply is read. *)
LEMMA ProseMaps ==
  ASSUME NEW t \in Takes, NodeInv(t), DraftIsTheReport(t), NEW prose \in Texts \cup {Nothing},
         ProseIsRead(t, prose)
  PROVE  /\ Node(t)!Taken(prose # Nothing) <=> Taken(t, prose)
         /\ Node(t)!TakeDraft(prose # Nothing)
         /\ Said(t, g[t].reportText)' = Said(t, g[t].reportText)
         /\ Said(t, g[t].draft)' = "none" <=> DraftOf(t, prose) = Nothing
<1>1. Node(t)!Taken(prose # Nothing) <=> Taken(t, prose)
  BY NothingIsSaid DEF Node!Taken, Node!Answering, Node!None, Taken
<1>2. /\ Said(t, g[t].draft)' =
           IF Taken(t, prose) THEN IF loop[t].asked THEN "report" ELSE "remark"
           ELSE Said(t, g[t].draft)
      /\ Said(t, g[t].reportText)' = Said(t, g[t].reportText)
  BY DEF ProseIsRead, DraftOf, Taken, Said
<1>3. Node(t)!TakeDraft(prose # Nothing)
  BY <1>1, <1>2 DEF Node!TakeDraft
<1>4. Said(t, g[t].draft)' = "none" <=> DraftOf(t, prose) = Nothing
  BY <1>2, NothingIsSaid DEF Taken, DraftOf
<1> QED
  BY <1>1, <1>2, <1>3, <1>4

LEMMA SameMissing ==
  ASSUME NEW t \in Takes
  PROVE  Node(t)!Missing = Missing(t) /\ Node(t)!FirstMissing = FirstMissing(t)
<1>1. Node(t)!Missing = Missing(t)
  BY DEF Node!Missing, Missing
<1>2. Node(t)!FirstMissing = FirstMissing(t)
  BY <1>1 DEF Node!FirstMissing, FirstMissing
<1> QED
  BY <1>1, <1>2

(* A turn of the take is a turn of its node. *)
LEMMA TurnMaps ==
  ASSUME TakesInv, LoopTyped, NEW t \in Takes \ Callers, NodeInv(t), Turn(t)
  PROVE  Node(t)!Next
<1>0. /\ TypeOK /\ DraftIsTheReport(t)
      /\ pc[t] = "running" /\ at[t] = "reason" /\ result[t] # "completed"
  BY DEF Turn, TurnProposes, TurnCorrected, TurnAnswers, TurnCallsUnknown, AtReason, NodeInv, Settled,
         TakesInv, GovernanceInv, Saving, Saves
<1>1. NodeAt(t) = "reason"
  BY <1>0, InTheGraph
<1>2. CASE TurnProposes(t)
  <2>1. PICK tool \in Tools, prose \in Texts \cup {Nothing} :
          /\ at'[t] = tool /\ UNCHANGED <<pc, result, effects>>
          /\ OnlyLoopOf(t) /\ ProseIsRead(t, prose)
          /\ ~loop'[t].nudge /\ ~loop'[t].asked
          /\ loop'[t].draft_requested = (loop[t].draft_requested /\ ~Taken(t, prose))
          /\ loop'[t].attempted = loop[t].attempted \cup {tool}
          /\ loop'[t].calls = loop[t].calls + 1
          /\ loop'[t].nudges = loop[t].nudges /\ loop'[t].sentBack = loop[t].sentBack
    BY <1>0, <1>2, Proposing
  <2>2. NodeAt(t)' = tool
    BY <1>0, <2>1 DEF NodeAt
  <2>3. loop[t].calls < MaxCalls
    BY <1>2 DEF TurnProposes
  <2>4. /\ Node(t)!Taken(prose # Nothing) <=> Taken(t, prose)
        /\ Node(t)!TakeDraft(prose # Nothing)
        /\ Said(t, g[t].reportText)' = Said(t, g[t].reportText)
    BY <1>0, <2>1, ProseMaps
  <2>5. Node(t)!CallTool(tool, prose # Nothing)
    BY <1>1, <2>1, <2>2, <2>3, <2>4 DEF Node!CallTool
  <2>6. tool \in Node(t)!Tools /\ (prose # Nothing) \in BOOLEAN
    BY DEF Node!Tools, Tools
  <2> QED
    BY <2>5, <2>6 DEF Node!Next, Node!Proceed
<1>3. CASE TurnCorrected(t)
  <2>1. PICK prose \in Texts \cup {Nothing} :
          /\ UNCHANGED <<pc, at, result, effects>>
          /\ OnlyLoopOf(t) /\ ProseIsRead(t, prose)
          /\ loop'[t].nudge = TRUE /\ loop'[t].nudges = loop[t].nudges + 1
          /\ loop'[t].sentBack = loop[t].sentBack + 1
          /\ loop'[t].draft_requested = Asks(t, prose) /\ loop'[t].asked = Asks(t, prose)
          /\ loop'[t].attempted = loop[t].attempted /\ loop'[t].calls = loop[t].calls
    BY <1>0, <1>3, Correcting
  <2>2. NodeAt(t)' = "reason"
    BY <1>0, <2>1 DEF NodeAt
  <2>3. Missing(t) # {} /\ loop[t].nudges < MaxNudges
    BY <1>3 DEF TurnCorrected
  <2>4. /\ Node(t)!TakeDraft(prose # Nothing)
        /\ Said(t, g[t].reportText)' = Said(t, g[t].reportText)
        /\ Said(t, g[t].draft)' = "none" <=> DraftOf(t, prose) = Nothing
    BY <1>0, <2>1, ProseMaps
  <2>5. Node(t)!AskingForDraft = Asks(t, prose)
    BY <2>4, SameMissing DEF Node!AskingForDraft, Node!None, Asks
  <2>6. Node(t)!Correct(prose # Nothing)
    BY <1>1, <2>1, <2>2, <2>3, <2>4, <2>5, SameMissing DEF Node!Correct, Node!RouteWithoutAct
  <2> QED
    BY <2>6 DEF Node!Next, Node!Proceed
<1>4. CASE TurnAnswers(t)
  <2>1. PICK prose \in Texts \cup {Nothing} :
          /\ UNCHANGED <<at, effects>> /\ pc'[t] = "over" /\ result'[t] = "completed"
          /\ OnlyLoopOf(t) /\ ProseIsRead(t, prose)
          /\ ~loop'[t].nudge /\ ~loop'[t].asked
          /\ loop'[t].draft_requested = (loop[t].draft_requested /\ ~Taken(t, prose))
          /\ loop'[t].attempted = loop[t].attempted /\ loop'[t].calls = loop[t].calls
          /\ loop'[t].nudges = loop[t].nudges /\ loop'[t].sentBack = loop[t].sentBack
          /\ loop'[t].over = "answered"
    BY <1>0, <1>4, Answering
  <2>2. NodeAt(t)' = "answered"
    BY <2>1 DEF NodeAt
  <2>3. Missing(t) = {} \/ loop[t].nudges >= MaxNudges
    BY <1>4 DEF TurnAnswers
  <2>4. /\ Node(t)!Taken(prose # Nothing) <=> Taken(t, prose)
        /\ Node(t)!TakeDraft(prose # Nothing)
        /\ Said(t, g[t].reportText)' = Said(t, g[t].reportText)
    BY <1>0, <2>1, ProseMaps
  <2>5. Node(t)!Answer(prose # Nothing)
    BY <1>1, <2>1, <2>2, <2>3, <2>4, SameMissing DEF Node!Answer, Node!RouteWithoutAct
  <2> QED
    BY <2>5 DEF Node!Next, Node!Proceed
<1>5. CASE TurnCallsUnknown(t)
  <2>1. /\ UNCHANGED <<at, effects>> /\ OnlyLoopOf(t)
        /\ g'[t].draft = g[t].draft /\ g'[t].reportText = g[t].reportText
        /\ loop'[t].drafted = loop[t].drafted
        /\ loop'[t].nudge = loop[t].nudge /\ ~loop'[t].asked
        /\ loop'[t].draft_requested = loop[t].draft_requested
        /\ loop'[t].attempted = loop[t].attempted /\ loop'[t].calls = loop[t].calls + 1
        /\ loop'[t].nudges = loop[t].nudges
        /\ \/ /\ loop[t].nudge /\ UNCHANGED <<pc, result>>
              /\ loop'[t].sentBack = loop[t].sentBack + 1
           \/ /\ ~loop[t].nudge /\ pc'[t] = "over" /\ result'[t] = "completed"
              /\ loop'[t].sentBack = loop[t].sentBack /\ loop'[t].over = "ended"
    BY <1>0, <1>5, CallingUnknown
  <2>2. NodeAt(t)' = IF loop[t].nudge THEN "reason" ELSE "ended"
    BY <1>0, <2>1 DEF NodeAt
  <2>3. loop[t].calls < MaxCalls
    BY <1>5 DEF TurnCallsUnknown
  <2>4. Said(t, g[t].draft)' = Said(t, g[t].draft) /\ Said(t, g[t].reportText)' = Said(t, g[t].reportText)
    BY <2>1 DEF Said
  <2>5. Node(t)!CallUnknown
    BY <1>1, <2>1, <2>2, <2>3, <2>4 DEF Node!CallUnknown, Node!RouteWithoutAct
  <2> QED
    BY <2>5 DEF Node!Next, Node!Proceed
<1> QED
  BY <1>2, <1>3, <1>4, <1>5 DEF Turn

(* Between its turns, the node sees a return, the end of the run, or nothing. *)
LEMMA OnwardMaps ==
  ASSUME TakesInv, LoopTyped, NEW t \in Takes \ Callers, NodeInv(t), Onward(t) \/ Crash(t),
         UNCHANGED loop
  PROVE  [Node(t)!Next]_(Node(t)!vars)
<1>0. /\ TypeOK /\ DraftIsTheReport(t) /\ AtItsAct(t)
      /\ at[t] \in Tools \cup {"reason"} /\ g[t] \in GraphState
  BY DEF TakesInv, GovernanceInv, Saving, Saves, TypeOK
<1>1. CASE ReasonRaises(t)
  <2>1. /\ pc[t] = "running" /\ pc'[t] = "over" /\ result'[t] = Uncaught /\ UNCHANGED <<at, g>>
    BY <1>0, <1>1 DEF ReasonRaises, Over, TypeOK
  <2>2. NodeAt(t) = at[t] /\ NodeAt(t)' = "left"
    BY <2>1 DEF NodeInv, Settled, NodeAt, Uncaught
  <2> QED
    BY <1>0, <2>1, <2>2, NodeLeaves
<1>2. CASE Ask(t)
  <2>1. pc[t] = "running" /\ UNCHANGED <<at, g>>
    BY <1>2 DEF Ask, NothingToBind, AskUnreachable, AskRefused, AskAllowed, AskDenied,
                AskOpensWait, AskFindsPending, AskFindsApproved, AskFindsRejected, Asking
  <2>2. \/ pc'[t] = "body" /\ result'[t] = result[t]
        \/ pc'[t] = "over" /\ result'[t] \in {"unobservable", "refused", "denied", "suspended",
                                              "rejected", Uncaught}
    BY <1>0, <1>2 DEF Ask, NothingToBind, AskUnreachable, AskRefused, AskAllowed, AskDenied,
                      AskOpensWait, AskFindsPending, AskFindsApproved, AskFindsRejected,
                      CouldNotAsk, Over, Enter, TypeOK
  <2>3. NodeAt(t) = at[t] /\ NodeAt(t)' \in {at[t], "left"}
    BY <2>1, <2>2 DEF NodeInv, Settled, NodeAt, Uncaught
  <2> QED
    BY <1>0, <2>1, <2>3, NodeLeaves, NodeStands
<1>3. CASE Execute(t) \/ BodyRaises(t)
  <2>1. /\ pc[t] = "body" /\ UNCHANGED <<at, g>>
        /\ \/ pc'[t] \in {"acted", "declined"} /\ result'[t] = result[t]
           \/ pc'[t] = "over" /\ result'[t] = Uncaught
    BY <1>0, <1>3 DEF Execute, BodyRaises, Over, TypeOK
  <2>2. NodeAt(t) = at[t] /\ NodeAt(t)' \in {at[t], "left"}
    BY <2>1 DEF NodeInv, Settled, NodeAt, Uncaught
  <2> QED
    BY <1>0, <2>1, <2>2, NodeLeaves, NodeStands
<1>4. CASE Return(t)
  <2>1. /\ pc[t] \in {"acted", "declined"} /\ pc'[t] = "running" /\ at'[t] = "reason"
        /\ UNCHANGED result /\ g'[t].draft = g[t].draft
        /\ g'[t].reportText =
             IF pc[t] = "acted" /\ g[t].pending.tool = "write_internal_report"
             THEN g[t].draft ELSE g[t].reportText
    BY <1>0, <1>4 DEF Return, TypeOK, GraphState
  <2>2. NodeAt(t) = at[t] /\ NodeAt(t)' = "reason"
    BY <2>1 DEF NodeInv, Settled, NodeAt
  <2>3. at[t] \in Tools /\ g[t].pending.tool = at[t]
    BY <1>0, <2>1 DEF NodeInv, InsideANode, AtItsAct, Tools
  <2>4. loop[t].asked = FALSE
    <3>1. at[t] # "reason" /\ loop[t].asked \in BOOLEAN
      BY <2>3 DEF LoopTyped, Loop, Tools
    <3> QED
      BY <3>1 DEF NodeInv, Window
  <2> DEFINE executed == pc[t] = "acted"
  <2>5. /\ Said(t, g[t].draft)' = Said(t, g[t].draft)
        /\ Said(t, g[t].reportText)' =
             IF executed /\ at[t] = "write_internal_report"
             THEN Said(t, g[t].draft) ELSE Said(t, g[t].reportText)
    BY <2>1, <2>3 DEF Said
  <2>6. at[t] = "write_internal_report" /\ Said(t, g[t].draft) = "none" => ~executed
    BY <1>0, NothingIsSaid DEF NodeInv, InsideANode
  <2>7. Node(t)!ToolReturns(executed)
    BY <2>2, <2>3, <2>4, <2>5, <2>6 DEF Node!ToolReturns, Node!Tools, Node!None, Tools
  <2>8. executed \in BOOLEAN
    OBVIOUS
  <2> QED
    BY <2>7, <2>8 DEF Node!Next, Node!Proceed
<1>5. CASE Exit(t) \/ StartWaiting(t) \/ Answered(t) \/ ReadsNothing(t) \/ GiveUp(t)
           \/ PollAgain(t) \/ Resume(t) \/ Crash(t)
  <2>1. /\ UNCHANGED <<at, g, result>>
        /\ \/ pc'[t] \in {"exited", "crashed"} /\ pc[t] \notin {"exited", "crashed"}
           \/ /\ pc[t] \in {"waiting", "unanswered", "answered"}
              /\ pc'[t] \in {"waiting", "unanswered", "answered", "running"}
           \/ result[t] = "suspended" /\ pc[t] = "over" /\ pc'[t] = "waiting"
    BY <1>0, <1>5 DEF Exit, StartWaiting, Answered, ReadsNothing, GiveUp, PollAgain, Resume, Crash,
                      Idle, TypeOK
  <2>2. \/ NodeAt(t)' = NodeAt(t)
        \/ NodeAt(t) = at[t] /\ NodeAt(t)' = "left"
    BY <2>1 DEF NodeInv, Settled, NodeAt
  <2> QED
    BY <1>0, <2>1, <2>2, NodeLeaves, NodeStands
<1> QED
  BY <1>1, <1>2, <1>3, <1>4, <1>5 DEF Onward

LEMMA NodeSteps ==
  ASSUME TakesInv, WholeInv, [WholeNext]_wholeVars, NEW t \in Takes \ Callers
  PROVE  [Node(t)!Next]_(Node(t)!vars)
<1>0. TypeOK /\ LoopTyped /\ NodeInv(t)
  BY DEF TakesInv, GovernanceInv, WholeInv
<1>1. ASSUME NEW u \in Takes, Turn(u) PROVE [Node(t)!Next]_(Node(t)!vars)
  <2>1. CASE u = t
    BY <1>0, <1>1, <2>1, TurnMaps
  <2>2. CASE u # t
    <3>1. u \in Takes \ Callers
      BY <1>1 DEF Turn, TurnProposes, TurnCorrected, TurnAnswers, TurnCallsUnknown, AtReason
    <3>2. loop'[t] = loop[t] /\ Step(u)
      BY <1>0, <1>1, <2>2, <3>1, TurnKeepsNode, TurnIsAStep DEF WholeInv, OnlyLoopOf, Step
    <3>3. pc'[t] = pc[t] /\ at'[t] = at[t] /\ g'[t] = g[t] /\ result'[t] = result[t]
      BY <1>0, <2>2, <3>2, OthersStay
    <3> QED
      BY <3>2, <3>3, NodeStands DEF NodeAt
  <2> QED
    BY <2>1, <2>2
<1>2. ASSUME NEW u \in Takes, Onward(u) \/ CallerResumes(u) \/ Crash(u), UNCHANGED loop
      PROVE  [Node(t)!Next]_(Node(t)!vars)
  <2>1. CASE u = t
    BY <1>0, <1>2, <2>1, OnwardMaps DEF CallerResumes
  <2>2. CASE u # t
    <3>1. pc'[t] = pc[t] /\ at'[t] = at[t] /\ g'[t] = g[t] /\ result'[t] = result[t]
      BY <1>0, <1>2, <2>2, OnwardIsAStep, OthersStay
    <3> QED
      BY <1>2, <3>1, NodeStands DEF NodeAt
  <2> QED
    BY <2>1, <2>2
<1>3. CASE (Environment /\ UNCHANGED loop) \/ UNCHANGED wholeVars
  <2>1. UNCHANGED <<pc, at, g, result, loop>>
    BY <1>3 DEF Environment, Approve, Reject, Lapse, PlaneGoesOrReturns, CorpusChanges, Around,
                take, vars, wholeVars
  <2> QED
    BY <2>1, NodeStands DEF NodeAt
<1>4. ASSUME NEW u \in Takes, Onward(u) PROVE UNCHANGED loop
  BY <1>4 DEF Onward
<1> QED
  BY <1>1, <1>2, <1>3, <1>4 DEF WholeNext

LEMMA NodeStarts ==
  ASSUME WholeInit, NEW t \in Takes
  PROVE  Node(t)!Init
BY DEF WholeInit, Init, NodeAt, Said, NoResult, Node!Init, Node!None

(* Whatever the plane, a person and other takes do around it, a take's
   reasoning node and its routes (make_reason_node, route) behave as the loop
   alone does: the take's steps are the loop's steps or none of its own.     *)
THEOREM EachNodeIsALoop ==
  ASSUME NEW t \in Takes \ Callers
  PROVE  WholeSpec => Node(t)!Spec
<1>1. WholeInit => Node(t)!Init
  BY NodeStarts
<1>2. TakesInv /\ WholeInv /\ [WholeNext]_wholeVars => [Node(t)!Next]_(Node(t)!vars)
  BY NodeSteps
<1> QED
  BY <1>1, <1>2, TakesInvHolds, WholeInvariant, PTL DEF WholeSpec, Node!Spec

(* The same of all the takes of main together: no step of any process disturbs
   what the reasoning node of any take goes by (run.py's takes share no state
   of the graph, only the plane, the corpus and the outbox).                 *)
THEOREM LoopsRun == WholeSpec => RunsTheLoop
<1>1. WholeInit => \A t \in Takes \ Callers : Node(t)!Init
  BY NodeStarts
<1>2. TakesInv /\ WholeInv /\ [WholeNext]_wholeVars =>
        [\A t \in Takes \ Callers : [Node(t)!Next]_(Node(t)!vars)]_wholeVars
  BY NodeSteps
<1> QED
  BY <1>1, <1>2, TakesInvHolds, WholeInvariant, PTL DEF WholeSpec, RunsTheLoop

-----------------------------------------------------------------------------
(***************************************************************************)
(* What a completed take has been through.                                 *)
(***************************************************************************)
(* A correction that is counted was made, and the model is sent back by a
   correction or a call alone.                                               *)
Rounds(t) ==
  /\ loop[t].nudges <= loop[t].sentBack
  /\ loop[t].sentBack <= loop[t].nudges + loop[t].calls
(* How the graph was left with work outstanding. *)
LetOff(t) ==
  /\ loop[t].over = "answered" /\ Missing(t) # {} => loop[t].nudges = MaxNudges
  /\ loop[t].over = "ended" => ~loop[t].nudge
RoundsInv == \A t \in Takes \ Callers : Rounds(t) /\ LetOff(t)

(* A take that is reported as completed attempted every required act, or was
   sent back MAX_NUDGES times and more, or called a tool that does not exist
   while no correction was outstanding; and none is sent back without end.   *)
CompletedOrLetOff ==
  \A t \in Takes \ Callers :
    /\ loop[t].sentBack <= MaxNudges + MaxCalls
    /\ result[t] = "completed" =>
          \/ Missing(t) = {}
          \/ loop[t].nudges = MaxNudges /\ loop[t].sentBack >= MaxNudges
          \/ loop[t].over = "ended" /\ ~loop[t].nudge

LEMMA RoundsOfATurn ==
  ASSUME TypeOK, LoopTyped, NEW t \in Takes, NodeInv(t), Rounds(t), LetOff(t), Turn(t)
  PROVE  Rounds(t)' /\ LetOff(t)'
<1>0. loop[t] \in Loop /\ loop[t].over = "none"
  BY DEF LoopTyped, NodeInv, Settled, Turn, TurnProposes, TurnCorrected, TurnAnswers,
         TurnCallsUnknown, AtReason
<1>1. /\ loop[t].nudges \in 0..MaxNudges /\ loop[t].calls \in 0..MaxCalls
      /\ loop[t].sentBack \in Nat /\ MaxNudges \in Nat /\ MaxCalls \in Nat
  BY <1>0, WholeAssumption DEF Loop
<1>2. CASE TurnProposes(t)
  <2>1. /\ loop'[t].calls = loop[t].calls + 1 /\ loop'[t].nudges = loop[t].nudges
        /\ loop'[t].sentBack = loop[t].sentBack /\ loop'[t].over = "none"
    BY <1>0, <1>2, Proposing
  <2> QED
    BY <1>1, <2>1 DEF Rounds, LetOff
<1>3. CASE TurnCorrected(t)
  <2>1. /\ loop'[t].calls = loop[t].calls /\ loop'[t].nudges = loop[t].nudges + 1
        /\ loop'[t].sentBack = loop[t].sentBack + 1 /\ loop'[t].over = "none"
    BY <1>0, <1>3, Correcting
  <2> QED
    BY <1>1, <2>1 DEF Rounds, LetOff
<1>4. CASE TurnAnswers(t)
  <2>1. /\ loop'[t].calls = loop[t].calls /\ loop'[t].nudges = loop[t].nudges
        /\ loop'[t].sentBack = loop[t].sentBack /\ loop'[t].over = "answered"
        /\ loop'[t].attempted = loop[t].attempted
    BY <1>4, Answering
  <2>2. Missing(t)' = Missing(t)
    BY <2>1 DEF Missing
  <2>3. Missing(t) = {} \/ loop[t].nudges >= MaxNudges
    BY <1>4 DEF TurnAnswers
  <2> QED
    BY <1>1, <2>1, <2>2, <2>3 DEF Rounds, LetOff
<1>5. CASE TurnCallsUnknown(t)
  <2>1. /\ loop'[t].calls = loop[t].calls + 1 /\ loop'[t].nudges = loop[t].nudges
        /\ loop'[t].nudge = loop[t].nudge
        /\ \/ loop'[t].sentBack = loop[t].sentBack + 1 /\ loop'[t].over = "none"
           \/ /\ ~loop[t].nudge
              /\ loop'[t].sentBack = loop[t].sentBack /\ loop'[t].over = "ended"
    BY <1>0, <1>5, CallingUnknown
  <2> QED
    BY <1>1, <2>1 DEF Rounds, LetOff
<1> QED
  BY <1>2, <1>3, <1>4, <1>5 DEF Turn

LEMMA RoundsOfOthers ==
  ASSUME NEW t \in Takes, Rounds(t), LetOff(t), loop'[t] = loop[t]
  PROVE  Rounds(t)' /\ LetOff(t)'
BY DEF Rounds, LetOff, Missing

LEMMA RoundsStay == TakesInv /\ WholeInv /\ RoundsInv /\ [WholeNext]_wholeVars => RoundsInv'
<1> SUFFICES ASSUME TakesInv, WholeInv, RoundsInv, [WholeNext]_wholeVars, NEW t \in Takes \ Callers
             PROVE  Rounds(t)' /\ LetOff(t)'
  BY DEF RoundsInv
<1>0. TypeOK /\ LoopTyped /\ NodeInv(t) /\ Rounds(t) /\ LetOff(t)
  BY DEF TakesInv, GovernanceInv, WholeInv, RoundsInv
<1>1. ASSUME NEW u \in Takes, Turn(u) PROVE Rounds(t)' /\ LetOff(t)'
  <2>1. CASE u = t
    BY <1>0, <1>1, <2>1, RoundsOfATurn
  <2>2. CASE u # t
    <3>1. u \in Takes \ Callers
      BY <1>1 DEF Turn, TurnProposes, TurnCorrected, TurnAnswers, TurnCallsUnknown, AtReason
    <3>2. OnlyLoopOf(u)
      BY <1>0, <1>1, <3>1, TurnKeepsNode DEF WholeInv
    <3> QED
      BY <1>0, <2>2, <3>2, RoundsOfOthers DEF OnlyLoopOf
  <2> QED
    BY <2>1, <2>2
<1>2. CASE UNCHANGED loop
  BY <1>0, <1>2, RoundsOfOthers
<1> QED
  BY <1>1, <1>2 DEF WholeNext, Onward, wholeVars

(* "Completed" is said of a take that finished its work or was let off, and the
   validation loop lets off only after MAX_NUDGES corrections, or at an unknown
   tool with none outstanding: for any model, plane and company.             *)
THEOREM CompletedMeansDoneOrLetOff == WholeSpec => []CompletedOrLetOff
<1>1. WholeInit => RoundsInv
  BY WholeAssumption DEF WholeInit, RoundsInv, Rounds, LetOff
<1>2. TakesInv /\ WholeInv /\ RoundsInv /\ [WholeNext]_wholeVars => RoundsInv'
  BY RoundsStay
<1>3. ASSUME WholeInv, RoundsInv, NEW t \in Takes \ Callers
      PROVE  /\ loop[t].sentBack <= MaxNudges + MaxCalls
             /\ result[t] = "completed" =>
                   \/ Missing(t) = {}
                   \/ loop[t].nudges = MaxNudges /\ loop[t].sentBack >= MaxNudges
                   \/ loop[t].over = "ended" /\ ~loop[t].nudge
  <2>1. loop[t] \in Loop /\ Settled(t) /\ Rounds(t) /\ LetOff(t)
    BY <1>3 DEF WholeInv, LoopTyped, NodeInv, RoundsInv
  <2>2. /\ loop[t].nudges \in 0..MaxNudges /\ loop[t].calls \in 0..MaxCalls
        /\ loop[t].sentBack \in Nat /\ MaxNudges \in Nat /\ MaxCalls \in Nat
        /\ loop[t].over \in {"answered", "ended", "none"}
    BY <2>1, WholeAssumption DEF Loop
  <2> QED
    BY <2>1, <2>2 DEF Settled, Rounds, LetOff
<1>4. WholeInv /\ RoundsInv => CompletedOrLetOff
  BY <1>3 DEF CompletedOrLetOff
<1> QED
  BY <1>1, <1>2, <1>4, TakesInvHolds, WholeInvariant, PTL DEF WholeSpec
=============================================================================
