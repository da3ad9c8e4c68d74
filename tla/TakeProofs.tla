----------------------------- MODULE TakeProofs -----------------------------
(***************************************************************************)
(* What a take of main carries from one of its steps to a later one, the   *)
(* question it re-asks and the report it sends; and what all takes         *)
(* together promise.                                                       *)
(***************************************************************************)
EXTENDS GovernanceProofs

(***************************************************************************)
(* The re-ask.                                                             *)
(***************************************************************************)
(* While a take names a wait, it stands at the send it asked about, and the
   question it would put is the one the wait was opened for. Inside a block
   it names none.                                                            *)
Matches(t) ==
  /\ pc[t] \in {"body", "acted", "declined"} => waitRef[t] = Nothing
  /\ pc[t] \in {"over", "waiting", "unanswered", "answered", "running"} /\ waitRef[t] # Nothing =>
       /\ at[t] = "send_external_email" /\ g[t].pending # NoAct
       /\ waits[waitRef[t]].state # "unused"
       /\ TheQuestion(t) = waits[waitRef[t]].question
Reasks == \A t \in Takes \ Callers : Matches(t)

(* A wait that was opened stays opened, for the same question. *)
LEMMA WaitsKeepTheirQuestion ==
  ASSUME TypeOK, [Next]_vars, NEW r \in ApprovalRefs, waits[r].state # "unused"
  PROVE  waits'[r].state # "unused" /\ waits'[r].question = waits[r].question
<1>0. waits \in [ApprovalRefs -> Wait \cup {NoWait}] /\ waits[r] \in Wait
  BY DEF TypeOK, NoWait
<1>1. CASE UNCHANGED waits
  BY <1>1
<1>2. ASSUME NEW q \in ApprovalRefs, NEW s, s # "unused", waits' = [waits EXCEPT ![q].state = s]
      PROVE  waits'[r].state # "unused" /\ waits'[r].question = waits[r].question
  BY <1>0, <1>2 DEF Wait
<1>3. ASSUME NEW t \in Takes, AskOpensWait(t)
      PROVE  waits'[r] = waits[r]
  <2>1. (CHOOSE x \in FreshWaits : TRUE) \in FreshWaits
    BY <1>3 DEF AskOpensWait
  <2>2. (CHOOSE x \in FreshWaits : TRUE) # r
    BY <2>1 DEF FreshWaits
  <2> QED
    BY <1>0, <1>3, <2>2 DEF AskOpensWait
<1>4. ASSUME NEW t \in Takes, AskFindsApproved(t)
      PROVE  \E q \in ApprovalRefs : waits' = [waits EXCEPT ![q].state = "spent"]
  BY <1>4 DEF AskFindsApproved, WaitsFor
<1>5. \/ UNCHANGED waits
      \/ \E t \in Takes : AskOpensWait(t) \/ AskFindsApproved(t)
      \/ \E q \in ApprovalRefs : Approve(q) \/ Reject(q) \/ Lapse(q)
  BY DEF Next, vars, plane, Step, Ask, Environment, Propose, Correct, Finish, NothingPending,
         ReasonRaises, NothingToBind, AskUnreachable, AskRefused, AskAllowed, AskDenied,
         AskFindsPending, AskFindsRejected, Execute, BodyRaises, Return, Exit, StartWaiting,
         Answered, ReadsNothing, GiveUp, PollAgain, Resume, CallerResumes, Crash, Idle,
         PlaneGoesOrReturns, CorpusChanges
<1> QED
  BY <1>1, <1>2, <1>3, <1>4, <1>5 DEF Approve, Reject, Lapse

(* The question about a send does not depend on the corpus. *)
LEMMA SameQuestion ==
  ASSUME TypeOK, TypeOK', NEW t \in Takes, at[t] = "send_external_email", g[t].pending # NoAct,
         at'[t] = at[t], g'[t] = g[t]
  PROVE  TheQuestion(t)' = TheQuestion(t)
<1>1. "send_external_email" \in Tools \ {"read_documents"}
  BY DEF Tools
<1>2. g[t] \in GraphState /\ corpus \in Corpora /\ corpus' \in Corpora
  BY DEF TypeOK
<1>3. \A c, d \in Corpora :
        Question("send_external_email", g[t], c) = Question("send_external_email", g[t], d)
  BY <1>1, <1>2, PerformedIsTheQuestion
<1> QED
  BY <1>2, <1>3 DEF TheQuestion

(* A step that leaves the take where it is, or only moves it on. *)
LEMMA MatchesKept ==
  ASSUME TypeOK, TypeOK', [Next]_vars, NEW t \in Takes, Matches(t),
         at'[t] = at[t], g'[t] = g[t], waitRef'[t] = waitRef[t],
         \/ pc'[t] = pc[t] \/ pc'[t] \in {"acted", "declined", "exited", "crashed"}
         \/ {pc[t], pc'[t]} \subseteq {"over", "waiting", "unanswered", "answered", "running"},
         pc'[t] \in {"acted", "declined"} => pc[t] \in {"body", pc'[t]}
  PROVE  Matches(t)'
<1>1. waitRef[t] \in ApprovalRefs \cup {Nothing}
  BY DEF TypeOK
<1>2. pc'[t] \in {"body", "acted", "declined"} => waitRef'[t] = Nothing
  BY DEF Matches
<1>3. ASSUME pc'[t] \in {"over", "waiting", "unanswered", "answered", "running"},
             waitRef[t] # Nothing
      PROVE  /\ at'[t] = "send_external_email" /\ g'[t].pending # NoAct
             /\ waits'[waitRef[t]].state # "unused"
             /\ TheQuestion(t)' = waits'[waitRef[t]].question
  <2>1. /\ at[t] = "send_external_email" /\ g[t].pending # NoAct
        /\ waits[waitRef[t]].state # "unused" /\ TheQuestion(t) = waits[waitRef[t]].question
    BY <1>3 DEF Matches
  <2>2. waits'[waitRef[t]].state # "unused" /\ waits'[waitRef[t]].question = waits[waitRef[t]].question
    BY <1>1, <1>3, <2>1, WaitsKeepTheirQuestion
  <2>3. TheQuestion(t)' = TheQuestion(t)
    BY <2>1, SameQuestion
  <2> QED
    BY <2>1, <2>2, <2>3
<1> QED
  BY <1>2, <1>3 DEF Matches

(* The ask of a send: the wait it names is the wait for its question. *)
LEMMA AskMatches ==
  ASSUME GovernanceInv, TypeOK', [Next]_vars, NEW t \in Takes, Matches(t), Ask(t)
  PROVE  Matches(t)'
<1>0. TypeOK
  BY DEF GovernanceInv
<1>1. CASE \E d \in DecisionRefs \cup {Nothing} : Enter(t, d)
  BY <1>0, <1>1 DEF Enter, Matches, TypeOK
<1>2. CASE \E verdict : Over(t, verdict, Nothing)
  BY <1>0, <1>2 DEF Over, Matches, TypeOK
<1>3. ASSUME NEW r \in ApprovalRefs, Asking(t), OutcomeFor(t) = "suspend", Over(t, "suspended", r),
             UNCHANGED <<at, g, corpus>>,
             waits'[r].state # "unused", waits'[r].question = TheQuestion(t)
      PROVE  Matches(t)'
  <2>1. at[t] = "send_external_email"
    BY <1>0, <1>3 DEF Asking, OutcomeFor, Policy, TypeOK, Tools
  <2>2. pc'[t] = "over" /\ waitRef'[t] = r
    BY <1>0, <1>3 DEF Over, TypeOK
  <2>3. TheQuestion(t)' = TheQuestion(t)
    BY <1>3 DEF TheQuestion
  <2> QED
    BY <1>3, <2>1, <2>2, <2>3 DEF Matches, Asking
<1>4. CASE AskOpensWait(t)
  <2> DEFINE r == CHOOSE x \in FreshWaits : TRUE
  <2>1. r \in ApprovalRefs
    BY <1>4 DEF AskOpensWait, FreshWaits
  <2>2. waits'[r].state = "pending" /\ waits'[r].question = TheQuestion(t)
    BY <1>0, <1>4, <2>1 DEF AskOpensWait, TypeOK
  <2>3. Over(t, "suspended", r) \/ CouldNotAsk(t)
    BY <1>4 DEF AskOpensWait
  <2> QED
    BY <1>2, <1>3, <1>4, <2>1, <2>2, <2>3 DEF AskOpensWait, CouldNotAsk
<1>5. CASE AskFindsPending(t)
  <2>1. PICK r \in ApprovalRefs :
          /\ waits[r].state = "pending" /\ waits[r].question = TheQuestion(t)
          /\ Over(t, "suspended", r) \/ CouldNotAsk(t)
    BY <1>5 DEF AskFindsPending, WaitsFor
  <2> QED
    BY <1>2, <1>3, <1>5, <2>1 DEF AskFindsPending, CouldNotAsk, plane
<1>6. CASE AskAllowed(t)
  <2>1. (CHOOSE x \in FreshDecisions : TRUE) \in DecisionRefs
    BY <1>6 DEF AskAllowed, FreshDecisions
  <2> QED
    BY <1>1, <1>2, <1>6, <2>1 DEF AskAllowed, CouldNotAsk
<1>7. CASE AskFindsApproved(t)
  <2>1. (CHOOSE x \in FreshDecisions : TRUE) \in DecisionRefs
    BY <1>7 DEF AskFindsApproved, FreshDecisions
  <2> QED
    BY <1>1, <1>2, <1>7, <2>1 DEF AskFindsApproved, CouldNotAsk
<1>8. CASE \/ NothingToBind(t) \/ AskUnreachable(t) \/ AskRefused(t) \/ AskDenied(t)
           \/ AskFindsRejected(t)
  BY <1>2, <1>8 DEF NothingToBind, AskUnreachable, AskRefused, AskDenied, AskFindsRejected,
                    CouldNotAsk
<1> QED
  BY <1>4, <1>5, <1>6, <1>7, <1>8 DEF Ask

LEMMA MatchesStays ==
  ASSUME GovernanceInv, TypeOK', [Next]_vars, NEW t \in Takes \ Callers, Matches(t)
  PROVE  Matches(t)'
<1>0. TypeOK
  BY DEF GovernanceInv
<1>1. CASE \E u \in Takes \ {t} : Step(u) \/ CallerResumes(u) \/ Crash(u)
  <2>1. PICK u \in Takes \ {t} : Step(u) \/ CallerResumes(u) \/ Crash(u)
    BY <1>1
  <2>2. CASE Ask(u)
    <3>1. pc'[t] = pc[t] /\ at'[t] = at[t] /\ g'[t] = g[t] /\ waitRef'[t] = waitRef[t]
      BY <1>0, <2>2 DEF Ask, NothingToBind, AskUnreachable, AskRefused, AskAllowed, AskDenied,
                        AskOpensWait, AskFindsPending, AskFindsApproved, AskFindsRejected,
                        CouldNotAsk, Over, Enter, TypeOK
    <3> QED
      BY <1>0, <3>1, MatchesKept
  <2>3. CASE ~Ask(u)
    <3>1. pc'[t] = pc[t] /\ at'[t] = at[t] /\ g'[t] = g[t] /\ waitRef'[t] = waitRef[t]
      BY <1>0, <2>1, <2>3
         DEF Step, Propose, Correct, Finish, NothingPending, ReasonRaises, Execute, BodyRaises,
             Return, Exit, StartWaiting, Answered, ReadsNothing, GiveUp, PollAgain, Resume,
             CallerResumes, Crash, Idle,
             Over, TypeOK
    <3> QED
      BY <1>0, <3>1, MatchesKept
  <2> QED
    BY <2>2, <2>3
<1>2. CASE Propose(t) \/ Correct(t)
  <2>1. pc'[t] = "running" /\ waitRef'[t] = waitRef[t] /\ at[t] = "reason" /\ pc[t] = "running"
    BY <1>2 DEF Propose, Correct
  <2> QED
    BY <2>1 DEF Matches
<1>3. CASE Finish(t) \/ ReasonRaises(t) \/ BodyRaises(t)
  BY <1>0, <1>3 DEF Finish, ReasonRaises, BodyRaises, Over, Matches, TypeOK
<1>4. CASE Ask(t)
  BY <1>4, AskMatches
<1>5. CASE Execute(t)
  <2>1. pc[t] = "body" /\ pc'[t] \in {"acted", "declined"} /\ UNCHANGED <<at, g, waitRef>>
    BY <1>0, <1>5 DEF Execute, TypeOK
  <2> QED
    BY <1>0, <2>1, MatchesKept
<1>6. CASE Return(t)
  <2>1. pc'[t] = "running" /\ waitRef'[t] = waitRef[t] /\ waitRef[t] = Nothing
    BY <1>0, <1>6 DEF Return, Matches, TypeOK
  <2> QED
    BY <2>1 DEF Matches
<1>7. CASE Exit(t) \/ StartWaiting(t) \/ Answered(t) \/ ReadsNothing(t) \/ GiveUp(t)
           \/ PollAgain(t) \/ Resume(t) \/ Crash(t)
  <2>1. /\ UNCHANGED <<at, g, waitRef>>
        /\ \/ pc'[t] \in {"exited", "crashed"}
           \/ {pc[t], pc'[t]} \subseteq {"over", "waiting", "unanswered", "answered", "running"}
    BY <1>0, <1>7 DEF Exit, StartWaiting, Answered, ReadsNothing, GiveUp, PollAgain, Resume, Crash,
                      Idle, TypeOK
  <2> QED
    BY <1>0, <2>1, MatchesKept
<1>8. CASE Environment \/ UNCHANGED vars
  <2>1. UNCHANGED <<pc, at, g, waitRef>>
    BY <1>8 DEF Environment, Approve, Reject, Lapse, PlaneGoesOrReturns, CorpusChanges, Around,
                take, vars
  <2> QED
    BY <1>0, <2>1, MatchesKept
<1> QED
  BY <1>1, <1>2, <1>3, <1>4, <1>5, <1>6, <1>7, <1>8 DEF Next, Step, CallerResumes

(* A resumed take of main asks what it asked before, whatever happened to the
   corpus, to other takes or to the wait while a person was thinking.        *)
THEOREM ReasksAreTheSame == Spec => []ReaskIsTheSameAsk
<1>1. Init => Reasks
  BY DEF Init, Reasks, Matches
<1>2. GovernanceInv /\ GovernanceInv' /\ Reasks /\ [Next]_vars => Reasks'
  BY MatchesStays DEF Reasks, GovernanceInv
<1>3. Reasks => ReaskIsTheSameAsk
  BY DEF Reasks, Matches, ReaskIsTheSameAsk
<1> QED
  BY <1>1, <1>2, <1>3, InvariantHolds, PTL DEF Spec

-----------------------------------------------------------------------------
(***************************************************************************)
(* The report.                                                             *)
(***************************************************************************)
(* Where a write may be whose text is not in the state: on its way back, or in
   a take that has ended by an exception or is gone.                          *)
NotBackYet(t) ==
  \/ pc[t] = "acted" /\ g[t].pending.tool = "write_internal_report"
  \/ pc[t] = "over" /\ result[t] = Uncaught
  \/ pc[t] \in {"exited", "crashed"}

(* A take of main stands at the node of its pending act; a saved report is the
   draft; every write saved the draft, which from then on no turn replaces; and
   every send after a write delivered what the write saved.                  *)
AtItsAct(t) == at[t] # "reason" /\ g[t].pending # NoAct => g[t].pending.tool = at[t]
DraftIsTheReport(t) == g[t].reportText # Nothing => g[t].draft = g[t].reportText
WritesSavedTheDraft(t) ==
  \A w \in EffectsOf("write_internal_report") :
    w.take = t =>
      /\ w.done.args["content"] = g[t].draft /\ g[t].draft # Nothing
      /\ g[t].reportText # Nothing \/ NotBackYet(t)
SendsDeliverIt(t) ==
  \A w \in EffectsOf("write_internal_report"), e \in EffectsOf("send_external_email") :
    w.take = t /\ e.take = t /\ w.done.act < e.done.act
    => e.done.args["body"] = w.done.args["content"]
Saves(t) == AtItsAct(t) /\ DraftIsTheReport(t) /\ WritesSavedTheDraft(t) /\ SendsDeliverIt(t)
Saving == \A t \in Takes \ Callers : Saves(t)

(* A step in which the take does not act, and does not touch the report. *)
LEMMA SavesKept ==
  ASSUME NEW t \in Takes, Saves(t),
         \A e \in effects' : e.take = t => e \in effects,
         g'[t].draft = g[t].draft, g'[t].reportText = g[t].reportText,
         at'[t] = "reason" \/ g'[t].pending = NoAct
           \/ (at'[t] = at[t] /\ g'[t].pending = g[t].pending),
         g[t].reportText # Nothing \/ ~NotBackYet(t) \/ NotBackYet(t)'
  PROVE  Saves(t)'
<1>1. AtItsAct(t)' /\ DraftIsTheReport(t)'
  BY DEF Saves, AtItsAct, DraftIsTheReport
<1>2. \A w \in EffectsOf("write_internal_report")' :
        w.take = t => w \in EffectsOf("write_internal_report")
  BY DEF EffectsOf
<1>3. \A e \in EffectsOf("send_external_email")' :
        e.take = t => e \in EffectsOf("send_external_email")
  BY DEF EffectsOf
<1>4. WritesSavedTheDraft(t)'
  BY <1>2 DEF Saves, WritesSavedTheDraft
<1>5. SendsDeliverIt(t)'
  BY <1>2, <1>3 DEF Saves, SendsDeliverIt
<1> QED
  BY <1>1, <1>4, <1>5 DEF Saves

(* The step in which it acts. *)
LEMMA SavesWhatItDoes ==
  ASSUME GovernanceInv, TypeOK', Numbering, NEW t \in Takes \ Callers, Saves(t),
         pc[t] = "body", UNCHANGED <<at, g>>,
         effects' = effects \/ effects' = effects \cup Effects(t),
         effects' = effects \/ (pc'[t] = "acted" \/ (pc'[t] = "over" /\ result'[t] = Uncaught))
  PROVE  Saves(t)'
<1>0. /\ at[t] \in Tools /\ g[t].pending # NoAct /\ g[t].pending.tool = at[t]
      /\ g[t] \in GraphState /\ Numbered(t)
  <2>1. at[t] \in Tools /\ g[t].pending # NoAct /\ g[t] \in GraphState
    BY DEF GovernanceInv, Blocks, TypeOK
  <2>2. at[t] # "reason"
    BY <2>1 DEF Tools
  <2> QED
    BY <2>1, <2>2 DEF Saves, AtItsAct, Numbering
<1>1. ~NotBackYet(t)
  BY DEF NotBackYet
<1>2. CASE effects' = effects
  BY <1>1, <1>2, SavesKept
<1>3. CASE ToolRefuses(at[t], g[t], corpus)
  BY <1>1, <1>2, <1>3, SavesKept DEF Effects
<1>4. CASE effects' # effects /\ ~ToolRefuses(at[t], g[t], corpus)
  <2> DEFINE done == Performed(at[t], g[t], corpus)
             new == [take |-> t, under |-> held[t], stamp |-> Stamp(t), done |-> done]
  <2>1. effects' = effects \cup {new}
    BY <1>4 DEF Effects
  <2>2. done.capability = at[t] /\ done.act = g[t].sequence
    BY <1>0 DEF Performed, Numbered
  <2>3. at[t] = "write_internal_report" => done.args["content"] = g[t].draft /\ g[t].draft # Nothing
    BY <1>0, <1>4 DEF Performed, Used, Resolve, ToolRefuses
  <2>4. at[t] = "send_external_email" => done.args["body"] = g[t].draft
    BY <1>0 DEF Performed, Used, Resolve, Saves, DraftIsTheReport
  <2>5. \A e \in effects : e.take = t => e.done.act <= g[t].sequence
    BY <1>0 DEF Numbered
  <2>6. /\ new.take = t /\ new.done.capability = at[t] /\ new.done.act = g[t].sequence
        /\ new.done.args = done.args
    BY <2>2
  <2>7. AtItsAct(t)' /\ DraftIsTheReport(t)'
    BY DEF Saves, AtItsAct, DraftIsTheReport
  <2>8. g[t].sequence \in Nat /\ \A e \in effects : e.take = t => e.done.act \in Nat
    BY <1>0, ActsAssumption DEF Numbered, GraphState
  <2> HIDE DEF new, done
  <2>9. WritesSavedTheDraft(t)'
    <3>1. ASSUME NEW w \in effects', w.take = t, w.done.capability = "write_internal_report"
          PROVE  w.done.args["content"] = g[t].draft /\ g[t].draft # Nothing
      BY <2>1, <2>3, <2>6, <3>1 DEF Saves, WritesSavedTheDraft, EffectsOf
    <3>2. CASE at[t] = "write_internal_report"
      <4>1. NotBackYet(t)'
        BY <1>0, <1>4, <3>2 DEF NotBackYet
      <4> QED
        BY <3>1, <4>1 DEF WritesSavedTheDraft, EffectsOf
    <3>3. CASE at[t] # "write_internal_report"
      <4>1. \A w \in effects' : w.take = t /\ w.done.capability = "write_internal_report" =>
              g[t].reportText # Nothing
        BY <1>1, <2>1, <2>6, <3>3 DEF Saves, WritesSavedTheDraft, EffectsOf
      <4> QED
        BY <3>1, <4>1 DEF WritesSavedTheDraft, EffectsOf
    <3> QED
      BY <3>2, <3>3
  <2>10. SendsDeliverIt(t)'
    <3> SUFFICES ASSUME NEW w \in effects', w.done.capability = "write_internal_report",
                        NEW e \in effects', e.done.capability = "send_external_email",
                        w.take = t, e.take = t, w.done.act < e.done.act
                 PROVE  e.done.args["body"] = w.done.args["content"]
      BY DEF SendsDeliverIt, EffectsOf
    <3>1. w # new
      BY <2>1, <2>5, <2>6, <2>8
    <3>2. w \in effects /\ w.done.args["content"] = g[t].draft
      BY <2>1, <3>1 DEF Saves, WritesSavedTheDraft, EffectsOf
    <3>3. CASE e = new
      BY <2>4, <2>6, <3>2, <3>3
    <3>4. CASE e # new
      BY <2>1, <3>2, <3>4 DEF Saves, SendsDeliverIt, EffectsOf
    <3> QED
      BY <3>3, <3>4
  <2> QED
    BY <2>7, <2>9, <2>10 DEF Saves
<1> QED
  BY <1>2, <1>3, <1>4 DEF Effects

(* What one take does is its own: the others stand where they stood, and have
   done what they had done.                                                  *)
LEMMA OthersStay ==
  ASSUME TypeOK, NEW u \in Takes, NEW t \in Takes \ {u},
         Step(u) \/ CallerResumes(u) \/ Crash(u)
  PROVE  /\ pc'[t] = pc[t] /\ at'[t] = at[t] /\ g'[t] = g[t] /\ result'[t] = result[t]
         /\ \A e \in effects' : e.take = t => e \in effects
<1>1. CASE Ask(u)
  BY <1>1 DEF Ask, NothingToBind, AskUnreachable, AskRefused, AskAllowed, AskDenied,
              AskOpensWait, AskFindsPending, AskFindsApproved, AskFindsRejected,
              CouldNotAsk, Over, Enter, TypeOK
<1>2. CASE ~Ask(u)
  <2>1. pc'[t] = pc[t] /\ at'[t] = at[t] /\ g'[t] = g[t] /\ result'[t] = result[t]
    BY <1>2
       DEF Step, Propose, Correct, Finish, NothingPending, ReasonRaises, Execute, BodyRaises,
           Return, Exit, StartWaiting, Answered, ReadsNothing, GiveUp, PollAgain, Resume,
           CallerResumes, Crash, Idle,
           Over, TypeOK
  <2>2. effects' \subseteq effects \cup Effects(u)
    BY <1>2
       DEF Step, Propose, Correct, Finish, NothingPending, ReasonRaises, Execute,
           BodyRaises, Return, Exit, StartWaiting, Answered, ReadsNothing, GiveUp, PollAgain,
           Resume, CallerResumes,
           Crash, Idle
  <2>3. \A e \in Effects(u) : e.take = u
    BY DEF Effects
  <2> QED
    BY <2>1, <2>2, <2>3
<1> QED
  BY <1>1, <1>2

LEMMA SavesStays ==
  ASSUME GovernanceInv, TypeOK', Numbering, [Next]_vars, NEW t \in Takes \ Callers, Saves(t)
  PROVE  Saves(t)'
<1>0. TypeOK
  BY DEF GovernanceInv
<1>1. CASE \E u \in Takes \ {t} : Step(u) \/ CallerResumes(u) \/ Crash(u)
  <2>1. PICK u \in Takes \ {t} : Step(u) \/ CallerResumes(u) \/ Crash(u)
    BY <1>1
  <2>2. /\ pc'[t] = pc[t] /\ at'[t] = at[t] /\ g'[t] = g[t] /\ result'[t] = result[t]
        /\ \A e \in effects' : e.take = t => e \in effects
    BY <1>0, <2>1, OthersStay
  <2>4. NotBackYet(t)' <=> NotBackYet(t)
    BY <2>2 DEF NotBackYet
  <2> QED
    BY <2>2, <2>4, SavesKept
<1>2. CASE Propose(t)
  <2>1. PICK tool \in Tools, draft \in DraftsAfter(g[t]) :
          /\ g'[t].pending.tool = tool /\ at'[t] = tool
          /\ g'[t].draft = draft /\ g'[t].reportText = g[t].reportText
    <3>1. PICK tool \in Tools : \E target \in ArgumentOf(tool) : \E draft \in DraftsAfter(g[t]) :
            /\ g' = [g EXCEPT ![t] =
                       [pending |-> [tool |-> tool, target |-> target,
                                     sequence |-> g[t].sequence + 1],
                        sequence |-> g[t].sequence + 1,
                        draft |-> draft, reportText |-> g[t].reportText]]
            /\ at' = [at EXCEPT ![t] = tool]
      BY <1>2 DEF Propose
    <3> QED
      BY <1>0, <3>1 DEF TypeOK
  <2>2. effects' = effects /\ pc[t] = "running" /\ ~NotBackYet(t)
    BY <1>2 DEF Propose, NotBackYet
  <2>3. AtItsAct(t)'
    BY <2>1 DEF AtItsAct
  <2>4. g'[t].reportText = g[t].reportText /\ (g[t].reportText # Nothing => g'[t].draft = g[t].draft)
    BY <2>1 DEF DraftsAfter
  <2>5. DraftIsTheReport(t)' /\ WritesSavedTheDraft(t)' /\ SendsDeliverIt(t)'
    BY <2>2, <2>4 DEF Saves, DraftIsTheReport, WritesSavedTheDraft, SendsDeliverIt, EffectsOf
  <2> QED
    BY <2>3, <2>5 DEF Saves
<1>3. CASE Correct(t) \/ Finish(t)
  <2>1. PICK draft \in DraftsAfter(g[t]) :
          /\ g'[t].pending = NoAct /\ g'[t].draft = draft /\ g'[t].reportText = g[t].reportText
    BY <1>0, <1>3 DEF Correct, Finish, NothingPending, TypeOK, GraphState
  <2>2. effects' = effects /\ pc[t] = "running" /\ ~NotBackYet(t)
    BY <1>3 DEF Correct, Finish, NotBackYet
  <2>3. g[t].reportText # Nothing => g'[t].draft = g[t].draft
    BY <2>1 DEF DraftsAfter
  <2>4. DraftIsTheReport(t)' /\ WritesSavedTheDraft(t)' /\ SendsDeliverIt(t)'
    BY <2>1, <2>2, <2>3 DEF Saves, DraftIsTheReport, WritesSavedTheDraft, SendsDeliverIt, EffectsOf
  <2> QED
    BY <2>1, <2>4 DEF Saves, AtItsAct
<1>10. CASE ReasonRaises(t)
  <2>1. UNCHANGED <<at, g, effects>> /\ ~NotBackYet(t)
    BY <1>10 DEF ReasonRaises, NotBackYet
  <2> QED
    BY <2>1, SavesKept
<1>4. CASE Ask(t)
  <2>1. UNCHANGED <<at, g, effects>> /\ pc[t] = "running" /\ ~NotBackYet(t)
    BY <1>4 DEF Ask, NothingToBind, AskUnreachable, AskRefused, AskAllowed, AskDenied, AskOpensWait,
                AskFindsPending, AskFindsApproved, AskFindsRejected, Asking, NotBackYet
  <2> QED
    BY <2>1, SavesKept
<1>5. CASE Execute(t)
  <2>1. /\ pc[t] = "body" /\ UNCHANGED <<at, g>> /\ effects' = effects \cup Effects(t)
        /\ effects' = effects \/ pc'[t] = "acted"
    BY <1>0, <1>5 DEF Execute, Effects, TypeOK
  <2> QED
    BY <2>1, SavesWhatItDoes
<1>6. CASE BodyRaises(t)
  <2>1. /\ pc[t] = "body" /\ UNCHANGED <<at, g>>
        /\ effects' = effects \/ effects' = effects \cup Effects(t)
        /\ pc'[t] = "over" /\ result'[t] = Uncaught
    BY <1>0, <1>6 DEF BodyRaises, Over, TypeOK
  <2> QED
    BY <2>1, SavesWhatItDoes
<1>7. CASE Return(t)
  <2>1. /\ pc[t] \in {"acted", "declined"} /\ effects' = effects /\ at'[t] = "reason"
        /\ g'[t].draft = g[t].draft
        /\ g'[t].reportText =
             IF pc[t] = "acted" /\ g[t].pending.tool = "write_internal_report"
             THEN g[t].draft ELSE g[t].reportText
    BY <1>0, <1>7 DEF Return, TypeOK, GraphState
  <2>2. AtItsAct(t)' /\ DraftIsTheReport(t)'
    BY <2>1 DEF Saves, AtItsAct, DraftIsTheReport
  <2>3. WritesSavedTheDraft(t)' /\ SendsDeliverIt(t)'
    BY <2>1 DEF Saves, WritesSavedTheDraft, SendsDeliverIt, NotBackYet, EffectsOf
  <2> QED
    BY <2>2, <2>3 DEF Saves
<1>8. CASE Exit(t) \/ StartWaiting(t) \/ Answered(t) \/ ReadsNothing(t) \/ GiveUp(t)
           \/ PollAgain(t) \/ Resume(t) \/ Crash(t)
  <2>1. UNCHANGED <<at, g, effects, result>>
    BY <1>8 DEF Exit, StartWaiting, Answered, ReadsNothing, GiveUp, PollAgain, Resume, Crash, Idle
  <2>2. ~NotBackYet(t) \/ NotBackYet(t)'
    BY <1>0, <1>8 DEF Exit, StartWaiting, Answered, ReadsNothing, GiveUp, PollAgain, Resume, Crash,
                      Idle, NotBackYet, TypeOK,
                      Uncaught
  <2> QED
    BY <2>1, <2>2, SavesKept
<1>9. CASE Environment \/ UNCHANGED vars
  <2>1. UNCHANGED <<pc, at, g, result, effects>>
    BY <1>9 DEF Environment, Approve, Reject, Lapse, PlaneGoesOrReturns, CorpusChanges, Around,
                take, vars
  <2>2. NotBackYet(t)' <=> NotBackYet(t)
    BY <2>1 DEF NotBackYet
  <2> QED
    BY <2>1, <2>2, SavesKept
<1> QED
  BY <1>1, <1>2, <1>3, <1>4, <1>5, <1>6, <1>7, <1>8, <1>9, <1>10 DEF Next, Step, CallerResumes

LEMMA SavingStarts == Init => Saving
BY DEF Init, Saving, Saves, AtItsAct, DraftIsTheReport, WritesSavedTheDraft, SendsDeliverIt,
       EffectsOf

LEMMA SavingStays == GovernanceInv /\ GovernanceInv' /\ Numbering /\ Saving /\ [Next]_vars => Saving'
BY SavesStays DEF Saving, GovernanceInv

(* What a take of main sends after it has saved a report is that report,
   whatever its model wrote between the two and whatever was resumed.        *)
THEOREM SendsTheSavedReport == Spec => []SendDeliversTheSavedReport
<1>1. GovernanceInv /\ Saving => SendDeliversTheSavedReport
  <2> SUFFICES ASSUME GovernanceInv, Saving,
                      NEW w \in EffectsOf("write_internal_report"),
                      NEW e \in EffectsOf("send_external_email"),
                      w.take = e.take, w.take \notin Callers, w.done.act < e.done.act
               PROVE  e.done.args["body"] = w.done.args["content"]
    BY DEF SendDeliversTheSavedReport
  <2>1. w.take \in Takes
    BY DEF GovernanceInv, TypeOK, Effect, EffectsOf
  <2> QED
    BY <2>1 DEF Saving, Saves, SendsDeliverIt
<1> QED
  BY <1>1, InvariantHolds, NumberingStarts, NumberingStays, SavingStarts, SavingStays, PTL DEF Spec

-----------------------------------------------------------------------------
(***************************************************************************)
(* The promise: every step of Governance is a step of Authority, or        *)
(* changes nothing it speaks of.                                           *)
(***************************************************************************)
(* What the promise speaks of, in the words of the takes. *)
ApprovedActs ==
  {[wait |-> r, act |-> waits[r].question] :
     r \in {s \in ApprovalRefs : waits[s].state = "approved"}}
IssuedActs == {[ref |-> d.ref, act |-> d.question, wait |-> d.wait] : d \in decisions}
PerformedActs ==
  {[under |-> e.under, act |-> e.done] : e \in {f \in effects : f.done.capability \in Protected}}

(* The plane opens a wait only for an act the policy suspends. *)
WaitsAreForSuspended ==
  \A r \in ApprovalRefs :
    waits[r].state # "unused" => Policy[waits[r].question.capability] = "suspend"

PromiseInv == GovernanceInv /\ WaitsAreForSuspended

-----------------------------------------------------------------------------
(* What a step may do to the plane's approvals. *)
LEMMA HowWaitsChange ==
  ASSUME [Next]_vars
  PROVE  \/ UNCHANGED waits
         \/ \E t \in Takes : AskOpensWait(t) \/ AskFindsApproved(t)
         \/ \E r \in ApprovalRefs : Approve(r) \/ Reject(r) \/ Lapse(r)
BY DEF Next, vars, plane, Step, Ask, Environment, Propose, Correct, Finish, NothingPending,
       ReasonRaises, NothingToBind, AskUnreachable, AskRefused, AskAllowed, AskDenied,
       AskFindsPending, AskFindsRejected, Execute, BodyRaises, Return, Exit, StartWaiting,
       Answered, ReadsNothing, GiveUp, PollAgain, Resume, CallerResumes, Crash, Idle,
       PlaneGoesOrReturns, CorpusChanges

LEMMA WaitsStayForSuspended ==
  GovernanceInv /\ WaitsAreForSuspended /\ [Next]_vars => WaitsAreForSuspended'
<1> SUFFICES ASSUME GovernanceInv, WaitsAreForSuspended, [Next]_vars PROVE WaitsAreForSuspended'
  OBVIOUS
<1>0. waits \in [ApprovalRefs -> Wait \cup {NoWait}]
  BY DEF GovernanceInv, TypeOK
<1>1. CASE UNCHANGED waits
  BY <1>1 DEF WaitsAreForSuspended
<1>2. ASSUME NEW t \in Takes, AskOpensWait(t) PROVE WaitsAreForSuspended'
  <2>1. Policy[TheQuestion(t).capability] = "suspend"
    BY <1>2 DEF AskOpensWait, OutcomeFor, TheQuestion, Question
  <2>2. \E r \in ApprovalRefs : \E opened :
          waits' = [waits EXCEPT ![r] = [state |-> "pending", question |-> TheQuestion(t),
                                         opened_for |-> opened]]
    <3>1. (CHOOSE x \in FreshWaits : TRUE) \in ApprovalRefs
      BY <1>2 DEF AskOpensWait, FreshWaits
    <3> QED
      BY <1>2, <3>1 DEF AskOpensWait
  <2> QED
    BY <1>0, <2>1, <2>2 DEF WaitsAreForSuspended
<1>3. ASSUME NEW r \in ApprovalRefs, NEW s, waits[r].state # "unused",
             waits' = [waits EXCEPT ![r].state = s]
      PROVE  WaitsAreForSuspended'
  <2>1. waits[r] \in Wait
    BY <1>0, <1>3 DEF NoWait
  <2>2. waits'[r].question = waits[r].question
    BY <1>0, <1>3, <2>1 DEF Wait
  <2>3. \A q \in ApprovalRefs \ {r} : waits'[q] = waits[q]
    BY <1>0, <1>3
  <2> QED
    BY <1>3, <2>2, <2>3 DEF WaitsAreForSuspended
<1>4. ASSUME NEW t \in Takes, AskFindsApproved(t) PROVE WaitsAreForSuspended'
  BY <1>3, <1>4 DEF AskFindsApproved, WaitsFor, OpenStates
<1>5. ASSUME NEW r \in ApprovalRefs, Approve(r) \/ Reject(r) \/ Lapse(r) PROVE WaitsAreForSuspended'
  BY <1>3, <1>5 DEF Approve, Reject, Lapse, OpenStates
<1> QED
  BY <1>1, <1>2, <1>4, <1>5, HowWaitsChange

LEMMA PromiseInvStays == PromiseInv /\ [Next]_vars => PromiseInv'
BY InvariantStays, WaitsStayForSuspended DEF PromiseInv

LEMMA PromiseInvStarts == Init => PromiseInv
<1>1. Init => WaitsAreForSuspended
  BY DEF Init, WaitsAreForSuspended, NoWait
<1> QED
  BY <1>1, InvariantStarts DEF PromiseInv

-----------------------------------------------------------------------------
(***************************************************************************)
(* The mapping, one kind of step at a time.                                *)
(***************************************************************************)
LEMMA PromiseStarts == Init => Promise!Init
BY DEF Init, Promise!Init, NoWait

LEMMA SaysTheSame ==
  ASSUME ApprovedActs' = ApprovedActs, IssuedActs' = IssuedActs, PerformedActs' = PerformedActs
  PROVE  UNCHANGED Promise!vars
BY DEF Promise!vars, ApprovedActs, IssuedActs, PerformedActs

(* A step of the promise, named by its witness. *)
LEMMA ApproveIsAStep ==
  ASSUME NEW r \in ApprovalRefs, NEW q \in Questions, Promise!Approve(r, q)
  PROVE  Promise!Next
BY DEF Promise!Next

LEMMA WithdrawIsAStep ==
  ASSUME NEW p \in ApprovedActs, Promise!Withdraw(p) PROVE Promise!Next
BY DEF Promise!Next, ApprovedActs

(* A person's act, withdrawn or not, and what the plane notes of it. *)
LEMMA PersonMaps ==
  ASSUME PromiseInv, NEW r \in ApprovalRefs, Approve(r) \/ Reject(r) \/ Lapse(r)
  PROVE  [Promise!Next]_(Promise!vars)
<1>0. /\ waits \in [ApprovalRefs -> Wait \cup {NoWait}]
      /\ Grants /\ WaitsAreForSuspended
  BY DEF PromiseInv, GovernanceInv, TypeOK
<1>1. IssuedActs' = IssuedActs /\ PerformedActs' = PerformedActs
  BY DEF Approve, Reject, Lapse, Around, IssuedActs, PerformedActs
<1>2. PICK s \in {"approved", "rejected", "lapsed"} : waits' = [waits EXCEPT ![r].state = s]
  BY DEF Approve, Reject, Lapse
<1>3. waits[r] \in Wait /\ waits[r].state \in OpenStates
  BY <1>0 DEF Approve, Reject, Lapse, OpenStates, NoWait
<1>4. /\ waits'[r].state = s /\ waits'[r].question = waits[r].question
      /\ \A q \in ApprovalRefs \ {r} : waits'[q] = waits[q]
  BY <1>0, <1>2, <1>3 DEF Wait
<1>5. CASE Approve(r)
  <2>1. ApprovedActs' = ApprovedActs \cup {[wait |-> r, act |-> waits[r].question]}
    BY <1>4, <1>5, <1>0, <1>2 DEF Approve, ApprovedActs
  <2>2. waits[r].state = "pending" /\ waits[r].question \in Questions
    BY <1>3, <1>5 DEF Approve, Wait
  <2>3. /\ \A p \in ApprovedActs : p.wait # r
        /\ \A d \in IssuedActs : d.wait # r
    <3>1. r # Nothing
      BY TakesAssumption
    <3> QED
      BY <1>0, <2>2, <3>1 DEF ApprovedActs, IssuedActs, Grants
  <2>4. PICK q \in Questions : q = waits[r].question
    BY <2>2
  <2>5. Promise!Approve(r, q)
    BY <1>0, <1>1, <2>1, <2>2, <2>3, <2>4
       DEF Promise!Approve, ApprovedActs, IssuedActs, PerformedActs, WaitsAreForSuspended
  <2> QED
    BY <2>5, ApproveIsAStep
<1>6. CASE waits[r].state # "approved" /\ ~Approve(r)
  <2>1. s # "approved"
    BY <1>0, <1>3, <1>4, <1>6 DEF Reject, Lapse, Wait
  <2>2. ApprovedActs' = ApprovedActs
    BY <1>4, <1>6, <2>1 DEF ApprovedActs
  <2> QED
    BY <1>1, <2>2, SaysTheSame
<1>7. CASE waits[r].state = "approved"
  <2>1. s = "lapsed"
    BY <1>0, <1>3, <1>4, <1>7 DEF Approve, Reject, Lapse, Wait
  <2>2. [wait |-> r, act |-> waits[r].question] \in ApprovedActs
    BY <1>7 DEF ApprovedActs
  <2>3. ApprovedActs' = ApprovedActs \ {[wait |-> r, act |-> waits[r].question]}
    BY <1>4, <1>7, <2>1 DEF ApprovedActs
  <2>4. PICK p \in ApprovedActs :
          p = [wait |-> r, act |-> waits[r].question] /\ ApprovedActs' = ApprovedActs \ {p}
    BY <2>2, <2>3
  <2>5. Promise!Withdraw(p)
    BY <1>1, <2>4 DEF Promise!Withdraw, ApprovedActs, IssuedActs, PerformedActs
  <2> QED
    BY <2>5, WithdrawIsAStep
<1> QED
  BY <1>5, <1>6, <1>7 DEF Approve

(* An ask the policy allows by itself issues a decision without a wait; one
   that finds an approval issues it from there and uses it up.               *)
LEMMA IssueByPolicyIsAStep ==
  ASSUME NEW d \in DecisionRefs, NEW q \in Questions, Promise!IssueByPolicy(d, q)
  PROVE  Promise!Next
BY DEF Promise!Next

LEMMA IssueByApprovalIsAStep ==
  ASSUME NEW d \in DecisionRefs, NEW p \in ApprovedActs, Promise!IssueByApproval(d, p)
  PROVE  Promise!Next
BY DEF Promise!Next, ApprovedActs

LEMMA OneMoreIssued ==
  ASSUME NEW d, NEW q, NEW r, Issue(d, q, r)
  PROVE  IssuedActs' = IssuedActs \cup {[ref |-> d, act |-> q, wait |-> r]}
<1> DEFINE As(x) == [ref |-> x.ref, act |-> x.question, wait |-> x.wait]
           new == [ref |-> d, question |-> q, wait |-> r]
<1>1. decisions' = decisions \cup {new}
  BY DEF Issue
<1>2. As(new) = [ref |-> d, act |-> q, wait |-> r]
  OBVIOUS
<1>3. IssuedActs = {As(x) : x \in decisions} /\ IssuedActs' = {As(x) : x \in decisions'}
  BY DEF IssuedActs
<1> HIDE DEF As, new
<1>4. {As(x) : x \in decisions'} = {As(x) : x \in decisions} \cup {As(new)}
  BY <1>1
<1> QED
  BY <1>2, <1>3, <1>4

LEMMA AllowedMaps ==
  ASSUME PromiseInv, NEW t \in Takes, AskAllowed(t)
  PROVE  Promise!Next
<1>1. PICK q \in Questions : q = TheQuestion(t)
  BY AskingType DEF AskAllowed, PromiseInv, GovernanceInv
<1>2. PICK d \in FreshDecisions : Issue(d, q, Nothing)
  <2>1. (CHOOSE x \in FreshDecisions : TRUE) \in FreshDecisions
    BY DEF AskAllowed
  <2> QED
    BY <1>1, <2>1 DEF AskAllowed
<1>3. d \in DecisionRefs /\ \A i \in IssuedActs : i.ref # d
  BY <1>2 DEF FreshDecisions, IssuedActs
<1>4. IssuedActs' = IssuedActs \cup {[ref |-> d, act |-> q, wait |-> Nothing]}
  BY <1>1, <1>2, OneMoreIssued
<1>5. ApprovedActs' = ApprovedActs /\ PerformedActs' = PerformedActs
  BY DEF AskAllowed, ApprovedActs, PerformedActs
<1>6. Policy[q.capability] = "allow"
  BY <1>1 DEF AskAllowed, OutcomeFor, TheQuestion, Question
<1>7. Promise!IssueByPolicy(d, q)
  BY <1>3, <1>4, <1>5, <1>6 DEF Promise!IssueByPolicy, ApprovedActs, IssuedActs, PerformedActs
<1> QED
  BY <1>3, <1>7, IssueByPolicyIsAStep

LEMMA ApprovedMaps ==
  ASSUME PromiseInv, NEW t \in Takes, AskFindsApproved(t)
  PROVE  Promise!Next
<1>0. waits \in [ApprovalRefs -> Wait \cup {NoWait}]
  BY DEF PromiseInv, GovernanceInv, TypeOK
<1>1. PICK r \in WaitsFor(TheQuestion(t)) :
        LET d == CHOOSE x \in FreshDecisions : TRUE
        IN /\ waits[r].state = "approved"
           /\ waits' = [waits EXCEPT ![r].state = "spent"]
           /\ Issue(d, TheQuestion(t), r)
  BY DEF AskFindsApproved
<1>2. PICK q : q = TheQuestion(t)
  OBVIOUS
<1>3. PICK d \in FreshDecisions : Issue(d, q, r)
  <2>1. (CHOOSE x \in FreshDecisions : TRUE) \in FreshDecisions
    BY DEF AskFindsApproved
  <2> QED
    BY <1>1, <1>2, <2>1
<1>4. d \in DecisionRefs /\ \A i \in IssuedActs : i.ref # d
  BY <1>3 DEF FreshDecisions, IssuedActs
<1>5. r \in ApprovalRefs /\ waits[r].question = TheQuestion(t) /\ waits[r].state = "approved"
  BY <1>1 DEF WaitsFor
<1>6. PICK p \in ApprovedActs : p = [wait |-> r, act |-> TheQuestion(t)]
  BY <1>5 DEF ApprovedActs
<1>7. IssuedActs' = IssuedActs \cup {[ref |-> d, act |-> p.act, wait |-> p.wait]}
  BY <1>3, <1>6, <1>2, OneMoreIssued
<1>8. ApprovedActs' = ApprovedActs \ {p}
  <2>1. waits'[r].state = "spent" /\ \A x \in ApprovalRefs \ {r} : waits'[x] = waits[x]
    BY <1>0, <1>1, <1>5 DEF Wait, NoWait
  <2>2. p = [wait |-> r, act |-> waits[r].question]
    BY <1>5, <1>6
  <2> QED
    BY <1>5, <2>1, <2>2 DEF ApprovedActs
<1>9. PerformedActs' = PerformedActs
  BY DEF AskFindsApproved, PerformedActs
<1>10. Promise!IssueByApproval(d, p)
  BY <1>4, <1>7, <1>8, <1>9 DEF Promise!IssueByApproval, ApprovedActs, IssuedActs, PerformedActs
<1> QED
  BY <1>4, <1>10, IssueByApprovalIsAStep

(* A new wait is nobody's approval yet. *)
LEMMA OpeningMaps ==
  ASSUME PromiseInv, NEW t \in Takes, AskOpensWait(t)
  PROVE  UNCHANGED Promise!vars
<1>0. waits \in [ApprovalRefs -> Wait \cup {NoWait}]
  BY DEF PromiseInv, GovernanceInv, TypeOK
<1>1. PICK r \in FreshWaits : \E opened :
        waits' = [waits EXCEPT ![r] = [state |-> "pending", question |-> TheQuestion(t),
                                       opened_for |-> opened]]
  <2>1. (CHOOSE x \in FreshWaits : TRUE) \in FreshWaits
    BY DEF AskOpensWait
  <2> QED
    BY <2>1 DEF AskOpensWait
<1>2. /\ r \in ApprovalRefs /\ waits[r].state = "unused" /\ waits'[r].state = "pending"
      /\ \A q \in ApprovalRefs \ {r} : waits'[q] = waits[q]
  BY <1>0, <1>1 DEF FreshWaits
<1>3. ApprovedActs' = ApprovedActs
  BY <1>2 DEF ApprovedActs
<1>4. IssuedActs' = IssuedActs /\ PerformedActs' = PerformedActs
  BY DEF AskOpensWait, IssuedActs, PerformedActs
<1> QED
  BY <1>3, <1>4, SaysTheSame

(* A body acts under the decision of its open block, which nothing has used. *)
LEMMA PerformIsAStep ==
  ASSUME NEW i \in IssuedActs, Promise!Perform(i) PROVE Promise!Next
BY DEF Promise!Next, IssuedActs

LEMMA ActingMaps ==
  ASSUME PromiseInv, NEW t \in Takes, Execute(t) \/ BodyRaises(t)
  PROVE  [Promise!Next]_(Promise!vars)
<1>1. pc[t] = "body" /\ UNCHANGED <<waits, decisions>>
  BY DEF Execute, BodyRaises, plane
<1>2. /\ at[t] \in Tools /\ g[t] \in GraphState /\ g[t].pending # NoAct /\ corpus \in Corpora
      /\ \E x \in decisions : Covers(x, t)
      /\ \A e \in effects : e.under # held[t]
  BY <1>1 DEF PromiseInv, GovernanceInv, Blocks, TypeOK
<1>3. ApprovedActs' = ApprovedActs /\ IssuedActs' = IssuedActs
  BY <1>1 DEF ApprovedActs, IssuedActs
<1> DEFINE done == Performed(at[t], g[t], corpus)
<1>4. done.capability = at[t]
  BY DEF Performed
<1>5. CASE effects' = effects
  <2>1. PerformedActs' = PerformedActs
    BY <1>5 DEF PerformedActs
  <2> QED
    BY <1>3, <2>1, SaysTheSame
<1>6. CASE effects' = effects \cup {[take |-> t, under |-> held[t], stamp |-> Stamp(t), done |-> done]}
  <2>1. CASE at[t] = "read_documents"
    <3>1. PerformedActs' = PerformedActs
      BY <1>4, <1>6, <2>1 DEF PerformedActs, Protected
    <3> QED
      BY <1>3, <3>1, SaysTheSame
  <2>2. CASE at[t] # "read_documents"
    <3>1. PerformedActs' = PerformedActs \cup {[under |-> held[t], act |-> done]}
      <4> DEFINE new == [take |-> t, under |-> held[t], stamp |-> Stamp(t), done |-> done]
                 As(e) == [under |-> e.under, act |-> e.done]
                 Kept == {e \in effects : e.done.capability \in Protected}
      <4>1. new.done.capability \in Protected /\ As(new) = [under |-> held[t], act |-> done]
        BY <1>2, <1>4, <2>2 DEF Protected
      <4>2. Kept' = Kept \cup {new}
        BY <1>6, <4>1
      <4>3. PerformedActs = {As(e) : e \in Kept} /\ PerformedActs' = {As(e) : e \in Kept'}
        BY DEF PerformedActs
      <4> HIDE DEF As, new, Kept
      <4>4. {As(e) : e \in Kept'} = {As(e) : e \in Kept} \cup {As(new)}
        BY <4>2
      <4> QED
        BY <4>1, <4>3, <4>4
    <3>2. PICK x \in decisions : x.ref = held[t] /\ x.question = done
      BY <1>2, <2>2, PerformedIsTheQuestion DEF Covers, TheQuestion
    <3>3. PICK i \in IssuedActs : i.ref = held[t] /\ i.act = done
      <4>1. [ref |-> x.ref, act |-> x.question, wait |-> x.wait] \in IssuedActs
        BY DEF IssuedActs
      <4> HIDE DEF done
      <4> QED
        BY <3>2, <4>1
    <3>4. \A e \in PerformedActs : e.under # i.ref
      BY <1>2, <3>3 DEF PerformedActs
    <3>5. Promise!Perform(i)
      BY <1>3, <3>1, <3>3, <3>4 DEF Promise!Perform, ApprovedActs, IssuedActs, PerformedActs
    <3> QED
      BY <3>5, PerformIsAStep
  <2> QED
    BY <2>1, <2>2
<1> QED
  BY <1>5, <1>6 DEF Execute, BodyRaises, Effects

LEMMA EveryStepMaps == PromiseInv /\ [Next]_vars => [Promise!Next]_(Promise!vars)
<1> SUFFICES ASSUME PromiseInv, [Next]_vars PROVE [Promise!Next]_(Promise!vars)
  OBVIOUS
<1>1. CASE UNCHANGED <<waits, decisions, effects>>
  <2>1. ApprovedActs' = ApprovedActs /\ IssuedActs' = IssuedActs /\ PerformedActs' = PerformedActs
    BY <1>1 DEF ApprovedActs, IssuedActs, PerformedActs
  <2> QED
    BY <2>1, SaysTheSame
<1>2. \/ UNCHANGED <<waits, decisions, effects>>
      \/ \E t \in Takes :
           AskAllowed(t) \/ AskFindsApproved(t) \/ AskOpensWait(t) \/ Execute(t) \/ BodyRaises(t)
      \/ \E r \in ApprovalRefs : Approve(r) \/ Reject(r) \/ Lapse(r)
  BY DEF Next, vars, plane, Step, Ask, Environment, Propose, Correct, Finish, NothingPending,
         ReasonRaises, NothingToBind, AskUnreachable, AskRefused, AskDenied, AskFindsPending,
         AskFindsRejected, Return, Exit, StartWaiting, Answered, ReadsNothing, GiveUp, PollAgain,
         Resume, CallerResumes,
         Crash, Idle, PlaneGoesOrReturns, CorpusChanges
<1> QED
  BY <1>1, <1>2, AllowedMaps, ApprovedMaps, OpeningMaps, ActingMaps, PersonMaps

-----------------------------------------------------------------------------
(* The takes keep the promise: whatever they, the person and the plane do is a
   behaviour of Authority, for any number of takes, waits and decisions.     *)
THEOREM PromiseKept == Spec => KeepsThePromise
BY PromiseInvStarts, PromiseInvStays, PromiseStarts, EveryStepMaps, PTL
   DEF Spec, KeepsThePromise, Promise!Spec

-----------------------------------------------------------------------------
(***************************************************************************)
(* What ran, ran as the policy says.                                       *)
(***************************************************************************)
(* A decision has a person's approval behind it or none, as the policy says of
   its act; of an act the policy denies there is none.                       *)
ByThePolicy(d) ==
  \/ Policy[d.question.capability] = "allow" /\ d.wait = Nothing
  \/ Policy[d.question.capability] = "suspend" /\ d.wait # Nothing
DecidedByThePolicy == \A d \in decisions : ByThePolicy(d)

(* Every act that ran did, reads included, and whoever drove the run. *)
RanByThePolicy == \A e \in effects : \E d \in decisions :
                    /\ d.ref = e.under /\ ByThePolicy(d)
                    /\ d.question.capability = e.done.capability
                    /\ e.done.capability # "read_documents" => d.question = e.done

AnswersInv == GovernanceInv /\ DecidedByThePolicy

(* A step that issues a decision: what about, and what it uses. *)
LEMMA HowDecisionsChange ==
  ASSUME [Next]_vars
  PROVE  \/ UNCHANGED decisions
         \/ \E t \in Takes, d \in DecisionRefs :
              /\ OutcomeFor(t) = "allow" /\ Issue(d, TheQuestion(t), Nothing)
         \/ \E t \in Takes, d \in DecisionRefs : \E r \in WaitsFor(TheQuestion(t)) :
              /\ OutcomeFor(t) = "suspend" /\ waits[r].state = "approved"
              /\ Issue(d, TheQuestion(t), r)
<1>1. ASSUME NEW t \in Takes, AskAllowed(t)
      PROVE  \E d \in DecisionRefs : OutcomeFor(t) = "allow" /\ Issue(d, TheQuestion(t), Nothing)
  <2>1. (CHOOSE x \in FreshDecisions : TRUE) \in DecisionRefs
    BY <1>1 DEF AskAllowed, FreshDecisions
  <2> QED
    BY <1>1, <2>1 DEF AskAllowed
<1>2. ASSUME NEW t \in Takes, AskFindsApproved(t)
      PROVE  \E d \in DecisionRefs : \E r \in WaitsFor(TheQuestion(t)) :
               /\ OutcomeFor(t) = "suspend" /\ waits[r].state = "approved"
               /\ Issue(d, TheQuestion(t), r)
  <2>1. (CHOOSE x \in FreshDecisions : TRUE) \in DecisionRefs
    BY <1>2 DEF AskFindsApproved, FreshDecisions
  <2> QED
    BY <1>2, <2>1 DEF AskFindsApproved
<1>3. \/ UNCHANGED decisions
      \/ \E t \in Takes : AskAllowed(t) \/ AskFindsApproved(t)
  BY DEF Next, vars, plane, Step, Ask, Environment, Propose, Correct, Finish, NothingPending,
         ReasonRaises, NothingToBind, AskUnreachable, AskRefused, AskDenied, AskOpensWait,
         AskFindsPending, AskFindsRejected, Execute, BodyRaises, Return, Exit, StartWaiting,
         Answered, ReadsNothing, GiveUp, PollAgain, Resume, CallerResumes, Crash, Idle,
         PlaneGoesOrReturns, CorpusChanges,
         Approve, Reject, Lapse, Around
<1> QED
  BY <1>1, <1>2, <1>3

LEMMA DecisionsStayByThePolicy ==
  DecidedByThePolicy /\ [Next]_vars => DecidedByThePolicy'
<1> SUFFICES ASSUME DecidedByThePolicy, [Next]_vars PROVE DecidedByThePolicy'
  OBVIOUS
<1>1. CASE UNCHANGED decisions
  BY <1>1 DEF DecidedByThePolicy, ByThePolicy
<1>2. ASSUME NEW t \in Takes, NEW d, NEW r, Issue(d, TheQuestion(t), r),
             \/ OutcomeFor(t) = "allow" /\ r = Nothing
             \/ OutcomeFor(t) = "suspend" /\ r \in ApprovalRefs
      PROVE  DecidedByThePolicy'
  <2>1. TheQuestion(t).capability = at[t]
    BY DEF TheQuestion, Question
  <2>2. ByThePolicy([ref |-> d, question |-> TheQuestion(t), wait |-> r])
    BY <1>2, <2>1, TakesAssumption DEF OutcomeFor, ByThePolicy
  <2> QED
    BY <1>2, <2>2 DEF Issue, DecidedByThePolicy, ByThePolicy
<1> QED
  BY <1>1, <1>2, HowDecisionsChange DEF WaitsFor

LEMMA AnswersHold == Spec => []AnswersInv
<1>1. Init => AnswersInv
  BY InvariantStarts DEF Init, AnswersInv, DecidedByThePolicy
<1>2. AnswersInv /\ [Next]_vars => AnswersInv'
  BY InvariantStays, DecisionsStayByThePolicy DEF AnswersInv
<1> QED
  BY <1>1, <1>2, PTL DEF Spec

(* "Denied acts do not execute": whatever ran, ran under a decision the policy
   prescribes for its node's capability -- by itself where the rule allows, from
   a person's approval where it suspends, and nothing where it denies -- however
   the run was resumed and whatever was merged into it.                       *)
THEOREM OnlyWhatThePolicySays == Spec => []RanByThePolicy
<1>1. AnswersInv => RanByThePolicy
  BY DEF AnswersInv, GovernanceInv, Ledger, DecidedByThePolicy, RanByThePolicy
<1> QED
  BY <1>1, AnswersHold, PTL
=============================================================================
