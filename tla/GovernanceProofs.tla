-------------------------- MODULE GovernanceProofs --------------------------
(***************************************************************************)
(* Theorems about Governance, for every number of takes, acts, waits and   *)
(* decisions.                                                              *)
(***************************************************************************)
EXTENDS Governance, TLAPS

-----------------------------------------------------------------------------
(* What the bindings return: a question is one of Questions, whatever the
   node and the state.                                                       *)
LEMMA QuestionType ==
  ASSUME NEW node \in Tools, NEW s \in GraphState, NEW c \in Corpora,
         s.pending # NoAct
  PROVE  Question(node, s, c) \in Questions /\ Performed(node, s, c) \in Questions
<1>1. /\ s.pending \in PendingAct /\ s.draft \in Texts \cup {Nothing}
      /\ s.reportText \in Texts \cup {Nothing}
      /\ s.pending.sequence \in 1..MaxActs
  BY DEF GraphState, PendingAct
<1>2. \A f \in {"documents", "content", "recipient", "body", "destination"} :
        Resolve(s, c)[f] \in Values
  BY <1>1 DEF Resolve, Values, PendingAct, Targets
<1>3. CASE node = "read_documents"
  BY <1>1, <1>2, <1>3 DEF Question, Performed, Questions, Bound, Used, Tools, Values
<1>4. CASE node = "write_internal_report"
  BY <1>1, <1>2, <1>4 DEF Question, Performed, Questions, Bound, Used, Tools, Values
<1>5. CASE node = "send_external_email"
  BY <1>1, <1>2, <1>5 DEF Question, Performed, Questions, Bound, Used, Tools, Values
<1>6. CASE node = "upload_external"
  BY <1>1, <1>2, <1>6 DEF Question, Performed, Questions, Bound, Used, Tools, Values
<1>7. QED
  BY <1>3, <1>4, <1>5, <1>6 DEF Tools

(* Off the read, the corpus is no part of a question, and the body does what
   the question asked.                                                       *)
LEMMA PerformedIsTheQuestion ==
  ASSUME NEW node \in Tools \ {"read_documents"}, NEW s \in GraphState,
         NEW c \in Corpora, NEW d \in Corpora, s.pending # NoAct
  PROVE  /\ Performed(node, s, c) = Question(node, s, c)
         /\ Question(node, s, c) = Question(node, s, d)
<1>1. Bound[node] = Used[node]
  BY DEF Bound, Used, Tools
<1>2. \A f \in Bound[node] : Resolve(s, c)[f] = Resolve(s, d)[f]
  BY DEF Bound, Tools, Resolve
<1>3. QED
  BY <1>1, <1>2 DEF Performed, Question

-----------------------------------------------------------------------------
(* A process's own steps keep the state well typed: the driver's, which only
   move a program counter, and the reasoning node's.                         *)
LEMMA ReasonKeepsTypes ==
  ASSUME TypeOK, NEW t \in Takes, Propose(t) \/ Correct(t) \/ Finish(t) \/ ReasonRaises(t)
  PROVE  TypeOK'
<1>1. CASE Propose(t)
  <2>0. PICK tool \in Tools : \E target \in ArgumentOf(tool) : \E draft \in DraftsAfter(g[t]) :
          /\ g' = [g EXCEPT ![t] =
                     [pending |-> [tool |-> tool, target |-> target,
                                   sequence |-> g[t].sequence + 1],
                      sequence |-> g[t].sequence + 1,
                      draft |-> draft, reportText |-> g[t].reportText]]
          /\ at' = [at EXCEPT ![t] = tool]
    BY <1>1 DEF Propose
  <2>1. PICK target \in ArgumentOf(tool), draft \in DraftsAfter(g[t]) :
          /\ g' = [g EXCEPT ![t] =
                     [pending |-> [tool |-> tool, target |-> target,
                                   sequence |-> g[t].sequence + 1],
                      sequence |-> g[t].sequence + 1,
                      draft |-> draft, reportText |-> g[t].reportText]]
          /\ at' = [at EXCEPT ![t] = tool]
    BY <2>0
  <2>2. target \in Targets
    BY DEF ArgumentOf, Targets
  <2>3. g[t] \in GraphState /\ g[t].sequence + 1 \in 1..MaxActs
    BY <1>1, ActsAssumption DEF TypeOK, GraphState, Propose
  <2>4. g'[t] \in GraphState /\ g' \in [Takes -> GraphState]
    BY <2>1, <2>2, <2>3 DEF TypeOK, GraphState, PendingAct, DraftsAfter
  <2>5. QED
    BY <1>1, <2>1, <2>4 DEF TypeOK, Propose, plane
<1>2. CASE Correct(t) \/ Finish(t)
  <2>1. PICK draft \in DraftsAfter(g[t]) :
          g' = [g EXCEPT ![t] = [pending |-> NoAct, sequence |-> g[t].sequence,
                                 draft |-> draft, reportText |-> g[t].reportText]]
    BY <1>2 DEF Correct, Finish, NothingPending, TypeOK, GraphState
  <2>2. draft \in Texts \cup {Nothing}
    BY DEF DraftsAfter, TypeOK, GraphState
  <2>3. g' \in [Takes -> GraphState]
    BY <2>1, <2>2 DEF TypeOK, GraphState
  <2>4. QED
    BY <1>2, <2>3 DEF Correct, Finish, NothingPending, Over, TypeOK, Verdicts, Phases, plane
<1>3. CASE ReasonRaises(t)
  BY <1>3 DEF ReasonRaises, Over, TypeOK, Uncaught, Phases, plane
<1>4. QED
  BY <1>1, <1>2, <1>3

(* An ask that ends the invocation without a decision. *)
LEMMA RefusedAskKeepsTypes ==
  ASSUME TypeOK, NEW t \in Takes,
         \/ NothingToBind(t) \/ AskUnreachable(t) \/ AskRefused(t) \/ AskDenied(t)
         \/ AskFindsPending(t) \/ AskFindsRejected(t)
  PROVE  TypeOK'
<1>1. CASE NothingToBind(t)
  BY <1>1 DEF NothingToBind, Over, TypeOK, Uncaught, Phases, plane
<1>2. CASE AskUnreachable(t)
  BY <1>2 DEF AskUnreachable, CouldNotAsk, Over, TypeOK, Verdicts, Phases, plane
<1>3. CASE AskRefused(t)
  BY <1>3 DEF AskRefused, Over, TypeOK, Verdicts, Phases, plane
<1>4. CASE AskDenied(t)
  BY <1>4 DEF AskDenied, CouldNotAsk, Over, TypeOK, Verdicts, Phases, plane
<1>5. CASE AskFindsPending(t)
  <2>1. PICK r \in WaitsFor(TheQuestion(t)) : Over(t, "suspended", r) \/ CouldNotAsk(t)
    BY <1>5 DEF AskFindsPending
  <2>2. r \in ApprovalRefs
    BY DEF WaitsFor
  <2>3. pc' \in [Takes -> Phases]
    BY <2>1 DEF CouldNotAsk, Over, TypeOK, Phases
  <2>4. result' \in [Takes -> Verdicts \cup {Uncaught, NoResult}]
    BY <2>1 DEF CouldNotAsk, Over, TypeOK, Verdicts
  <2>5. /\ waitRef' \in [Takes -> ApprovalRefs \cup {Nothing}]
        /\ held' \in [Takes -> DecisionRefs \cup {Nothing}]
    BY <2>1, <2>2 DEF CouldNotAsk, Over, TypeOK
  <2>6. QED
    BY <1>5, <2>3, <2>4, <2>5 DEF AskFindsPending, TypeOK, plane
<1>6. CASE AskFindsRejected(t)
  BY <1>6 DEF AskFindsRejected, CouldNotAsk, Over, TypeOK, Verdicts, Phases, plane
<1>7. QED
  BY <1>1, <1>2, <1>3, <1>4, <1>5, <1>6

(* What an asking take asks is a question. *)
LEMMA AskingType ==
  ASSUME TypeOK, NEW t \in Takes, Asking(t)
  PROVE  /\ at[t] \in Tools
         /\ g[t] \in GraphState /\ g[t].pending # NoAct /\ corpus \in Corpora
         /\ TheQuestion(t) \in Questions
         /\ Performed(at[t], g[t], corpus) \in Questions
<1>1. at[t] \in Tools /\ g[t] \in GraphState /\ corpus \in Corpora /\ g[t].pending # NoAct
  BY DEF Asking, TypeOK
<1>2. QED
  BY <1>1, QuestionType DEF TheQuestion

(* An ask the plane allows, or that opens or uses up a wait. *)
LEMMA AnsweredAskKeepsTypes ==
  ASSUME TypeOK, NEW t \in Takes,
         AskAllowed(t) \/ AskOpensWait(t) \/ AskFindsApproved(t)
  PROVE  TypeOK'
<1>1. Asking(t)
  BY DEF AskAllowed, AskOpensWait, AskFindsApproved
<1>2. /\ at[t] \in Tools /\ g[t] \in GraphState
      /\ TheQuestion(t) \in Questions /\ Performed(at[t], g[t], corpus) \in Questions
  BY <1>1, AskingType
<1>3. ASSUME NEW d \in DecisionRefs, NEW w \in ApprovalRefs \cup {Nothing},
             Issue(d, TheQuestion(t), w),
             Enter(t, d) \/ (CouldNotAsk(t) /\ UNCHANGED last)
      PROVE  /\ pc' \in [Takes -> Phases]
             /\ result' \in [Takes -> Verdicts \cup {Uncaught, NoResult}]
             /\ waitRef' \in [Takes -> ApprovalRefs \cup {Nothing}]
             /\ held' \in [Takes -> DecisionRefs \cup {Nothing}]
             /\ last' \in [Takes -> [Tools -> DecisionRefs \cup {Nothing}]]
             /\ decisions' \subseteq Decision
  <2>1. decisions' \subseteq Decision
    BY <1>2, <1>3 DEF Issue, Decision, TypeOK
  <2>2. CASE Enter(t, d)
    BY <2>1, <2>2, <1>2 DEF Enter, TypeOK, Phases
  <2>3. CASE CouldNotAsk(t) /\ UNCHANGED last
    BY <2>1, <2>3 DEF CouldNotAsk, Over, TypeOK, Phases, Verdicts
  <2>4. QED
    BY <1>3, <2>2, <2>3
<1>4. CASE AskAllowed(t)
  <2>1. PICK d \in FreshDecisions :
          /\ Issue(d, TheQuestion(t), Nothing)
          /\ Enter(t, d) \/ (CouldNotAsk(t) /\ UNCHANGED last)
    BY <1>4 DEF AskAllowed
  <2>2. d \in DecisionRefs
    BY DEF FreshDecisions
  <2>3. UNCHANGED <<at, g, waits, up, corpus, effects>>
    BY <1>4 DEF AskAllowed
  <2>4. QED
    BY <1>3, <2>1, <2>2, <2>3 DEF TypeOK
<1>5. CASE AskOpensWait(t)
  <2>1. PICK r \in FreshWaits :
          /\ waits' = [waits EXCEPT ![r] =
                         [state |-> "pending", question |-> TheQuestion(t),
                          opened_for |-> Performed(at[t], g[t], corpus)]]
          /\ Over(t, "suspended", r) \/ CouldNotAsk(t)
    BY <1>5 DEF AskOpensWait
  <2>2. r \in ApprovalRefs
    BY DEF FreshWaits
  <2>3. waits' \in [ApprovalRefs -> Wait \cup {NoWait}]
    BY <1>2, <2>1, <2>2 DEF TypeOK, Wait
  <2>4. UNCHANGED <<at, g, last, decisions, up, corpus, effects>>
    BY <1>5 DEF AskOpensWait
  <2>5. /\ pc' \in [Takes -> Phases]
        /\ result' \in [Takes -> Verdicts \cup {Uncaught, NoResult}]
    BY <2>1, <2>2 DEF CouldNotAsk, Over, TypeOK, Phases, Verdicts
  <2>6. /\ waitRef' \in [Takes -> ApprovalRefs \cup {Nothing}]
        /\ held' \in [Takes -> DecisionRefs \cup {Nothing}]
    BY <2>1, <2>2 DEF CouldNotAsk, Over, TypeOK
  <2>7. QED
    BY <2>3, <2>4, <2>5, <2>6 DEF TypeOK
<1>6. CASE AskFindsApproved(t)
  <2>1. PICK r \in WaitsFor(TheQuestion(t)) :
          /\ waits[r].state = "approved"
          /\ \E d \in FreshDecisions :
               /\ waits' = [waits EXCEPT ![r].state = "spent"]
               /\ Issue(d, TheQuestion(t), r)
               /\ Enter(t, d) \/ (CouldNotAsk(t) /\ UNCHANGED last)
    BY <1>6 DEF AskFindsApproved
  <2>2. PICK d \in FreshDecisions :
          /\ waits' = [waits EXCEPT ![r].state = "spent"]
          /\ Issue(d, TheQuestion(t), r)
          /\ Enter(t, d) \/ (CouldNotAsk(t) /\ UNCHANGED last)
    BY <2>1
  <2>3. d \in DecisionRefs /\ r \in ApprovalRefs /\ waits[r].state # "unused"
    BY <2>1 DEF FreshDecisions, WaitsFor
  <2>4. waits' \in [ApprovalRefs -> Wait \cup {NoWait}]
    BY <2>2, <2>3 DEF TypeOK, Wait, NoWait
  <2>5. UNCHANGED <<at, g, up, corpus, effects>>
    BY <1>6 DEF AskFindsApproved
  <2>6. QED
    BY <1>3, <2>2, <2>3, <2>4, <2>5 DEF TypeOK
<1>7. QED
  BY <1>4, <1>5, <1>6

(* The body, and its return into the graph state. *)
LEMMA BodyKeepsTypes ==
  ASSUME TypeOK, Blocks, NEW t \in Takes, Execute(t) \/ BodyRaises(t) \/ Return(t)
  PROVE  TypeOK'
<1>1. ASSUME pc[t] = "body"
      PROVE  Effects(t) \subseteq Effect
  <2>1. /\ at[t] \in Tools /\ g[t] \in GraphState /\ corpus \in Corpora
        /\ g[t].pending # NoAct /\ last[t][at[t]] = held[t]
        /\ \E x \in decisions : Covers(x, t)
    BY <1>1 DEF Blocks, TypeOK
  <2>2. held[t] \in DecisionRefs
    BY <2>1 DEF Covers, TypeOK, Decision
  <2>3. Performed(at[t], g[t], corpus) \in Questions
    BY <2>1, QuestionType
  <2>4. Stamp(t) \in DecisionRefs \cup {Nothing}
    BY <2>1, <2>2 DEF Stamp
  <2>5. QED
    BY <2>2, <2>3, <2>4 DEF Effects, Effect
<1>2. CASE Execute(t)
  <2>1. effects' \subseteq Effect
    BY <1>1, <1>2 DEF Execute, TypeOK
  <2>2. pc' \in [Takes -> Phases]
    BY <1>2 DEF Execute, TypeOK, Phases
  <2>3. QED
    BY <1>2, <2>1, <2>2 DEF Execute, TypeOK, plane
<1>3. CASE BodyRaises(t)
  <2>1. effects' \subseteq Effect
    BY <1>1, <1>3 DEF BodyRaises, TypeOK
  <2>2. QED
    BY <1>3, <2>1 DEF BodyRaises, Over, TypeOK, Phases, plane
<1>4. CASE Return(t)
  <2>1. g[t] \in GraphState
    BY DEF TypeOK
  <2>2. /\ DOMAIN g' = Takes
        /\ \A u \in Takes \ {t} : g'[u] = g[u]
    BY <1>4 DEF Return, TypeOK
  <2>3. g'[t] = [pending |-> NoAct, sequence |-> g[t].sequence, draft |-> g[t].draft,
                 reportText |-> g'[t].reportText]
    BY <1>4, <2>1 DEF Return, TypeOK, GraphState
  <2>4. g'[t].reportText \in {g[t].draft, g[t].reportText}
    BY <1>4, <2>1 DEF Return, TypeOK, GraphState
  <2>5. g'[t] \in GraphState
    BY <2>1, <2>3, <2>4 DEF GraphState
  <2>6. g' \in [Takes -> GraphState]
    BY <1>4, <2>2, <2>5 DEF Return, TypeOK
  <2>7. QED
    BY <1>4, <2>6 DEF Return, TypeOK, Phases, plane
<1>5. QED
  BY <1>2, <1>3, <1>4

(* The driver, a program that resumes, a crash. *)
LEMMA DriverKeepsTypes ==
  ASSUME TypeOK, NEW t \in Takes,
         \/ Exit(t) \/ StartWaiting(t) \/ Answered(t) \/ ReadsNothing(t) \/ GiveUp(t)
         \/ PollAgain(t) \/ Resume(t)
         \/ CallerResumes(t) \/ Crash(t)
  PROVE  TypeOK'
<1>1. CASE Exit(t) \/ StartWaiting(t) \/ Answered(t) \/ ReadsNothing(t) \/ GiveUp(t)
           \/ PollAgain(t) \/ Resume(t)
  BY <1>1 DEF Exit, StartWaiting, Answered, ReadsNothing, GiveUp, PollAgain, Resume, Idle, TypeOK,
              Phases, plane
<1>2. CASE CallerResumes(t)
  <2>1. PICK state \in Mergeable \cup {g[t]} : g' = [g EXCEPT ![t] = state]
    BY <1>2 DEF CallerResumes
  <2>2. state \in GraphState
    BY DEF TypeOK, Mergeable
  <2>3. QED
    BY <1>2, <2>1, <2>2 DEF CallerResumes, TypeOK, Phases, plane
<1>3. CASE Crash(t)
  BY <1>3 DEF Crash, Idle, TypeOK, Phases, plane
<1>4. QED
  BY <1>1, <1>2, <1>3

(* A person, a deadline, the plane, the corpus directory. *)
LEMMA EnvironmentKeepsTypes ==
  ASSUME TypeOK, Environment
  PROVE  TypeOK'
<1>1. CASE \E r \in ApprovalRefs : Approve(r) \/ Reject(r) \/ Lapse(r)
  <2>1. PICK r \in ApprovalRefs : Approve(r) \/ Reject(r) \/ Lapse(r)
    BY <1>1
  <2>2. waits[r] \in Wait
    BY <2>1 DEF Approve, Reject, Lapse, OpenStates, TypeOK, NoWait
  <2>3. waits' \in [ApprovalRefs -> Wait \cup {NoWait}]
    BY <2>1, <2>2 DEF Approve, Reject, Lapse, TypeOK, Wait
  <2>4. QED
    BY <2>1, <2>3 DEF Approve, Reject, Lapse, Around, take, TypeOK
<1>2. CASE PlaneGoesOrReturns
  BY <1>2 DEF PlaneGoesOrReturns, TypeOK, take, plane
<1>3. CASE CorpusChanges
  BY <1>3 DEF CorpusChanges, TypeOK, take, plane
<1>4. QED
  BY <1>1, <1>2, <1>3 DEF Environment

-----------------------------------------------------------------------------
(* The invariant, step by step. A step that issues nothing, does nothing and
   opens no block keeps it: what an open block asks depends on the corpus for
   a read alone, and the invariant says nothing of a read's arguments.       *)
LEMMA QuietStep ==
  ASSUME GovernanceInv, TypeOK', UNCHANGED <<waits, decisions, effects>>,
         \A u \in Takes :
           pc'[u] = "body" =>
             /\ pc[u] = "body" /\ at'[u] = at[u] /\ g'[u] = g[u]
             /\ held'[u] = held[u] /\ last'[u] = last[u]
  PROVE  Grants' /\ Blocks' /\ Ledger'
<1>1. Grants' /\ Ledger'
  BY DEF GovernanceInv, Grants, Ledger
<1>2. ASSUME NEW u \in Takes, pc'[u] = "body", NEW x \in decisions, Covers(x, u)
      PROVE  Covers(x, u)'
  <2>1. /\ pc[u] = "body" /\ at'[u] = at[u] /\ g'[u] = g[u] /\ held'[u] = held[u]
        /\ at[u] \in Tools /\ g[u].pending # NoAct
    BY <1>2 DEF GovernanceInv, Blocks
  <2>2. g[u] \in GraphState /\ corpus \in Corpora /\ corpus' \in Corpora
    BY DEF GovernanceInv, TypeOK
  <2>3. at[u] # "read_documents" =>
          Question(at[u], g[u], corpus) = Question(at[u], g[u], corpus')
    BY <2>1, <2>2, PerformedIsTheQuestion
  <2>4. QED
    BY <1>2, <2>1, <2>3 DEF Covers, TheQuestion
<1>3. Blocks'
  BY <1>2 DEF GovernanceInv, Blocks
<1>4. QED
  BY <1>1, <1>3

(* A wait that changes hands while it is open pays for no decision yet. *)
LEMMA OpenWaitStep ==
  ASSUME GovernanceInv, TypeOK', NEW r \in ApprovalRefs, waits[r].state \in OpenStates,
         NEW s \in {"approved", "rejected", "lapsed"},
         waits' = [waits EXCEPT ![r].state = s], UNCHANGED Around
  PROVE  Grants' /\ Blocks' /\ Ledger'
<1>1. /\ UNCHANGED <<pc, at, g, held, last, corpus, decisions, effects>>
      /\ waits \in [ApprovalRefs -> Wait \cup {NoWait}]
  BY DEF Around, take, GovernanceInv, TypeOK
<1>2. \A w \in ApprovalRefs :
        /\ w # r => waits'[w] = waits[w]
        /\ waits'[w].question = waits[w].question
        /\ waits'[w].opened_for = waits[w].opened_for
  BY <1>1 DEF Wait, NoWait
<1>3. waits[r].state # "unused" /\ waits[r].state # "spent"
  BY DEF OpenStates
<1>4. \A x \in decisions : x.wait # Nothing => x.wait \in ApprovalRefs /\ x.wait # r
  BY <1>3 DEF GovernanceInv, Grants, TypeOK, Decision
<1>5. \A x \in decisions :
        x.wait # Nothing =>
          waits'[x.wait].state = "spent" /\ waits'[x.wait].question = x.question
  BY <1>2, <1>4 DEF GovernanceInv, Grants
<1>6. \A w \in ApprovalRefs :
        waits'[w].state # "unused" => waits'[w].opened_for = waits'[w].question
  BY <1>2, <1>3 DEF GovernanceInv, Grants
<1>7. Grants'
  BY <1>1, <1>5, <1>6 DEF GovernanceInv, Grants
<1>8. Blocks' /\ Ledger'
  BY <1>1 DEF GovernanceInv, Blocks, Covers, TheQuestion, Ledger
<1>9. QED
  BY <1>7, <1>8

(* A wait is opened for what the body would do: only a send is suspended. *)
LEMMA OpeningStep ==
  ASSUME GovernanceInv, TypeOK', NEW t \in Takes, AskOpensWait(t)
  PROVE  Grants' /\ Blocks' /\ Ledger'
<1>1. /\ at[t] \in Tools /\ g[t] \in GraphState /\ g[t].pending # NoAct
      /\ corpus \in Corpora
  BY AskingType DEF AskOpensWait, GovernanceInv
<1>2. at[t] # "read_documents"
  BY <1>1 DEF AskOpensWait, OutcomeFor, Policy
<1>3. Performed(at[t], g[t], corpus) = TheQuestion(t)
  BY <1>1, <1>2, PerformedIsTheQuestion DEF TheQuestion
<1>4. PICK r \in FreshWaits :
        /\ waits' = [waits EXCEPT ![r] =
                       [state |-> "pending", question |-> TheQuestion(t),
                        opened_for |-> Performed(at[t], g[t], corpus)]]
        /\ Over(t, "suspended", r) \/ CouldNotAsk(t)
  BY DEF AskOpensWait
<1>5. /\ r \in ApprovalRefs /\ waits[r].state = "unused"
      /\ waits \in [ApprovalRefs -> Wait \cup {NoWait}]
  BY DEF FreshWaits, GovernanceInv, TypeOK
<1>6. UNCHANGED <<at, g, last, decisions, corpus, effects>>
  BY DEF AskOpensWait
<1>7. \A x \in decisions : x.wait # Nothing => x.wait \in ApprovalRefs /\ x.wait # r
  BY <1>5 DEF GovernanceInv, Grants, TypeOK, Decision
<1>8. \A w \in ApprovalRefs : w # r => waits'[w] = waits[w]
  BY <1>4, <1>5
<1>9. waits'[r].opened_for = waits'[r].question
  BY <1>3, <1>4, <1>5
<1>10. \A x \in decisions :
        x.wait # Nothing =>
          waits'[x.wait].state = "spent" /\ waits'[x.wait].question = x.question
  BY <1>7, <1>8 DEF GovernanceInv, Grants
<1>11. \A w \in ApprovalRefs :
        waits'[w].state # "unused" => waits'[w].opened_for = waits'[w].question
  BY <1>8, <1>9 DEF GovernanceInv, Grants
<1>12. Grants'
  BY <1>6, <1>10, <1>11 DEF GovernanceInv, Grants
<1>13. \A u \in Takes : pc'[u] = "body" => pc[u] = "body" /\ held'[u] = held[u]
  BY <1>4 DEF CouldNotAsk, Over, GovernanceInv, TypeOK
<1>14. Blocks'
  BY <1>6, <1>13 DEF GovernanceInv, Blocks, Covers, TheQuestion
<1>15. Ledger'
  BY <1>6 DEF GovernanceInv, Ledger
<1>16. QED
  BY <1>12, <1>14, <1>15

(* A decision is issued, by the policy or against an approval it uses up, and
   the block it allows is entered or its answer is lost.                     *)
LEMMA IssuingStep ==
  ASSUME GovernanceInv, TypeOK', NEW t \in Takes, AskAllowed(t) \/ AskFindsApproved(t)
  PROVE  Grants' /\ Blocks' /\ Ledger'
<1> DEFINE q == TheQuestion(t)
<1>1. /\ at[t] \in Tools /\ g[t] \in GraphState /\ g[t].pending # NoAct /\ pc[t] = "running"
      /\ q.capability = at[t]
  BY AskingType DEF AskAllowed, AskFindsApproved, GovernanceInv, TheQuestion, Question, Asking
<1>2. PICK d \in FreshDecisions :
        \E w \in ApprovalRefs \cup {Nothing} :
          /\ \/ w = Nothing /\ OutcomeFor(t) = "allow" /\ UNCHANGED waits
             \/ /\ w # Nothing /\ w \in WaitsFor(q) /\ waits[w].state = "approved"
                /\ waits' = [waits EXCEPT ![w].state = "spent"]
          /\ Issue(d, q, w)
          /\ Enter(t, d) \/ (CouldNotAsk(t) /\ UNCHANGED last)
  <2>1. CASE AskAllowed(t)
    BY <2>1 DEF AskAllowed
  <2>2. CASE AskFindsApproved(t)
    <3>1. PICK r \in WaitsFor(q) :
            /\ waits[r].state = "approved"
            /\ \E d \in FreshDecisions :
                 /\ waits' = [waits EXCEPT ![r].state = "spent"]
                 /\ Issue(d, q, r)
                 /\ Enter(t, d) \/ (CouldNotAsk(t) /\ UNCHANGED last)
      BY <2>2 DEF AskFindsApproved
    <3>2. r \in ApprovalRefs /\ r # Nothing
      BY TakesAssumption DEF WaitsFor
    <3>3. QED
      BY <3>1, <3>2
  <2>3. QED
    BY <2>1, <2>2
<1>3. PICK w \in ApprovalRefs \cup {Nothing} :
          /\ \/ w = Nothing /\ OutcomeFor(t) = "allow" /\ UNCHANGED waits
             \/ /\ w # Nothing /\ w \in WaitsFor(q) /\ waits[w].state = "approved"
                /\ waits' = [waits EXCEPT ![w].state = "spent"]
          /\ Issue(d, q, w)
          /\ Enter(t, d) \/ (CouldNotAsk(t) /\ UNCHANGED last)
  BY <1>2
<1>4. PICK new : /\ new.ref = d /\ new.question = q /\ new.wait = w
                 /\ decisions' = decisions \cup {new}
  BY <1>3 DEF Issue
<1>5. \A x \in decisions : x.ref # d
  BY DEF FreshDecisions
<1>6. waits \in [ApprovalRefs -> Wait \cup {NoWait}]
  BY DEF GovernanceInv, TypeOK
<1>7. w # Nothing =>
        /\ w \in ApprovalRefs
        /\ \A x \in decisions : x.wait # w
        /\ waits'[w].state = "spent" /\ waits'[w].question = q
  <2>1. SUFFICES ASSUME w # Nothing
                 PROVE  /\ w \in ApprovalRefs
                        /\ \A x \in decisions : x.wait # w
                        /\ waits'[w].state = "spent" /\ waits'[w].question = q
    OBVIOUS
  <2>2. w \in WaitsFor(q) /\ waits[w].state = "approved"
    BY <1>3, <2>1
  <2>3. w \in ApprovalRefs /\ waits[w].question = q
    BY <2>2 DEF WaitsFor
  <2>4. \A x \in decisions : x.wait # w
    BY <2>1, <2>2 DEF GovernanceInv, Grants
  <2>5. waits[w] \in Wait
    BY <1>6, <2>2, <2>3 DEF NoWait
  <2>6. waits'[w].state = "spent" /\ waits'[w].question = waits[w].question
    BY <1>3, <1>6, <2>1, <2>3, <2>5 DEF Wait
  <2>7. QED
    BY <2>3, <2>4, <2>6
<1>8. \A r \in ApprovalRefs :
        /\ r # w => waits'[r] = waits[r]
        /\ waits'[r].state # "unused" => waits'[r].opened_for = waits'[r].question
  <2>1. CASE w = Nothing
    BY <1>3, <2>1 DEF GovernanceInv, Grants
  <2>2. CASE w # Nothing
    <3>1. w \in ApprovalRefs /\ waits[w].state = "approved"
          /\ waits' = [waits EXCEPT ![w].state = "spent"]
      BY <1>3, <1>7, <2>2
    <3>2. \A r \in ApprovalRefs : r # w => waits'[r] = waits[r]
      BY <1>6, <3>1
    <3>3. waits[w].opened_for = waits[w].question
      BY <3>1 DEF GovernanceInv, Grants
    <3>4. waits'[w].opened_for = waits'[w].question
      BY <1>6, <3>1, <3>3 DEF Wait, NoWait
    <3>5. QED
      BY <3>2, <3>4 DEF GovernanceInv, Grants
  <2>3. QED
    BY <2>1, <2>2
<1>9. at[t] = "send_external_email" => w # Nothing
  BY <1>3 DEF OutcomeFor, Policy
<1>10. Grants'
  <2>1. \A x, y \in decisions' :
          x.ref = y.ref \/ (x.wait = y.wait /\ x.wait # Nothing) => x = y
    BY <1>4, <1>5, <1>7 DEF GovernanceInv, Grants
  <2>2. \A x \in decisions :
          x.wait # Nothing => x.wait \in ApprovalRefs /\ x.wait # w
    BY <1>7 DEF GovernanceInv, TypeOK, Decision
  <2>3. \A x \in decisions' :
          x.wait # Nothing =>
            waits'[x.wait].state = "spent" /\ waits'[x.wait].question = x.question
    BY <1>4, <1>7, <1>8, <2>2 DEF GovernanceInv, Grants
  <2>4. \A x \in decisions' :
          x.question.capability = "send_external_email" => x.wait # Nothing
    BY <1>1, <1>4, <1>9 DEF GovernanceInv, Grants
  <2>5. QED
    BY <1>8, <2>1, <2>3, <2>4 DEF Grants
<1>11. UNCHANGED <<at, g, corpus, effects>>
  BY DEF AskAllowed, AskFindsApproved
<1>12. Ledger'
  BY <1>4, <1>11 DEF GovernanceInv, Ledger
<1>13. \A u \in Takes \ {t} : pc'[u] = pc[u] /\ held'[u] = held[u] /\ last'[u] = last[u]
  BY <1>3 DEF Enter, CouldNotAsk, Over, GovernanceInv, TypeOK
<1>14. pc'[t] = "body" =>
         held'[t] = d /\ last'[t][at[t]] = d
  BY <1>1, <1>3 DEF Enter, CouldNotAsk, Over, GovernanceInv, TypeOK
<1>15. \A u \in Takes \ {t} : pc[u] = "body" => held[u] # d
  BY <1>5 DEF GovernanceInv, Blocks, Covers
<1>16. \A e \in effects : e.under # d
  BY <1>5 DEF GovernanceInv, Ledger
<1>17. pc'[t] = "body" => Covers(new, t)'
  BY <1>1, <1>4, <1>11, <1>14 DEF Covers, TheQuestion
<1>18. Blocks'
  <2>1. ASSUME NEW u \in Takes, pc'[u] = "body"
        PROVE  /\ at'[u] \in Tools /\ g'[u].pending # NoAct /\ last'[u][at'[u]] = held'[u]
               /\ \E x \in decisions' : Covers(x, u)'
               /\ \A e \in effects' : e.under # held'[u]
    <3>1. CASE u = t
      <4>1. new \in decisions' /\ Covers(new, u)'
        BY <1>4, <1>17, <2>1, <3>1 DEF Covers, TheQuestion
      <4>2. at' = at /\ g' = g /\ effects' = effects
        BY <1>11
      <4>3. held'[t] = d /\ last'[t][at[t]] = d
        BY <1>14, <2>1, <3>1
      <4>4. \A e \in effects' : e.under # held'[u]
        BY <1>16, <3>1, <4>2, <4>3
      <4>5. at'[u] \in Tools /\ g'[u].pending # NoAct /\ last'[u][at'[u]] = held'[u]
        BY <1>1, <3>1, <4>2, <4>3
      <4>6. QED
        BY <4>1, <4>4, <4>5
    <3>2. CASE u # t
      BY <1>4, <1>11, <1>13, <2>1, <3>2 DEF GovernanceInv, Blocks, Covers, TheQuestion
    <3>3. QED
      BY <3>1, <3>2
  <2>2. \A u, v \in Takes :
          pc'[u] = "body" /\ pc'[v] = "body" /\ held'[u] = held'[v] => u = v
    BY <1>13, <1>14, <1>15 DEF GovernanceInv, Blocks
  <2>3. QED
    BY <2>1, <2>2 DEF Blocks
<1>19. QED
  BY <1>10, <1>12, <1>18

(* A body acts: once, under the decision its block holds, on what it covers. *)
LEMMA ActingStep ==
  ASSUME GovernanceInv, TypeOK', NEW t \in Takes, Execute(t) \/ BodyRaises(t)
  PROVE  Grants' /\ Blocks' /\ Ledger'
<1>1. /\ pc[t] = "body" /\ pc'[t] # "body"
      /\ UNCHANGED <<at, g, last, waits, decisions, corpus>>
  BY DEF Execute, BodyRaises, Over, plane, GovernanceInv, TypeOK
<1>2. /\ at[t] \in Tools /\ g[t].pending # NoAct /\ last[t][at[t]] = held[t]
      /\ g[t] \in GraphState /\ corpus \in Corpora
      /\ \A e \in effects : e.under # held[t]
  BY <1>1 DEF GovernanceInv, TypeOK, Blocks
<1>3. PICK x \in decisions : Covers(x, t)
  BY <1>1 DEF GovernanceInv, Blocks
<1>4. \A u \in Takes : pc'[u] = "body" => u # t /\ pc[u] = "body" /\ held'[u] = held[u]
  BY <1>1 DEF Execute, BodyRaises, Over, GovernanceInv, TypeOK
<1> DEFINE done == Performed(at[t], g[t], corpus)
           effect == [take |-> t, under |-> held[t], stamp |-> Stamp(t), done |-> done]
<1>5. effects' = effects \/ effects' = effects \cup {effect}
  BY DEF Execute, BodyRaises, Effects
<1>6. done.capability = at[t]
  BY DEF Performed
<1>7. at[t] # "read_documents" => done = x.question
  BY <1>2, <1>3, PerformedIsTheQuestion DEF Covers, TheQuestion
<1>8. effect.stamp = IF done.capability \in External THEN effect.under ELSE Nothing
  BY <1>2, <1>6 DEF Stamp, External
<1>9. /\ x.ref = effect.under /\ x.question.capability = done.capability
      /\ done.capability # "read_documents" => x.question = done
  BY <1>3, <1>6, <1>7 DEF Covers
<1>10. Grants'
  BY <1>1 DEF GovernanceInv, Grants
<1>11. Ledger'
  <2>1. CASE effects' = effects
    BY <1>1, <2>1 DEF GovernanceInv, Ledger
  <2>2. CASE effects' = effects \cup {effect}
    <3>1. \A e, f \in effects' : e.under = f.under => e = f
      BY <1>2, <2>2 DEF GovernanceInv, Ledger
    <3>2. effect.done = done
      OBVIOUS
    <3>3. ASSUME NEW e \in effects'
          PROVE  /\ e.stamp = IF e.done.capability \in External THEN e.under ELSE Nothing
                 /\ \E y \in decisions :
                      /\ y.ref = e.under
                      /\ y.question.capability = e.done.capability
                      /\ e.done.capability # "read_documents" => y.question = e.done
      <4>1. CASE e \in effects
        BY <4>1 DEF GovernanceInv, Ledger
      <4>2. CASE e = effect
        BY <1>8, <1>9, <3>2, <4>2
      <4>3. QED
        BY <2>2, <4>1, <4>2
    <3>4. QED
      BY <1>1, <3>1, <3>3 DEF Ledger
  <2>3. QED
    BY <1>5, <2>1, <2>2
<1>12. Blocks'
  <2>1. ASSUME NEW u \in Takes, pc'[u] = "body"
        PROVE  \A e \in effects' : e.under # held'[u]
    <3>1. u # t /\ pc[u] = "body" /\ held'[u] = held[u] /\ held[u] # held[t]
      BY <1>1, <1>4, <2>1 DEF GovernanceInv, Blocks
    <3>2. effect.under # held'[u] /\ \A e \in effects : e.under # held'[u]
      BY <3>1 DEF GovernanceInv, Blocks
    <3>3. QED
      BY <1>5, <3>2
  <2>2. \A u \in Takes :
          pc'[u] = "body" =>
            /\ at'[u] \in Tools /\ g'[u].pending # NoAct /\ last'[u][at'[u]] = held'[u]
            /\ \E y \in decisions' : Covers(y, u)'
    BY <1>1, <1>4 DEF GovernanceInv, Blocks, Covers, TheQuestion
  <2>3. \A u, v \in Takes :
          pc'[u] = "body" /\ pc'[v] = "body" /\ held'[u] = held'[v] => u = v
    BY <1>4 DEF GovernanceInv, Blocks
  <2>4. QED
    BY <2>1, <2>2, <2>3 DEF Blocks
<1>13. QED
  BY <1>10, <1>11, <1>12

-----------------------------------------------------------------------------
(* The invariant holds at the start, and every step of the system keeps it. *)
LEMMA InvariantStarts == Init => GovernanceInv
<1>1. ASSUME Init
      PROVE  TypeOK
  <2>1. g \in [Takes -> GraphState]
    BY <1>1, ActsAssumption DEF Init, GraphState
  <2>2. QED
    BY <1>1, <2>1 DEF Init, TypeOK, Phases
<1>2. ASSUME Init
      PROVE  Grants /\ Blocks /\ Ledger
  BY <1>2 DEF Init, Grants, Blocks, Ledger, NoWait
<1>3. QED
  BY <1>1, <1>2 DEF GovernanceInv

LEMMA InvariantStays == GovernanceInv /\ [Next]_vars => GovernanceInv'
<1> SUFFICES ASSUME GovernanceInv, [Next]_vars
             PROVE  GovernanceInv'
  OBVIOUS
<1>1. TypeOK /\ Blocks
  BY DEF GovernanceInv
<1>2. ASSUME NEW t \in Takes, Propose(t) \/ Correct(t) \/ Finish(t) \/ ReasonRaises(t)
      PROVE  GovernanceInv'
  <2>1. TypeOK'
    BY <1>1, <1>2, ReasonKeepsTypes
  <2>2. pc'[t] # "body"
    BY <1>1, <1>2 DEF Propose, Correct, Finish, NothingPending, ReasonRaises, Over, plane, TypeOK
  <2>3. /\ UNCHANGED <<waits, decisions, effects>>
        /\ \A u \in Takes \ {t} :
             /\ pc'[u] = pc[u] /\ at'[u] = at[u] /\ g'[u] = g[u]
             /\ held'[u] = held[u] /\ last'[u] = last[u]
    BY <1>1, <1>2 DEF Propose, Correct, Finish, NothingPending, ReasonRaises, Over, plane, TypeOK
  <2>4. QED
    BY <2>1, <2>2, <2>3, QuietStep DEF GovernanceInv
<1>3. ASSUME NEW t \in Takes,
             \/ NothingToBind(t) \/ AskUnreachable(t) \/ AskRefused(t) \/ AskDenied(t)
             \/ AskFindsPending(t) \/ AskFindsRejected(t)
      PROVE  GovernanceInv'
  <2>1. TypeOK'
    BY <1>1, <1>3, RefusedAskKeepsTypes
  <2>2. UNCHANGED <<at, g, last, waits, decisions, effects>>
    BY <1>3 DEF NothingToBind, AskUnreachable, AskRefused, AskDenied,
                AskFindsPending, AskFindsRejected, plane
  <2>3. \E verdict, ref : Over(t, verdict, ref)
    BY <1>3 DEF NothingToBind, AskUnreachable, AskRefused, AskDenied,
                AskFindsPending, AskFindsRejected, CouldNotAsk
  <2>4. \A u \in Takes : pc'[u] = "body" => u # t /\ pc[u] = "body" /\ held'[u] = held[u]
    BY <1>1, <2>3 DEF Over, TypeOK
  <2>5. QED
    BY <2>1, <2>2, <2>4, QuietStep DEF GovernanceInv
<1>4. ASSUME NEW t \in Takes, AskAllowed(t) \/ AskFindsApproved(t)
      PROVE  GovernanceInv'
  BY <1>1, <1>4, AnsweredAskKeepsTypes, IssuingStep DEF GovernanceInv
<1>5. ASSUME NEW t \in Takes, AskOpensWait(t)
      PROVE  GovernanceInv'
  BY <1>1, <1>5, AnsweredAskKeepsTypes, OpeningStep DEF GovernanceInv
<1>6. ASSUME NEW t \in Takes, Execute(t) \/ BodyRaises(t)
      PROVE  GovernanceInv'
  BY <1>1, <1>6, BodyKeepsTypes, ActingStep DEF GovernanceInv
<1>7. ASSUME NEW t \in Takes, Return(t)
      PROVE  GovernanceInv'
  <2>1. TypeOK'
    BY <1>1, <1>7, BodyKeepsTypes
  <2>2. /\ pc'[t] # "body" /\ UNCHANGED <<waits, decisions, effects>>
        /\ \A u \in Takes \ {t} :
             /\ pc'[u] = pc[u] /\ at'[u] = at[u] /\ g'[u] = g[u]
             /\ held'[u] = held[u] /\ last'[u] = last[u]
    BY <1>1, <1>7 DEF Return, plane, TypeOK
  <2>3. QED
    BY <2>1, <2>2, QuietStep DEF GovernanceInv
<1>8. ASSUME NEW t \in Takes,
             \/ Exit(t) \/ StartWaiting(t) \/ Answered(t) \/ ReadsNothing(t) \/ GiveUp(t)
             \/ PollAgain(t) \/ Resume(t)
             \/ CallerResumes(t) \/ Crash(t)
      PROVE  GovernanceInv'
  <2>1. TypeOK'
    BY <1>1, <1>8, DriverKeepsTypes
  <2>2. /\ pc'[t] # "body" /\ UNCHANGED <<waits, decisions, effects>>
        /\ \A u \in Takes \ {t} :
             /\ pc'[u] = pc[u] /\ at'[u] = at[u] /\ g'[u] = g[u]
             /\ held'[u] = held[u] /\ last'[u] = last[u]
    BY <1>1, <1>8 DEF Exit, StartWaiting, Answered, ReadsNothing, GiveUp, PollAgain, Resume,
                      CallerResumes, Crash,
                      Idle, plane, TypeOK
  <2>3. QED
    BY <2>1, <2>2, QuietStep DEF GovernanceInv
<1>9. ASSUME Environment
      PROVE  GovernanceInv'
  <2>1. TypeOK'
    BY <1>1, <1>9, EnvironmentKeepsTypes
  <2>2. CASE \E r \in ApprovalRefs : Approve(r) \/ Reject(r) \/ Lapse(r)
    <3>1. PICK r \in ApprovalRefs : Approve(r) \/ Reject(r) \/ Lapse(r)
      BY <2>2
    <3>2. PICK s \in {"approved", "rejected", "lapsed"} :
            /\ waits[r].state \in OpenStates
            /\ waits' = [waits EXCEPT ![r].state = s] /\ UNCHANGED Around
      BY <3>1 DEF Approve, Reject, Lapse, OpenStates
    <3>3. QED
      BY <2>1, <3>2, OpenWaitStep DEF GovernanceInv
  <2>3. CASE PlaneGoesOrReturns \/ CorpusChanges
    <3>1. UNCHANGED <<pc, at, g, held, last, waits, decisions, effects>>
      BY <2>3 DEF PlaneGoesOrReturns, CorpusChanges, take, plane
    <3>2. QED
      BY <2>1, <3>1, QuietStep DEF GovernanceInv
  <2>4. QED
    BY <1>9, <2>2, <2>3 DEF Environment
<1>10. CASE UNCHANGED vars
  BY <1>10 DEF vars, take, plane, GovernanceInv, TypeOK, Grants, Blocks, Covers, TheQuestion,
               Ledger
<1>11. QED
  BY <1>2, <1>3, <1>4, <1>5, <1>6, <1>7, <1>8, <1>9, <1>10 DEF Next, Step, Ask

(* Every state of every behaviour satisfies the inductive invariant: what the
   plane issued, what an open block runs under and what was done fit together,
   whatever the number of takes and whatever interleaving they run in.        *)
THEOREM InvariantHolds == Spec => []GovernanceInv
<1>1. QED
  BY InvariantStarts, InvariantStays, PTL DEF Spec

(* Every variable keeps its type: in particular a body acts only under a
   decision the plane minted, and on a question that has a meaning.           *)
THEOREM TypeCorrect == Spec => []TypeOK
<1>1. GovernanceInv => TypeOK
  BY DEF GovernanceInv
<1>2. QED
  BY <1>1, InvariantHolds, PTL

(* What a person approved is what was done. *)
THEOREM SendsAreApproved == Spec => []ExecutedAsApproved
<1>1. ASSUME GovernanceInv, NEW e \in EffectsOf("send_external_email")
      PROVE  \E d \in decisions :
               d.ref = e.under /\ d.wait # Nothing /\ waits[d.wait].opened_for = e.done
  <2>1. e \in effects /\ e.done.capability = "send_external_email"
    BY DEF EffectsOf
  <2>2. PICK d \in decisions :
          /\ d.ref = e.under /\ d.question.capability = e.done.capability
          /\ e.done.capability # "read_documents" => d.question = e.done
    BY <1>1, <2>1 DEF GovernanceInv, Ledger
  <2>3. d.wait # Nothing /\ waits[d.wait].state = "spent" /\ waits[d.wait].question = d.question
    BY <1>1, <2>1, <2>2 DEF GovernanceInv, Grants
  <2>4. d.wait \in ApprovalRefs
    BY <1>1, <2>3 DEF GovernanceInv, TypeOK, Decision
  <2>5. waits[d.wait].opened_for = waits[d.wait].question
    BY <1>1, <2>3, <2>4 DEF GovernanceInv, Grants
  <2>6. QED
    BY <2>1, <2>2, <2>3, <2>5
<1>2. GovernanceInv => ExecutedAsApproved
  BY <1>1 DEF ExecutedAsApproved
<1>3. QED
  BY <1>2, InvariantHolds, PTL

(* One person's act authorises one execution. *)
THEOREM ApprovalsAreUsedOnce == Spec => []OneApprovalOneExecution
<1>1. ASSUME GovernanceInv, NEW e \in EffectsOf("send_external_email"),
             NEW f \in EffectsOf("send_external_email"),
             DecisionOf(e).wait = DecisionOf(f).wait
      PROVE  e = f
  <2>1. ASSUME NEW x \in EffectsOf("send_external_email")
        PROVE  /\ x \in effects /\ DecisionOf(x) \in decisions
               /\ DecisionOf(x).ref = x.under /\ DecisionOf(x).wait # Nothing
    <3>1. x \in effects /\ x.done.capability = "send_external_email"
      BY <2>1 DEF EffectsOf
    <3>2. PICK d \in decisions :
            d.ref = x.under /\ d.question.capability = "send_external_email"
      BY <1>1, <3>1 DEF GovernanceInv, Ledger
    <3>3. DecisionOf(x) = d
      BY <1>1, <3>2 DEF DecisionOf, GovernanceInv, Grants
    <3>4. QED
      BY <1>1, <3>1, <3>2, <3>3 DEF GovernanceInv, Grants
  <2>2. DecisionOf(e) = DecisionOf(f)
    BY <1>1, <2>1 DEF GovernanceInv, Grants
  <2>3. e.under = f.under
    BY <2>1, <2>2
  <2>4. QED
    BY <1>1, <2>1, <2>3 DEF GovernanceInv, Ledger
<1>2. GovernanceInv => OneApprovalOneExecution
  BY <1>1 DEF OneApprovalOneExecution
<1>3. QED
  BY <1>2, InvariantHolds, PTL

(* Every artefact names the decision it was written under, and no other
   artefact has its name.                                                     *)
THEOREM ArtefactsAreTraceable == Spec => []ArtefactNamesItsDecision
<1>1. ASSUME GovernanceInv, NEW e \in effects, NEW f \in effects,
             e.done.capability \in External
      PROVE  e.stamp = e.under /\ (f.stamp = e.stamp => f = e)
  <2>1. /\ e.stamp = e.under /\ e.under \in DecisionRefs
        /\ f.stamp = f.under \/ f.stamp = Nothing
    BY <1>1 DEF GovernanceInv, Ledger, TypeOK, Effect
  <2>2. e.under # Nothing
    BY <2>1, TakesAssumption
  <2>3. QED
    BY <1>1, <2>1, <2>2 DEF GovernanceInv, Ledger
<1>2. GovernanceInv => ArtefactNamesItsDecision
  BY <1>1 DEF ArtefactNamesItsDecision
<1>3. QED
  BY <1>2, InvariantHolds, PTL

-----------------------------------------------------------------------------
(* A process other than the one that steps stays where it is, and only an
   allowing answer puts a process inside its block.                          *)
LEMMA EnteringStep ==
  ASSUME TypeOK, [Next]_vars, NEW t \in Takes, pc[t] # "body", pc'[t] = "body"
  PROVE  (AskAllowed(t) \/ AskFindsApproved(t)) /\ \E d \in DecisionRefs : Enter(t, d)
<1>1. ASSUME NEW u \in Takes, AskAllowed(u) \/ AskFindsApproved(u)
      PROVE  (AskAllowed(t) \/ AskFindsApproved(t)) /\ \E d \in DecisionRefs : Enter(t, d)
  <2>1. FreshDecisions # {} /\ FreshDecisions \subseteq DecisionRefs
    BY <1>1 DEF AskAllowed, AskFindsApproved, FreshDecisions
  <2>2. PICK d : d = CHOOSE x \in FreshDecisions : TRUE
    OBVIOUS
  <2>3. d \in DecisionRefs
    BY <2>1, <2>2
  <2>4. Enter(u, d) \/ CouldNotAsk(u)
    BY <1>1, <2>2 DEF AskAllowed, AskFindsApproved
  <2>5. CASE CouldNotAsk(u)
    BY <2>5 DEF CouldNotAsk, Over, TypeOK
  <2>6. CASE Enter(u, d)
    <3>1. u = t
      BY <2>6 DEF Enter, TypeOK
    <3>2. QED
      BY <1>1, <2>3, <2>6, <3>1
  <2>7. QED
    BY <2>4, <2>5, <2>6
<1>2. ASSUME NEW u \in Takes,
             \/ NothingToBind(u) \/ AskUnreachable(u) \/ AskRefused(u) \/ AskDenied(u)
             \/ AskOpensWait(u) \/ AskFindsPending(u) \/ AskFindsRejected(u)
             \/ Finish(u) \/ ReasonRaises(u) \/ BodyRaises(u)
      PROVE  FALSE
  <2>1. \E verdict, ref : Over(u, verdict, ref)
    BY <1>2 DEF NothingToBind, AskUnreachable, AskRefused, AskDenied, AskOpensWait,
                AskFindsPending, AskFindsRejected, CouldNotAsk, Finish,
                ReasonRaises, BodyRaises
  <2>2. QED
    BY <2>1 DEF Over, TypeOK
<1>3. ASSUME NEW u \in Takes,
             \/ Propose(u) \/ Correct(u) \/ Execute(u) \/ Return(u)
             \/ Exit(u) \/ StartWaiting(u) \/ Answered(u) \/ ReadsNothing(u) \/ GiveUp(u)
             \/ PollAgain(u) \/ Resume(u)
             \/ CallerResumes(u) \/ Crash(u)
      PROVE  FALSE
  BY <1>3 DEF Propose, Correct, Execute, Return, Exit, StartWaiting, Answered, ReadsNothing,
              GiveUp, PollAgain, Resume,
              CallerResumes, Crash, TypeOK
<1>4. CASE Environment \/ UNCHANGED vars
  BY <1>4 DEF Environment, Approve, Reject, Lapse, PlaneGoesOrReturns, CorpusChanges,
              Around, vars, take
<1>5. QED
  BY <1>1, <1>2, <1>3, <1>4 DEF Next, Step, Ask

(* Resuming grants nothing: whoever resumes, whatever was merged and however
   often, a body is entered in the very step in which the plane issues a
   decision about what the node asks now, and, for an act the policy suspends,
   from an approval that this step uses up.                                   *)
THEOREM ResumingGrantsNothing == Spec => EntersOnlyOnAFreshAnswer
<1>1. ASSUME TypeOK, [Next]_vars, NEW t \in Takes, pc[t] # "body", pc'[t] = "body"
      PROVE  \E d \in decisions' \ decisions :
               /\ d.ref = held'[t] /\ d.question = TheQuestion(t)
               /\ \/ OutcomeFor(t) = "allow"
                  \/ /\ d.wait # Nothing
                     /\ waits[d.wait].state = "approved"
                     /\ waits'[d.wait].state = "spent"
  <2>0. PICK n \in DecisionRefs : Enter(t, n)
    BY <1>1, EnteringStep
  <2>1. /\ held'[t] = n
        /\ ~ CouldNotAsk(t)
    BY <1>1, <2>0 DEF Enter, TypeOK, CouldNotAsk, Over
  <2>2. CASE AskAllowed(t)
    <3>1. PICK d : d = CHOOSE x \in FreshDecisions : TRUE
      OBVIOUS
    <3>2. /\ FreshDecisions # {} /\ OutcomeFor(t) = "allow"
          /\ Issue(d, TheQuestion(t), Nothing) /\ Enter(t, d)
      BY <2>1, <2>2, <3>1 DEF AskAllowed
    <3>3. d \in FreshDecisions /\ held'[t] = d
      BY <1>1, <3>1, <3>2 DEF Enter, TypeOK
    <3>4. [ref |-> d, question |-> TheQuestion(t), wait |-> Nothing] \in decisions' \ decisions
      BY <3>2, <3>3 DEF Issue, FreshDecisions
    <3>5. QED
      BY <3>2, <3>3, <3>4
  <2>3. CASE AskFindsApproved(t)
    <3>1. PICK d : d = CHOOSE x \in FreshDecisions : TRUE
      OBVIOUS
    <3>2. PICK r \in ApprovalRefs :
            /\ waits[r].state = "approved"
            /\ waits' = [waits EXCEPT ![r].state = "spent"]
            /\ Issue(d, TheQuestion(t), r) /\ Enter(t, d)
      BY <2>1, <2>3, <3>1 DEF AskFindsApproved, WaitsFor
    <3>3. d \in FreshDecisions /\ held'[t] = d
      BY <1>1, <2>3, <3>1, <3>2 DEF Enter, TypeOK, AskFindsApproved
    <3>4. [ref |-> d, question |-> TheQuestion(t), wait |-> r] \in decisions' \ decisions
      BY <3>2, <3>3 DEF Issue, FreshDecisions
    <3>5. waits'[r].state = "spent"
      <4>1. waits[r] \in Wait \cup {NoWait}
        BY <1>1 DEF TypeOK
      <4>2. waits'[r] = [waits[r] EXCEPT !.state = "spent"]
        BY <1>1, <3>2 DEF TypeOK
      <4>3. QED
        BY <4>1, <4>2 DEF Wait, NoWait
    <3>6. r # Nothing
      BY TakesAssumption
    <3>7. QED
      BY <3>2, <3>3, <3>4, <3>5, <3>6
  <2>4. QED
    BY <1>1, <2>2, <2>3, EnteringStep
<1>2. TypeOK /\ [Next]_vars =>
        [\A t \in Takes :
           pc[t] # "body" /\ pc'[t] = "body" =>
             \E d \in decisions' \ decisions :
               /\ d.ref = held'[t] /\ d.question = TheQuestion(t)
               /\ \/ OutcomeFor(t) = "allow"
                  \/ /\ d.wait # Nothing
                     /\ waits[d.wait].state = "approved"
                     /\ waits'[d.wait].state = "spent"]_vars
  BY <1>1
<1>3. QED
  BY <1>2, TypeCorrect, PTL DEF Spec, EntersOnlyOnAFreshAnswer

-----------------------------------------------------------------------------
(* What a take neither does nor proposes leaves its numbers alone. *)
LEMMA NumbersKept ==
  ASSUME NEW t \in Takes, Numbered(t), g'[t] = g[t],
         \A e \in effects' : e.take = t => e \in effects,
         ShortOfTheBody(t)' => ShortOfTheBody(t)
  PROVE  Numbered(t)'
  BY DEF Numbered

LEMMA NumbersKeptByOthers ==
  ASSUME GovernanceInv, Numbering, NEW t \in Takes \ Callers, NEW u \in Takes, u # t,
         Step(u) \/ CallerResumes(u) \/ Crash(u)
  PROVE  Numbered(t)'
<1>1. TypeOK /\ Numbered(t)
  BY DEF GovernanceInv, Numbering
<1>2. pc'[t] = pc[t] /\ result'[t] = result[t] /\ g'[t] = g[t]
  <2>1. CASE \/ Propose(u) \/ Correct(u) \/ Finish(u) \/ ReasonRaises(u)
             \/ Execute(u) \/ BodyRaises(u) \/ Return(u)
    BY <1>1, <2>1 DEF Propose, Correct, Finish, NothingPending, ReasonRaises, Execute, BodyRaises,
                      Return, Over, TypeOK
  <2>2. CASE \/ Exit(u) \/ StartWaiting(u) \/ Answered(u) \/ ReadsNothing(u) \/ GiveUp(u)
             \/ PollAgain(u) \/ Resume(u)
             \/ CallerResumes(u) \/ Crash(u)
    BY <1>1, <2>2 DEF Exit, StartWaiting, Answered, ReadsNothing, GiveUp, PollAgain, Resume,
                      CallerResumes, Crash,
                      Idle, TypeOK
  <2>3. CASE Ask(u)
    BY <1>1, <2>3 DEF Ask, NothingToBind, AskUnreachable, AskRefused, AskAllowed, AskDenied,
                      AskOpensWait, AskFindsPending, AskFindsApproved, AskFindsRejected,
                      CouldNotAsk, Over, Enter, TypeOK
  <2>4. QED
    BY <2>1, <2>2, <2>3 DEF Step
<1>3. \A e \in effects' : e.take = t => e \in effects
  <2>1. \A e \in Effects(u) : e.take = u
    BY DEF Effects
  <2>2. effects' \subseteq effects \cup Effects(u)
    BY DEF Step, Ask, Propose, Correct, Finish, NothingPending, ReasonRaises, Execute, BodyRaises,
           Return, Exit, StartWaiting, Answered, ReadsNothing, GiveUp, PollAgain, Resume,
           CallerResumes, Crash,
           NothingToBind, AskUnreachable, AskRefused, AskAllowed, AskDenied, AskOpensWait,
           AskFindsPending, AskFindsApproved, AskFindsRejected, Idle
  <2>3. QED
    BY <2>1, <2>2
<1>4. QED
  BY <1>1, <1>2, <1>3, NumbersKept DEF ShortOfTheBody

(* The steps of a take of main that neither propose nor act. *)
LEMMA NumbersKeptByItself ==
  ASSUME GovernanceInv, Numbering, NEW t \in Takes \ Callers,
         \/ ReasonRaises(t) \/ Ask(t) \/ Exit(t) \/ StartWaiting(t) \/ Answered(t)
         \/ ReadsNothing(t) \/ GiveUp(t) \/ PollAgain(t) \/ Resume(t) \/ Crash(t)
  PROVE  Numbered(t)'
<1>1. TypeOK /\ Numbered(t)
  BY DEF GovernanceInv, Numbering
<1>2. UNCHANGED <<g, effects>>
  BY DEF ReasonRaises, Ask, Exit, StartWaiting, Answered, ReadsNothing, GiveUp, PollAgain, Resume,
         Crash, NothingToBind,
         AskUnreachable, AskRefused, AskAllowed, AskDenied, AskOpensWait, AskFindsPending,
         AskFindsApproved, AskFindsRejected, Idle
<1>3. ShortOfTheBody(t)' => ShortOfTheBody(t)
  <2>1. CASE Ask(t)
    <3>1. pc[t] = "running"
      BY <2>1 DEF Ask, NothingToBind, AskUnreachable, AskRefused, AskAllowed, AskDenied,
                  AskOpensWait, AskFindsPending, AskFindsApproved, AskFindsRejected, Asking
    <3>2. QED
      BY <3>1 DEF ShortOfTheBody
  <2>2. CASE ReasonRaises(t)
    BY <2>2 DEF ReasonRaises, ShortOfTheBody
  <2>3. CASE Exit(t)
    BY <1>1, <2>3 DEF Exit, Idle, ShortOfTheBody, TypeOK
  <2>4. CASE StartWaiting(t)
    BY <1>1, <2>4 DEF StartWaiting, Idle, ShortOfTheBody, TypeOK, Verdicts
  <2>5. CASE Answered(t) \/ ReadsNothing(t) \/ GiveUp(t) \/ PollAgain(t) \/ Resume(t)
    <3>1. pc[t] \in {"waiting", "unanswered", "answered"}
      BY <2>5 DEF Answered, ReadsNothing, GiveUp, PollAgain, Resume
    <3>2. QED
      BY <3>1 DEF ShortOfTheBody
  <2>6. CASE Crash(t)
    <3>1. pc'[t] = "crashed"
      BY <1>1, <2>6 DEF Crash, TypeOK
    <3>2. QED
      BY <3>1 DEF ShortOfTheBody
  <2>7. QED
    BY <2>1, <2>2, <2>3, <2>4, <2>5, <2>6
<1>4. QED
  BY <1>1, <1>2, <1>3, NumbersKept

(* The steps that propose, act, or come back from an act. *)
LEMMA NumbersGivenOut ==
  ASSUME GovernanceInv, Numbering, NEW t \in Takes \ Callers,
         \/ Propose(t) \/ Correct(t) \/ Finish(t) \/ Execute(t) \/ BodyRaises(t)
         \/ Return(t)
  PROVE  Numbered(t)'
<1>1. /\ TypeOK /\ Numbered(t)
      /\ g[t].sequence \in Nat /\ g[t] \in GraphState
  BY ActsAssumption DEF GovernanceInv, Numbering, TypeOK, GraphState
<1>2. CASE Propose(t)
  <2>1. /\ g'[t].sequence = g[t].sequence + 1
        /\ g'[t].pending.sequence = g[t].sequence + 1
        /\ effects' = effects
    BY <1>1, <1>2 DEF Propose, TypeOK
  <2>2. \A e \in effects : e.take = t => e.done.act \in 1..g[t].sequence
    BY <1>1 DEF Numbered
  <2>3. \A e \in effects' :
          e.take = t => e.done.act \in 1..(g[t].sequence + 1) /\ e.done.act # g[t].sequence + 1
    BY <1>1, <2>1, <2>2
  <2>4. QED
    BY <2>1, <2>3 DEF Numbered
<1>3. CASE Correct(t) \/ Finish(t) \/ Return(t)
  <2>1. /\ g'[t].pending = NoAct /\ g'[t].sequence = g[t].sequence
        /\ effects' = effects
    BY <1>1, <1>3 DEF Correct, Finish, NothingPending, Return, TypeOK, GraphState
  <2>2. \A e \in effects :
          e.take = t => e.done.act \in 1..g[t].sequence /\ e.done.act # 0
    BY <1>1 DEF Numbered
  <2>3. QED
    BY <2>1, <2>2 DEF Numbered, NoAct
<1>4. CASE Execute(t) \/ BodyRaises(t)
  <2>1. /\ pc[t] = "body" /\ g' = g
        /\ effects' \subseteq effects \cup Effects(t)
    BY <1>4 DEF Execute, BodyRaises
  <2>2. g[t].pending # NoAct
    BY <2>1 DEF GovernanceInv, Blocks
  <2>3. g[t].pending.sequence = g[t].sequence /\ g[t].pending.sequence \in 1..MaxActs
    BY <1>1, <2>2 DEF Numbered, GraphState, PendingAct
  <2>4. \A e \in Effects(t) : e.done.act = g[t].pending.sequence
    BY DEF Effects, Performed
  <2>5. ~ ShortOfTheBody(t)'
    BY <1>1, <1>4 DEF Execute, BodyRaises, Over, ShortOfTheBody, TypeOK, Uncaught, Verdicts
  <2>6. \A e \in effects' : e.take = t => e.done.act \in 1..g[t].sequence
    BY <1>1, <2>1, <2>3, <2>4 DEF Numbered
  <2>7. QED
    BY <1>1, <2>1, <2>5, <2>6 DEF Numbered
<1>5. QED
  BY <1>2, <1>3, <1>4

LEMMA NumberingStays == GovernanceInv /\ Numbering /\ [Next]_vars => Numbering'
<1> SUFFICES ASSUME GovernanceInv, Numbering, [Next]_vars,
                    NEW t \in Takes \ Callers
             PROVE  Numbered(t)'
  BY DEF Numbering
<1>1. CASE \E u \in Takes : u # t /\ (Step(u) \/ CallerResumes(u) \/ Crash(u))
  BY <1>1, NumbersKeptByOthers
<1>2. CASE Step(t) \/ CallerResumes(t) \/ Crash(t)
  BY <1>2, NumbersKeptByItself, NumbersGivenOut DEF Step, CallerResumes
<1>3. CASE Environment \/ UNCHANGED vars
  <2>1. UNCHANGED <<pc, result, g, effects>>
    BY <1>3 DEF Environment, Approve, Reject, Lapse, PlaneGoesOrReturns, CorpusChanges,
                Around, vars, take
  <2>2. QED
    BY <2>1, NumbersKept DEF Numbering, ShortOfTheBody
<1>4. QED
  BY <1>1, <1>2, <1>3 DEF Next

LEMMA NumberingStarts == Init => Numbering
  BY DEF Init, Numbering, Numbered

(* "Nothing ran" is true when it is printed: a take of main that ends, or waits,
   on anything but a completed run has not done the act it was asking about,
   whatever was lost or failed on the way.                                       *)
THEOREM NothingRanWhenItSaysSo == Spec => []NothingRan
<1>1. Numbering => NothingRan
  BY DEF Numbering, Numbered, ShortOfTheBody, NothingRan
<1>2. QED
  BY <1>1, InvariantHolds, NumberingStarts, NumberingStays, PTL DEF Spec
=============================================================================
