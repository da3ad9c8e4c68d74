---------------------------- MODULE StreamProofs ----------------------------
(***************************************************************************)
(* The account of a take: its steps are steps of the takes, and what it    *)
(* leaves out it declares.                                                 *)
(***************************************************************************)
EXTENDS Stream, TakeProofs, FiniteSetTheorems

(* A step of the account is a step of the takes. *)
LEMMA AddsNoStep == [StreamNext]_allVars => [Next]_vars
<1> SUFFICES ASSUME [StreamNext]_allVars PROVE [Next]_vars
  OBVIOUS
<1>1. CASE UNCHANGED allVars
  BY <1>1 DEF allVars
<1>2. CASE Environment
  BY <1>2 DEF Next
<1>3. ASSUME NEW t \in Takes,
             RecordOutcome(t) \/ EndInvocation(t) \/ HearAnswer(t) \/ Leave(t) \/ Silent(t)
      PROVE  Step(t) \/ CallerResumes(t) \/ Crash(t)
  BY <1>3 DEF RecordOutcome, EndInvocation, HearAnswer, Leave, Silent, Step
<1> QED
  BY <1>1, <1>2, <1>3 DEF StreamNext, Next

(* Everything proved of the takes holds of the takes with their account:
   keeping and flushing records, as agent.py and boundary_setup.py do around
   every act, neither adds a behaviour nor needs one of its own.             *)
THEOREM AccountingIsInvisible == StreamSpec => Spec
<1>1. StreamInit => Init
  BY DEF StreamInit
<1> QED
  BY <1>1, AddsNoStep, PTL DEF StreamSpec, Spec

-----------------------------------------------------------------------------
(* What a record and an answer are made of: between the allowing answer and
   the return, a take has a decision in hand; while it is suspended, it names
   a wait the plane has opened.                                              *)
Handle(t) ==
  /\ pc[t] \in {"body", "acted", "declined"} => held[t] \in DecisionRefs /\ at[t] \in Tools
  /\ pc[t] \in {"waiting", "unanswered"} \/ (pc[t] = "over" /\ result[t] = "suspended") =>
       waitRef[t] \in ApprovalRefs /\ waits[waitRef[t]].state # "unused"
Handles == \A t \in Takes : Handle(t)

LEMMA HandleKept ==
  ASSUME TypeOK, [Next]_vars, NEW t \in Takes, Handle(t),
         UNCHANGED <<held[t], at[t], waitRef[t], result[t]>>,
         pc'[t] \in {"body", "acted", "declined"} => pc[t] \in {"body", "acted", "declined"},
         pc'[t] \in {"over", "waiting", "unanswered"} =>
           \/ pc[t] = pc'[t]
           \/ pc[t] \in {"waiting", "unanswered"} /\ pc'[t] # "over"
           \/ pc[t] = "over" /\ result[t] = "suspended"
  PROVE  Handle(t)'
<1>1. ASSUME \/ pc'[t] \in {"waiting", "unanswered"}
             \/ pc'[t] = "over" /\ result'[t] = "suspended"
      PROVE  waitRef'[t] \in ApprovalRefs /\ waits'[waitRef'[t]].state # "unused"
  <2>1. waitRef[t] \in ApprovalRefs /\ waits[waitRef[t]].state # "unused"
    BY <1>1 DEF Handle
  <2> QED
    BY <2>1, WaitsKeepTheirQuestion
<1> QED
  BY <1>1 DEF Handle

(* An ask leaves a take with a decision in hand, with a wait, or with neither. *)
LEMMA AskHandles ==
  ASSUME GovernanceInv, NEW t \in Takes, Ask(t)
  PROVE  Handle(t)'
<1>0. TypeOK
  BY DEF GovernanceInv
<1>1. ASSUME NEW d \in DecisionRefs, Enter(t, d), Asking(t), at' = at PROVE Handle(t)'
  BY <1>0, <1>1 DEF Enter, Asking, Handle, TypeOK
<1>2. ASSUME NEW verdict \in (Verdicts \cup {Uncaught}) \ {"suspended"}, NEW r, Over(t, verdict, r)
      PROVE  Handle(t)'
  BY <1>0, <1>2 DEF Over, Handle, TypeOK
<1>3. CASE CouldNotAsk(t)
  BY <1>2, <1>3 DEF CouldNotAsk, Verdicts
<1>4. ASSUME NEW r \in ApprovalRefs, Over(t, "suspended", r), waits'[r].state # "unused"
      PROVE  Handle(t)'
  BY <1>0, <1>4 DEF Over, Handle, TypeOK
<1>5. CASE AskOpensWait(t)
  <2> DEFINE r == CHOOSE x \in FreshWaits : TRUE
  <2>1. r \in ApprovalRefs
    BY <1>5 DEF AskOpensWait, FreshWaits
  <2>2. waits'[r].state = "pending"
    BY <1>0, <1>5, <2>1 DEF AskOpensWait, TypeOK
  <2>3. Over(t, "suspended", r) \/ CouldNotAsk(t)
    BY <1>5 DEF AskOpensWait
  <2> HIDE DEF r
  <2> QED
    BY <1>3, <1>4, <2>1, <2>2, <2>3
<1>6. CASE AskFindsPending(t)
  <2>1. PICK r \in ApprovalRefs :
          waits[r].state = "pending" /\ (Over(t, "suspended", r) \/ CouldNotAsk(t))
    BY <1>6 DEF AskFindsPending, WaitsFor
  <2> QED
    BY <1>3, <1>4, <1>6, <2>1 DEF AskFindsPending, plane
<1>7. CASE AskAllowed(t)
  <2>1. (CHOOSE x \in FreshDecisions : TRUE) \in DecisionRefs
    BY <1>7 DEF AskAllowed, FreshDecisions
  <2> QED
    BY <1>1, <1>3, <1>7, <2>1 DEF AskAllowed
<1>8. CASE AskFindsApproved(t)
  <2>1. (CHOOSE x \in FreshDecisions : TRUE) \in DecisionRefs
    BY <1>8 DEF AskFindsApproved, FreshDecisions
  <2> QED
    BY <1>1, <1>3, <1>8, <2>1 DEF AskFindsApproved
<1>9. CASE \/ NothingToBind(t) \/ AskUnreachable(t) \/ AskRefused(t) \/ AskDenied(t)
           \/ AskFindsRejected(t)
  <2>1. \/ CouldNotAsk(t)
        \/ \E verdict \in {Uncaught, "refused", "denied", "rejected"} : Over(t, verdict, Nothing)
    BY <1>9 DEF NothingToBind, AskUnreachable, AskRefused, AskDenied, AskFindsRejected
  <2> QED
    BY <1>2, <1>3, <2>1 DEF Verdicts, Uncaught
<1> QED
  BY <1>5, <1>6, <1>7, <1>8, <1>9 DEF Ask

LEMMA HandlesStay == GovernanceInv /\ Handles /\ [Next]_vars => Handles'
<1> SUFFICES ASSUME GovernanceInv, Handles, [Next]_vars, NEW t \in Takes PROVE Handle(t)'
  BY DEF Handles
<1>0. TypeOK /\ Handle(t)
  BY DEF GovernanceInv, Handles
<1>1. ASSUME NEW u \in Takes \ {t}, Step(u) \/ CallerResumes(u) \/ Crash(u) PROVE Handle(t)'
  <2>1. CASE Ask(u)
    <3>1. UNCHANGED <<pc[t], held[t], at[t], waitRef[t], result[t]>>
      BY <1>0, <2>1 DEF Ask, NothingToBind, AskUnreachable, AskRefused, AskAllowed, AskDenied,
                        AskOpensWait, AskFindsPending, AskFindsApproved, AskFindsRejected,
                        CouldNotAsk, Over, Enter, TypeOK
    <3> QED
      BY <1>0, <3>1, HandleKept
  <2>2. CASE ~Ask(u)
    <3>1. UNCHANGED <<pc[t], held[t], at[t], waitRef[t], result[t]>>
      BY <1>0, <1>1, <2>2
         DEF Step, Propose, Correct, Finish, NothingPending, ReasonRaises, Execute, BodyRaises,
             Return, Exit, StartWaiting, Answered, ReadsNothing, GiveUp, PollAgain, Resume,
             CallerResumes, Crash, Idle,
             Over, TypeOK
    <3> QED
      BY <1>0, <3>1, HandleKept
  <2> QED
    BY <2>1, <2>2
<1>2. CASE Ask(t)
  BY <1>2, AskHandles
<1>3. CASE Propose(t) \/ Correct(t) \/ Return(t) \/ Resume(t) \/ CallerResumes(t)
  <2>1. pc'[t] = "running"
    BY <1>0, <1>3 DEF Propose, Correct, Return, Resume, CallerResumes, TypeOK
  <2> QED
    BY <2>1 DEF Handle
<1>4. CASE Answered(t) \/ Exit(t) \/ GiveUp(t) \/ Crash(t)
  <2>1. pc'[t] \in {"answered", "exited", "crashed"}
    BY <1>0, <1>4 DEF Answered, Exit, GiveUp, Crash, TypeOK
  <2> QED
    BY <2>1 DEF Handle
<1>5. CASE Finish(t) \/ ReasonRaises(t) \/ BodyRaises(t)
  <2>1. pc'[t] = "over" /\ result'[t] \in {"completed", Uncaught}
    BY <1>0, <1>5 DEF Finish, ReasonRaises, BodyRaises, Over, TypeOK
  <2> QED
    BY <2>1 DEF Handle, Uncaught
<1>6. CASE Execute(t) \/ StartWaiting(t) \/ ReadsNothing(t) \/ PollAgain(t)
  <2>1. /\ UNCHANGED <<held[t], at[t], waitRef[t], result[t]>>
        /\ \/ pc[t] = "body" /\ pc'[t] \in {"acted", "declined"}
           \/ pc[t] = "over" /\ pc'[t] = "waiting" /\ result[t] = "suspended"
           \/ {pc[t], pc'[t]} = {"waiting", "unanswered"}
    BY <1>0, <1>6 DEF Execute, StartWaiting, ReadsNothing, PollAgain, Idle, TypeOK
  <2> QED
    BY <1>0, <2>1, HandleKept
<1>7. CASE Environment \/ UNCHANGED vars
  <2>1. UNCHANGED <<pc[t], held[t], at[t], waitRef[t], result[t]>>
    BY <1>7 DEF Environment, Approve, Reject, Lapse, PlaneGoesOrReturns, CorpusChanges, Around,
                take, vars
  <2> QED
    BY <1>0, <2>1, HandleKept
<1> QED
  BY <1>1, <1>2, <1>3, <1>4, <1>5, <1>6, <1>7 DEF Next, Step

-----------------------------------------------------------------------------
(* The log: what it holds are the last records made, numbered without a gap,
   and what it has lost was made before them.                                *)
Logs == [held : Seq(Outcome), made : Nat, dropped : Nat]
Gone(l) == l.made - Len(l.held)
LogInv(l) ==
  /\ l \in Logs
  /\ Len(l.held) <= Capacity /\ Len(l.held) <= l.made /\ l.dropped <= Gone(l)
  /\ \A i \in 1..Len(l.held) : l.held[i].sequence = Gone(l) + i

(* Keeping a record moves the log on by at most one, and counts what goes. *)
LEMMA KeepsTheLog ==
  ASSUME NEW l, LogInv(l), NEW act, act.capability \in Tools, act.decision \in DecisionRefs
  PROVE  /\ LogInv(Keep(l, act))
         /\ Gone(Keep(l, act)) >= Gone(l)
         /\ Keep(l, act).dropped - l.dropped = Gone(Keep(l, act)) - Gone(l)
<1> DEFINE m == Made(l, act)
<1>0. l \in Logs /\ l.held \in Seq(Outcome) /\ l.made \in Nat /\ l.dropped \in Nat
  BY DEF LogInv, Logs
<1>1. m \in Outcome /\ m.sequence = l.made + 1
  BY <1>0 DEF Made, Outcome
<1>2. Capacity \in Nat \ {0}
  BY CapacityAssumption
<1> DEFINE n == Len(l.held)
<1>a. /\ n \in Nat /\ n <= l.made /\ n <= Capacity /\ l.dropped <= Gone(l)
      /\ Gone(l) \in Nat /\ Gone(l) + n = l.made
  BY <1>0 DEF LogInv, Gone
<1>b. \A i \in 1..n : l.held[i].sequence = Gone(l) + i
  BY DEF LogInv
<1> HIDE DEF m
<1>3. CASE Len(l.held) = Capacity
  <2> DEFINE h == Append(Tail(l.held), m)
  <2>1. l.held # <<>>
    BY <1>0, <1>2, <1>3
  <2>2. Tail(l.held) \in Seq(Outcome) /\ Len(Tail(l.held)) = Len(l.held) - 1
    BY <1>0, <2>1
  <2>3. \A i \in 1..(Len(l.held) - 1) : Tail(l.held)[i] = l.held[i + 1]
    BY <1>0, <2>1
  <2>4. h \in Seq(Outcome) /\ Len(h) = Len(l.held)
    BY <1>1, <2>2
  <2>5. \A i \in 1..Len(h) : h[i] = IF i = Len(h) THEN m ELSE l.held[i + 1]
    BY <1>1, <2>2, <2>3, <2>4
  <2>6. Keep(l, act) = [held |-> h, made |-> l.made + 1, dropped |-> l.dropped + 1]
    BY <1>3 DEF Keep, m
  <2> HIDE DEF h
  <2>7. Gone(Keep(l, act)) = Gone(l) + 1
    BY <1>0, <2>4, <2>6 DEF Gone
  <2>8. ASSUME NEW i \in 1..Len(h) PROVE h[i].sequence = Gone(l) + 1 + i
    <3>1. CASE i = Len(h)
      <4>1. h[i] = m
        BY <2>5, <3>1
      <4>2. l.made + 1 = Gone(l) + 1 + i
        BY <1>a, <2>4, <3>1
      <4> QED
        BY <1>1, <4>1, <4>2
    <3>2. CASE i # Len(h)
      <4>1. i + 1 \in 1..n
        BY <1>a, <2>4, <3>2
      <4>2. h[i] = l.held[i + 1]
        BY <2>5, <3>2
      <4>3. l.held[i + 1].sequence = Gone(l) + (i + 1)
        BY <1>b, <4>1
      <4> QED
        BY <1>a, <2>4, <4>2, <4>3
    <3> QED
      BY <3>1, <3>2
  <2> QED
    BY <1>0, <1>a, <2>4, <2>6, <2>7, <2>8 DEF LogInv, Logs
<1>4. CASE Len(l.held) # Capacity
  <2> DEFINE h == Append(l.held, m)
  <2>1. h \in Seq(Outcome) /\ Len(h) = Len(l.held) + 1
    BY <1>0, <1>1
  <2>2. \A i \in 1..Len(h) : h[i] = IF i = Len(h) THEN m ELSE l.held[i]
    BY <1>0, <1>1, <2>1
  <2>3. Keep(l, act) = [held |-> h, made |-> l.made + 1, dropped |-> l.dropped]
    BY <1>4 DEF Keep, m
  <2> HIDE DEF h
  <2>4. Gone(Keep(l, act)) = Gone(l)
    BY <1>0, <2>1, <2>3 DEF Gone
  <2>5. ASSUME NEW i \in 1..Len(h) PROVE h[i].sequence = Gone(l) + i
    <3>1. CASE i = Len(h)
      <4>1. h[i] = m
        BY <2>2, <3>1
      <4>2. l.made + 1 = Gone(l) + i
        BY <1>0, <1>a, <2>1, <3>1
      <4> QED
        BY <1>1, <4>1, <4>2
    <3>2. CASE i # Len(h)
      <4>1. i \in 1..n
        BY <1>a, <2>1, <3>2
      <4> QED
        BY <1>b, <2>2, <3>2, <4>1
    <3> QED
      BY <3>1, <3>2
  <2> QED
    BY <1>0, <1>2, <1>4, <1>a, <2>1, <2>3, <2>4, <2>5 DEF LogInv, Logs
<1> QED
  BY <1>3, <1>4

LEMMA FirstNumbers ==
  ASSUME NEW n \in Nat
  PROVE  IsFiniteSet(1..n) /\ Cardinality(1..n) = n
<1>1. /\ IsFiniteSet(1..n)
      /\ Cardinality(1..n) = IF 1 > n THEN 0 ELSE n - 1 + 1
  BY FS_Interval
<1> QED
  BY <1>1

LEMMA NextNumbers ==
  ASSUME NEW m \in Nat, NEW k \in Nat
  PROVE  IsFiniteSet((m + 1)..(m + k)) /\ Cardinality((m + 1)..(m + k)) = k
<1>1. m + 1 \in Int /\ m + k \in Int
  OBVIOUS
<1>2. /\ IsFiniteSet((m + 1)..(m + k))
      /\ Cardinality((m + 1)..(m + k)) = IF m + 1 > m + k THEN 0 ELSE m + k - (m + 1) + 1
  BY <1>1, FS_Interval
<1>3. (IF m + 1 > m + k THEN 0 ELSE m + k - (m + 1) + 1) = k
  OBVIOUS
<1> QED
  BY <1>2, <1>3

(* A flush leaves an empty log, and what it hands over are lines of evidence,
   in order, each with at least what the log had lost.                       *)
LEMMA FlushesTheLog ==
  ASSUME NEW l, LogInv(l), NEW raised \in SUBSET (1..Len(l.held))
  PROVE  /\ LogInv(Flushed(l, raised))
         /\ Gone(Flushed(l, raised)) = Gone(l) + Len(l.held)
         /\ Flushed(l, raised).dropped >= l.dropped
         /\ HandedOver(l, raised) \in Seq(EvidenceLine)
         /\ Len(HandedOver(l, raised)) = Len(l.held)
         /\ \A i \in 1..Len(l.held) :
              /\ HandedOver(l, raised)[i].sequence = Gone(l) + i
              /\ HandedOver(l, raised)[i].dropped_before >= l.dropped
<1> DEFINE handed == HandedOver(l, raised)
           before(i) == Cardinality({j \in raised : j < i})
<1>0. /\ l \in Logs /\ l.held \in Seq(Outcome) /\ l.made \in Nat /\ l.dropped \in Nat
      /\ Len(l.held) \in Nat
  BY DEF LogInv, Logs
<1>1. IsFiniteSet(1..Len(l.held)) /\ Cardinality(1..Len(l.held)) = Len(l.held)
  BY <1>0, FirstNumbers
<1>2. IsFiniteSet(raised) /\ Cardinality(raised) <= Len(l.held) /\ Cardinality(raised) \in Nat
  BY <1>1, FS_Subset, FS_CardinalityType
<1>3. ASSUME NEW i PROVE before(i) \in Nat
  <2>1. {j \in raised : j < i} \in SUBSET raised
    OBVIOUS
  <2> QED
    BY <1>2, <2>1, FS_Subset, FS_CardinalityType
<1>4. ASSUME NEW i \in 1..Len(l.held)
      PROVE  /\ handed[i] \in EvidenceLine
             /\ handed[i].sequence = Gone(l) + i
             /\ handed[i].dropped_before >= l.dropped
  <2>1. l.held[i] \in Outcome
    BY <1>0
  <2>2. before(i) \in Nat
    BY <1>3
  <2>3. handed[i] = [capability |-> l.held[i].capability, decision |-> l.held[i].decision,
                     sequence |-> l.held[i].sequence, dropped_before |-> l.dropped + before(i)]
    BY DEF HandedOver
  <2>4. l.held[i].sequence = Gone(l) + i
    BY DEF LogInv
  <2> HIDE DEF before, handed
  <2> QED
    BY <1>0, <2>1, <2>2, <2>3, <2>4 DEF EvidenceLine, Outcome
<1>5. handed \in [1..Len(l.held) -> EvidenceLine]
  <2>1. handed = [i \in 1..Len(l.held) |-> handed[i]]
    BY DEF HandedOver
  <2> HIDE DEF handed
  <2> QED
    BY <1>4, <2>1
<1>6. handed \in Seq(EvidenceLine) /\ Len(handed) = Len(l.held)
  <2> HIDE DEF handed
  <2> QED
    BY <1>0, <1>5
<1>7. /\ Flushed(l, raised).held = <<>> /\ Flushed(l, raised).made = l.made
      /\ Flushed(l, raised).dropped = l.dropped + Cardinality(raised)
      /\ Flushed(l, raised) \in Logs
  BY <1>0, <1>2 DEF Flushed, Logs
<1>8. /\ Gone(Flushed(l, raised)) = l.made
      /\ Flushed(l, raised).dropped >= l.dropped
      /\ LogInv(Flushed(l, raised))
  BY <1>0, <1>2, <1>7, CapacityAssumption DEF LogInv, Logs, Gone
<1>9. Gone(l) + Len(l.held) = l.made
  BY <1>0 DEF Gone
<1> HIDE DEF handed
<1> QED
  BY <1>4, <1>6, <1>8, <1>9 DEF handed

-----------------------------------------------------------------------------
(* Counting the evidence in a sink. *)
LEMMA CountsAreNumbers ==
  ASSUME NEW sink, NEW n \in Nat
  PROVE  IsFiniteSet({j \in 1..n : Evidence(sink[j])}) /\ EvidenceAmong(sink, n) \in Nat
<1>1. {j \in 1..n : Evidence(sink[j])} \in SUBSET (1..n)
  OBVIOUS
<1>2. IsFiniteSet(1..n)
  BY FirstNumbers
<1>3. IsFiniteSet({j \in 1..n : Evidence(sink[j])})
  BY <1>1, <1>2, FS_Subset
<1> QED
  BY <1>3, FS_CardinalityType DEF EvidenceAmong

LEMMA SameLinesSameCount ==
  ASSUME NEW s, NEW r, NEW n \in Nat, \A j \in 1..n : r[j] = s[j]
  PROVE  EvidenceAmong(r, n) = EvidenceAmong(s, n)
<1>1. {j \in 1..n : Evidence(r[j])} = {j \in 1..n : Evidence(s[j])}
  OBVIOUS
<1> QED
  BY <1>1 DEF EvidenceAmong

LEMMA MoreEvidence ==
  ASSUME NEW S, NEW s \in Seq(S), NEW h \in Seq(S), \A i \in 1..Len(h) : Evidence(h[i]),
         NEW k \in 0..Len(h)
  PROVE  EvidenceAmong(s \o h, Len(s) + k) = EvidenceAmong(s, Len(s)) + k
<1> DEFINE m == Len(s)
           A == {j \in 1..m : Evidence(s[j])}
           B == (m + 1)..(m + k)
<1>0. m \in Nat /\ k \in Nat
  OBVIOUS
<1>1. \A j \in 1..(m + k) : (s \o h)[j] = IF j <= m THEN s[j] ELSE h[j - m]
  OBVIOUS
<1>2. {j \in 1..(m + k) : Evidence((s \o h)[j])} = A \cup B
  <2>1. \A j \in 1..(m + k) : Evidence((s \o h)[j]) <=> j \in A \cup B
    <3> SUFFICES ASSUME NEW j \in 1..(m + k)
                 PROVE  Evidence((s \o h)[j]) <=> j \in A \cup B
      OBVIOUS
    <3>1. CASE j <= m
      <4>1. (s \o h)[j] = s[j] /\ j \in 1..m /\ j \notin B
        BY <1>0, <1>1, <3>1
      <4> QED
        BY <4>1
    <3>2. CASE ~(j <= m)
      <4>1. (s \o h)[j] = h[j - m] /\ j - m \in 1..Len(h) /\ j \in B
        BY <1>0, <1>1, <3>2
      <4> QED
        BY <4>1
    <3> QED
      BY <3>1, <3>2
  <2>2. A \cup B \subseteq 1..(m + k)
    BY <1>0
  <2> HIDE DEF A, B
  <2> QED
    BY <2>1, <2>2
<1>3. A \cap B = {}
  BY <1>0
<1>4. IsFiniteSet(A) /\ Cardinality(A) \in Nat
  BY <1>0, CountsAreNumbers DEF EvidenceAmong
<1>5. IsFiniteSet(B) /\ Cardinality(B) = k
  BY <1>0, NextNumbers
<1>6. Cardinality(A \cup B) = Cardinality(A) + k
  <2>1. Cardinality(A \cup B) = Cardinality(A) + Cardinality(B) - Cardinality(A \cap B)
    BY <1>4, <1>5, FS_Union
  <2>2. Cardinality(A \cap B) = 0
    BY <1>3, FS_EmptySet
  <2> HIDE DEF A, B
  <2> QED
    BY <1>0, <1>4, <1>5, <2>1, <2>2
<1> QED
  BY <1>2, <1>6 DEF EvidenceAmong

-----------------------------------------------------------------------------
(* The account of a take: the log, and in each sink evidence that is older
   than what the log holds, none of it hiding a gap. What is missing from a
   sink altogether is no more than the log has counted as lost.              *)
Line == EvidenceLine \cup AnswerLine
Declares(sink, i) ==
  Evidence(sink[i]) =>
    /\ \A j \in 1..(i - 1) : Evidence(sink[j]) => sink[j].sequence < sink[i].sequence
    /\ sink[i].sequence - EvidenceAmong(sink, i) <= sink[i].dropped_before
SinkInv(sink, l) ==
  /\ \A i \in 1..Len(sink) : Declares(sink, i)
  /\ \A i \in 1..Len(sink) : Evidence(sink[i]) => sink[i].sequence <= Gone(l)
  /\ Gone(l) - EvidenceAmong(sink, Len(sink)) <= l.dropped
Account(l, r, e) ==
  /\ LogInv(l)
  /\ r \in Seq(EvidenceLine) /\ SinkInv(r, l)
  /\ e \in Seq(Line) /\ SinkInv(e, l)

LEMMA EvidenceLines ==
  /\ \A e \in Line : Evidence(e) => e \in EvidenceLine
  /\ \A e \in EvidenceLine : Evidence(e)
  /\ \A e \in AnswerLine : ~Evidence(e)
  BY DEF Line, Evidence, EvidenceLine, AnswerLine

LEMMA LogNumbers ==
  ASSUME NEW l, LogInv(l)
  PROVE  l.dropped \in Nat /\ Gone(l) \in Nat /\ l.dropped <= Gone(l) /\ Len(l.held) \in Nat
  BY DEF LogInv, Logs, Gone

LEMMA KeepingAccounts ==
  ASSUME NEW l, NEW r, NEW e, Account(l, r, e),
         NEW act, act.capability \in Tools, act.decision \in DecisionRefs
  PROVE  Account(Keep(l, act), r, e)
<1> DEFINE k == Keep(l, act)
<1>1. LogInv(l) /\ LogInv(k) /\ Gone(k) >= Gone(l) /\ k.dropped - l.dropped = Gone(k) - Gone(l)
  BY KeepsTheLog DEF Account
<1>2. /\ l.dropped \in Nat /\ k.dropped \in Nat /\ Gone(l) \in Nat /\ Gone(k) \in Nat
  BY <1>1, LogNumbers
<1> HIDE DEF k
<1>3. ASSUME NEW sink \in Seq(Line), SinkInv(sink, l) PROVE SinkInv(sink, k)
  <2>1. EvidenceAmong(sink, Len(sink)) \in Nat
    <3>1. Len(sink) \in Nat
      OBVIOUS
    <3> QED
      BY <3>1, CountsAreNumbers
  <2>2. \A i \in 1..Len(sink) : Evidence(sink[i]) => sink[i].sequence \in Nat
    BY EvidenceLines DEF EvidenceLine
  <2> QED
    BY <1>1, <1>2, <1>3, <2>1, <2>2 DEF SinkInv
<1>4. r \in Seq(Line)
  BY DEF Account, Line
<1> QED
  BY <1>1, <1>3, <1>4 DEF Account, k

(* A flush adds to a sink what the log held, each line with at least what was
   lost before it.                                                           *)
LEMMA SinkTakes ==
  ASSUME NEW l, LogInv(l), NEW raised \in SUBSET (1..Len(l.held)),
         NEW sink \in Seq(Line), SinkInv(sink, l)
  PROVE  /\ sink \o HandedOver(l, raised) \in Seq(Line)
         /\ SinkInv(sink \o HandedOver(l, raised), Flushed(l, raised))
<1> DEFINE h == HandedOver(l, raised)
           f == Flushed(l, raised)
           n == Len(sink)
           k == Len(l.held)
           s == sink \o h
           lost == Gone(l) - EvidenceAmong(sink, n)
<1>1. /\ Gone(f) = Gone(l) + k /\ f.dropped >= l.dropped /\ LogInv(f)
      /\ h \in Seq(EvidenceLine) /\ Len(h) = k
      /\ \A i \in 1..k : h[i].sequence = Gone(l) + i /\ h[i].dropped_before >= l.dropped
  BY FlushesTheLog
<1>2. /\ l.dropped \in Nat /\ f.dropped \in Nat /\ Gone(l) \in Nat /\ k \in Nat /\ n \in Nat
  <2>1. n \in Nat
    OBVIOUS
  <2> QED
    BY <1>1, <2>1, LogNumbers
<1> HIDE DEF h, f
<1>3. h \in Seq(Line)
  BY <1>1 DEF Line
<1>4. s \in Seq(Line) /\ Len(s) = n + k
  BY <1>1, <1>3
<1>5. \A i \in 1..(n + k) : s[i] = IF i <= n THEN sink[i] ELSE h[i - n]
  BY <1>1, <1>3, <1>4
<1>6. \A i \in 1..k : Evidence(h[i]) /\ h[i] \in EvidenceLine
  BY <1>1, EvidenceLines
<1>7. EvidenceAmong(sink, n) \in Nat /\ lost <= l.dropped
  BY <1>2, CountsAreNumbers DEF SinkInv
<1>8. ASSUME NEW i \in 0..k PROVE EvidenceAmong(s, n + i) = EvidenceAmong(sink, n) + i
  BY <1>1, <1>3, <1>6, MoreEvidence
<1> HIDE DEF s, n, k
<1>9. \A i \in 1..n : s[i] = sink[i]
  BY <1>2, <1>5
<1>10. ASSUME NEW i \in 1..(n + k), i > n
       PROVE  /\ i - n \in 1..k /\ s[i] = h[i - n]
              /\ s[i].sequence = Gone(l) + (i - n) /\ s[i].dropped_before >= l.dropped
              /\ s[i].dropped_before \in Nat
  <2>1. i - n \in 1..k /\ s[i] = h[i - n]
    BY <1>2, <1>5, <1>10
  <2> QED
    BY <1>1, <1>6, <2>1 DEF EvidenceLine
<1>11. ASSUME NEW i \in 1..n, Evidence(sink[i])
       PROVE  sink[i].sequence \in Nat /\ sink[i].sequence <= Gone(l)
  BY <1>11, EvidenceLines DEF EvidenceLine, SinkInv, n
<1>12. ASSUME NEW i \in 1..(n + k) PROVE Declares(s, i)
  <2>1. CASE i <= n
    <3>1. i \in 1..n /\ s[i] = sink[i] /\ \A j \in 1..i : s[j] = sink[j]
      BY <1>2, <1>9, <2>1
    <3>2. EvidenceAmong(s, i) = EvidenceAmong(sink, i)
      BY <1>2, <3>1, SameLinesSameCount
    <3>3. Declares(sink, i)
      BY <3>1 DEF SinkInv, n
    <3>4. \A j \in 1..(i - 1) : s[j] = sink[j]
      BY <1>2, <3>1
    <3> QED
      BY <3>1, <3>2, <3>3, <3>4 DEF Declares
  <2>2. CASE i > n
    <3>1. /\ i - n \in 1..k /\ s[i].sequence = Gone(l) + (i - n)
          /\ s[i].dropped_before >= l.dropped /\ s[i].dropped_before \in Nat
      BY <1>10, <2>2
    <3>2. EvidenceAmong(s, i) = EvidenceAmong(sink, n) + (i - n)
      <4>1. n + (i - n) = i /\ i - n \in 0..k
        BY <1>2, <3>1
      <4> QED
        BY <1>8, <4>1
    <3>3. s[i].sequence - EvidenceAmong(s, i) <= s[i].dropped_before
      BY <1>2, <1>7, <3>1, <3>2
    <3>4. ASSUME NEW j \in 1..(i - 1), Evidence(s[j]) PROVE s[j].sequence < s[i].sequence
      <4>1. CASE j <= n
        <5>1. j \in 1..n /\ s[j] = sink[j]
          BY <1>2, <1>9, <4>1
        <5> QED
          BY <1>2, <1>11, <3>1, <3>4, <5>1
      <4>2. CASE j > n
        <5>1. j \in 1..(n + k)
          BY <1>2
        <5>2. s[j].sequence = Gone(l) + (j - n)
          BY <1>10, <4>2, <5>1
        <5> QED
          BY <1>2, <3>1, <4>2, <5>2
      <4> QED
        BY <1>2, <4>1, <4>2
    <3> QED
      BY <3>3, <3>4 DEF Declares
  <2> QED
    BY <1>2, <2>1, <2>2
<1>13. ASSUME NEW i \in 1..(n + k), Evidence(s[i]) PROVE s[i].sequence <= Gone(f)
  <2>1. CASE i <= n
    <3>1. i \in 1..n /\ s[i] = sink[i]
      BY <1>2, <1>9, <2>1
    <3> QED
      BY <1>1, <1>2, <1>11, <1>13, <3>1
  <2>2. CASE i > n
    BY <1>1, <1>2, <1>10, <2>2
  <2> QED
    BY <1>2, <2>1, <2>2
<1>14. Gone(f) - EvidenceAmong(s, n + k) <= f.dropped
  <2>1. EvidenceAmong(s, n + k) = EvidenceAmong(sink, n) + k
    BY <1>2, <1>8
  <2> QED
    BY <1>1, <1>2, <1>7, <2>1
<1>15. SinkInv(s, f)
  BY <1>4, <1>12, <1>13, <1>14 DEF SinkInv
<1> QED
  BY <1>4, <1>15 DEF s, h, f

LEMMA FlushingAccounts ==
  ASSUME NEW l, NEW r, NEW e, Account(l, r, e), NEW raised \in SUBSET (1..Len(l.held))
  PROVE  Account(Flushed(l, raised), r \o HandedOver(l, raised), e \o HandedOver(l, raised))
<1>1. LogInv(l) /\ LogInv(Flushed(l, raised)) /\ HandedOver(l, raised) \in Seq(EvidenceLine)
  BY FlushesTheLog DEF Account
<1>2. r \in Seq(EvidenceLine) /\ r \in Seq(Line) /\ e \in Seq(Line) /\ SinkInv(r, l) /\ SinkInv(e, l)
  BY DEF Account, Line
<1>3. r \o HandedOver(l, raised) \in Seq(EvidenceLine)
  BY <1>1, <1>2
<1> QED
  BY <1>1, <1>2, <1>3, SinkTakes DEF Account

(* A person's answer is no evidence, and moves no number. *)
LEMMA HearingAccounts ==
  ASSUME NEW l, NEW r, NEW e, Account(l, r, e), NEW a \in AnswerLine
  PROVE  Account(l, r, Append(e, a))
<1> DEFINE s == Append(e, a)
           n == Len(e)
<1>1. /\ LogInv(l) /\ e \in Seq(Line) /\ SinkInv(e, l) /\ a \in Line /\ ~Evidence(a) /\ n \in Nat
  BY EvidenceLines DEF Account, Line
<1>2. s \in Seq(Line) /\ Len(s) = n + 1 /\ (\A i \in 1..n : s[i] = e[i]) /\ s[n + 1] = a
  BY <1>1
<1> HIDE DEF s
<1>3. ASSUME NEW i \in 1..n PROVE Declares(s, i)
  <2>1. s[i] = e[i] /\ (\A j \in 1..i : s[j] = e[j]) /\ i \in Nat
    BY <1>1, <1>2
  <2>2. EvidenceAmong(s, i) = EvidenceAmong(e, i)
    BY <2>1, SameLinesSameCount
  <2>3. Declares(e, i)
    BY <1>1 DEF SinkInv
  <2>4. \A j \in 1..(i - 1) : s[j] = e[j]
    BY <2>1
  <2> QED
    BY <2>1, <2>2, <2>3, <2>4 DEF Declares
<1>4. EvidenceAmong(s, n + 1) = EvidenceAmong(e, n)
  <2>1. {j \in 1..(n + 1) : Evidence(s[j])} = {j \in 1..n : Evidence(e[j])}
    BY <1>1, <1>2
  <2> QED
    BY <2>1 DEF EvidenceAmong
<1> HIDE DEF n
<1>5. \A i \in 1..(n + 1) : i \in 1..n \/ i = n + 1
  BY <1>1
<1>6. SinkInv(s, l)
  <2>1. \A i \in 1..(n + 1) : Declares(s, i)
    BY <1>1, <1>2, <1>3, <1>5 DEF Declares
  <2>2. \A i \in 1..(n + 1) : Evidence(s[i]) => s[i].sequence <= Gone(l)
    BY <1>1, <1>2, <1>5 DEF SinkInv, n
  <2> QED
    BY <1>1, <1>2, <1>4, <2>1, <2>2 DEF SinkInv, n
<1> QED
  BY <1>1, <1>2, <1>6 DEF Account, s

-----------------------------------------------------------------------------
StreamInv ==
  /\ log \in [Takes -> Logs]
  /\ records \in [Takes -> Seq(EvidenceLine)]
  /\ events \in [Takes -> Seq(Line)]
  /\ file \in [take : Takes, lines : Seq(Line)] \cup {Nothing}
  /\ \A t \in Takes : Account(log[t], records[t], events[t])

LEMMA StreamStarts == StreamInit => StreamInv
<1> SUFFICES ASSUME StreamInit PROVE StreamInv
  OBVIOUS
<1>1. <<>> \in Seq(Outcome) /\ <<>> \in Seq(EvidenceLine) /\ <<>> \in Seq(Line) /\ Len(<<>>) = 0
  OBVIOUS
<1>2. EmptyLog \in Logs /\ LogInv(EmptyLog) /\ Gone(EmptyLog) = 0 /\ EmptyLog.dropped = 0
  BY <1>1, CapacityAssumption DEF EmptyLog, Logs, LogInv, Gone
<1>3. EvidenceAmong(<<>>, 0) \in Nat
  BY CountsAreNumbers
<1>4. SinkInv(<<>>, EmptyLog)
  BY <1>1, <1>2, <1>3 DEF SinkInv
<1>5. Account(EmptyLog, <<>>, <<>>)
  BY <1>1, <1>2, <1>4 DEF Account
<1> QED
  BY <1>1, <1>2, <1>5 DEF StreamInit, StreamInv

(* One take's account changes, or none does. *)
LEMMA OneAccountMoves ==
  ASSUME StreamInv, NEW t \in Takes, NEW l, NEW r, NEW e, Account(l, r, e),
         log' = [log EXCEPT ![t] = l], records' = [records EXCEPT ![t] = r],
         events' = [events EXCEPT ![t] = e],
         file' = file \/ file' = [take |-> t, lines |-> e]
  PROVE  StreamInv'
<1>1. l \in Logs /\ r \in Seq(EvidenceLine) /\ e \in Seq(Line)
  BY DEF Account, LogInv
<1>2. /\ log' \in [Takes -> Logs] /\ records' \in [Takes -> Seq(EvidenceLine)]
      /\ events' \in [Takes -> Seq(Line)]
      /\ file' \in [take : Takes, lines : Seq(Line)] \cup {Nothing}
  BY <1>1 DEF StreamInv
<1>3. ASSUME NEW u \in Takes PROVE Account(log'[u], records'[u], events'[u])
  <2>1. CASE u = t
    <3>1. log'[u] = l /\ records'[u] = r /\ events'[u] = e
      BY <2>1 DEF StreamInv
    <3> QED
      BY <3>1
  <2>2. CASE u # t
    <3>1. log'[u] = log[u] /\ records'[u] = records[u] /\ events'[u] = events[u]
      BY <2>2 DEF StreamInv
    <3> QED
      BY <3>1 DEF StreamInv
  <2> QED
    BY <2>1, <2>2
<1> QED
  BY <1>2, <1>3 DEF StreamInv

LEMMA FlushStep ==
  ASSUME StreamInv, NEW t \in Takes, Flush(t),
         file' = file \/ file' = [take |-> t, lines |-> events'[t]]
  PROVE  StreamInv'
<1>1. PICK raised \in SUBSET (1..Len(log[t].held)) : FanOut(t, raised)
  BY DEF Flush
<1> DEFINE h == HandedOver(log[t], raised)
           l == Flushed(log[t], raised)
           r == records[t] \o h
           e == events[t] \o h
<1>2. Account(l, r, e)
  BY FlushingAccounts DEF StreamInv
<1>3. /\ log' = [log EXCEPT ![t] = l] /\ records' = [records EXCEPT ![t] = r]
      /\ events' = [events EXCEPT ![t] = e]
  BY <1>1 DEF FanOut
<1> HIDE DEF l, r, e, h
<1>4. events'[t] = e
  BY <1>3 DEF StreamInv
<1> QED
  BY <1>2, <1>3, <1>4, OneAccountMoves

LEMMA UnchangedStream ==
  ASSUME StreamInv, UNCHANGED stream
  PROVE  StreamInv'
  BY DEF StreamInv, stream

LEMMA RecordStep ==
  ASSUME StreamInv, TypeOK, Handles, NEW t \in Takes, RecordOutcome(t)
  PROVE  StreamInv'
<1> DEFINE act == [capability |-> at[t], decision |-> held[t]]
           l == Keep(log[t], act)
<1>1. pc[t] \in {"acted", "declined"}
  BY DEF RecordOutcome, Return
<1>2. act.capability \in Tools /\ act.decision \in DecisionRefs
  BY <1>1 DEF Handles, Handle
<1>3. Account(l, records[t], events[t])
  BY <1>2, KeepingAccounts DEF StreamInv
<1>4. /\ log' = [log EXCEPT ![t] = l] /\ UNCHANGED <<records, events, file>>
  BY DEF RecordOutcome
<1> HIDE DEF l, act
<1>5. records' = [records EXCEPT ![t] = records[t]] /\ events' = [events EXCEPT ![t] = events[t]]
  BY <1>4 DEF StreamInv
<1>6. file' = file /\ log' = [log EXCEPT ![t] = l]
  BY <1>4
<1> QED
  BY <1>3, <1>5, <1>6, OneAccountMoves

LEMMA HearStep ==
  ASSUME StreamInv, TypeOK, Handles, NEW t \in Takes, HearAnswer(t)
  PROVE  StreamInv'
<1> DEFINE a == [answer |-> waits[waitRef[t]].state]
           e == Append(events[t], a)
<1>1. pc[t] = "waiting" /\ waits[waitRef[t]].state # "pending"
  BY DEF HearAnswer, Answered
<1>2. waitRef[t] \in ApprovalRefs /\ waits[waitRef[t]].state # "unused"
  BY <1>1 DEF Handles, Handle
<1>3. waits[waitRef[t]] \in Wait
  BY <1>2 DEF TypeOK, NoWait
<1>4. a \in AnswerLine
  BY <1>1, <1>3 DEF AnswerLine, Wait
<1>5. Account(log[t], records[t], e)
  BY <1>4, HearingAccounts DEF StreamInv
<1>6. events' = [events EXCEPT ![t] = e] /\ UNCHANGED <<log, records, file>>
  BY DEF HearAnswer
<1> HIDE DEF e
<1>7. log' = [log EXCEPT ![t] = log[t]] /\ records' = [records EXCEPT ![t] = records[t]]
  BY <1>6 DEF StreamInv
<1> QED
  BY <1>5, <1>6, <1>7, OneAccountMoves

LEMMA StreamStays == StreamInv /\ TypeOK /\ Handles /\ [StreamNext]_allVars => StreamInv'
<1> SUFFICES ASSUME StreamInv, TypeOK, Handles, [StreamNext]_allVars PROVE StreamInv'
  OBVIOUS
<1>1. ASSUME NEW t \in Takes, EndInvocation(t) PROVE StreamInv'
  BY <1>1, FlushStep DEF EndInvocation
<1>2. ASSUME NEW t \in Takes, Leave(t) PROVE StreamInv'
  BY <1>2, FlushStep, UnchangedStream DEF Leave
<1>3. ASSUME NEW t \in Takes, Silent(t) PROVE StreamInv'
  BY <1>3, UnchangedStream DEF Silent
<1>4. CASE Environment /\ UNCHANGED stream
  BY <1>4, UnchangedStream
<1>5. CASE UNCHANGED allVars
  BY <1>5, UnchangedStream DEF allVars
<1> QED
  BY <1>1, <1>2, <1>3, <1>4, <1>5, RecordStep, HearStep DEF StreamNext

(* The whole invariant, with what it takes from the takes. *)
LEMMA AccountsAreKept == StreamSpec => [](StreamInv /\ GovernanceInv /\ Handles)
<1>1. Init => Handles
  BY DEF Init, Handles, Handle
<1>2. StreamInit => Init
  BY DEF StreamInit
<1>3. GovernanceInv => TypeOK
  BY DEF GovernanceInv
<1> QED
  BY <1>1, <1>2, <1>3, InvariantStarts, InvariantStays, HandlesStay, StreamStarts, StreamStays,
     AddsNoStep, PTL DEF StreamSpec

(* The log, the sinks, the stream and its file hold what they may: a line of
   evidence names a decision and a capability, the log is never over its
   bound, and it never says it has lost more than it was given.              *)
THEOREM StreamTypes == StreamSpec => []StreamTypeOK
<1>1. StreamInv => StreamTypeOK
  <2> SUFFICES ASSUME StreamInv PROVE StreamTypeOK
    OBVIOUS
  <2>1. ASSUME NEW t \in Takes PROVE Len(log[t].held) <= Capacity /\ log[t].dropped <= log[t].made
    <3>1. LogInv(log[t])
      BY DEF StreamInv, Account
    <3> QED
      BY <3>1 DEF LogInv, Logs, Gone
  <2> QED
    BY <2>1 DEF StreamTypeOK, StreamInv, Logs, Line
<1> QED
  BY <1>1, AccountsAreKept, PTL

(* Every record in a sink says at least how many records before it are
   missing there, and they are in the order they were made, for a log of any
   size, any number of acts and any failures of the printer (_fan_out,
   EventLog.evidence_record).                                                *)
THEOREM GapsDeclared == StreamSpec => []GapsAreDeclared
<1>1. StreamInv => GapsAreDeclared
  <2> SUFFICES ASSUME StreamInv, NEW t \in Takes, NEW sink \in {records[t], events[t]},
                      NEW i \in 1..Len(sink)
               PROVE  Declares(sink, i)
    BY DEF GapsAreDeclared, Declares
  <2> QED
    BY DEF StreamInv, Account, SinkInv
<1> QED
  BY <1>1, AccountsAreKept, PTL

-----------------------------------------------------------------------------
(***************************************************************************)
(* What is missing. An act of a take is lost to a sink when no line of the *)
(* sink, no record still in the log and no open block has its decision.    *)
(***************************************************************************)
NoLine(sink, d) == \A i \in 1..Len(sink) : Evidence(sink[i]) => sink[i].decision # d
Unheld(l, d) == \A i \in 1..Len(l.held) : l.held[i].decision # d
Lost(t, acts, sink, l, open) ==
  {e \in acts : e.take = t /\ NoLine(sink, e.under) /\ Unheld(l, e.under) /\ e.under # open}
AtMost(S, n) == IsFiniteSet(S) /\ Cardinality(S) <= n

(* No more is lost than the log counts, and once the log has been flushed some
   line of the stream says as much.                                          *)
Settled(t, acts, l, r, e, open) ==
  /\ AtMost(Lost(t, acts, r, l, open), l.dropped)
  /\ AtMost(Lost(t, acts, e, l, open), l.dropped)
  /\ \/ Lost(t, acts, e, l, open) = {}
     \/ l.held # <<>>
     \/ \E i \in 1..Len(e) :
          Evidence(e[i]) /\ e[i].dropped_before >= Cardinality(Lost(t, acts, e, l, open))

LEMMA Fewer ==
  ASSUME NEW S, NEW n \in Nat, AtMost(S, n), NEW T \in SUBSET S, NEW m \in Nat, n <= m
  PROVE  AtMost(T, m) /\ Cardinality(T) <= Cardinality(S)
         /\ Cardinality(T) \in Nat /\ Cardinality(S) \in Nat
<1>1. IsFiniteSet(S) /\ Cardinality(S) <= n
  BY DEF AtMost
<1>2. IsFiniteSet(T) /\ Cardinality(T) <= Cardinality(S)
  BY <1>1, FS_Subset
<1>3. Cardinality(T) \in Nat /\ Cardinality(S) \in Nat
  BY <1>1, <1>2, FS_CardinalityType
<1> QED
  BY <1>1, <1>2, <1>3 DEF AtMost

LEMMA OneMoreAtMost ==
  ASSUME NEW S, NEW n \in Nat, AtMost(S, n), NEW one, \A x, y \in one : x = y,
         NEW T \in SUBSET (S \cup one)
  PROVE  AtMost(T, n + 1)
<1>1. IsFiniteSet(S) /\ Cardinality(S) <= n /\ Cardinality(S) \in Nat
  BY FS_CardinalityType DEF AtMost
<1>2. CASE one = {}
  <2>1. T \in SUBSET S /\ n + 1 \in Nat /\ n <= n + 1
    BY <1>2
  <2> QED
    BY <2>1, Fewer
<1>3. CASE one # {}
  <2>1. PICK x : x \in one
    BY <1>3
  <2>2. T \in SUBSET (S \cup {x})
    BY <2>1
  <2>3. IsFiniteSet(S \cup {x}) /\ Cardinality(S \cup {x}) <= n + 1
    BY <1>1, FS_AddElement
  <2> QED
    BY <2>2, <2>3, Fewer DEF AtMost
<1> QED
  BY <1>2, <1>3

(* An account in which less is lost is settled too. *)
LEMMA LessIsSettled ==
  ASSUME NEW t, NEW acts, NEW now, NEW l, LogInv(l), NEW r, NEW e \in Seq(Line), NEW open, NEW closed,
         Settled(t, acts, l, r, e, open),
         Lost(t, now, r, l, closed) \subseteq Lost(t, acts, r, l, open),
         Lost(t, now, e, l, closed) \subseteq Lost(t, acts, e, l, open)
  PROVE  Settled(t, now, l, r, e, closed)
<1> DEFINE A == Lost(t, acts, r, l, open)
           B == Lost(t, acts, e, l, open)
           C == Lost(t, now, r, l, closed)
           D == Lost(t, now, e, l, closed)
<1>1. /\ l.dropped \in Nat /\ AtMost(A, l.dropped) /\ AtMost(B, l.dropped)
      /\ C \in SUBSET A /\ D \in SUBSET B
      /\ \/ B = {} \/ l.held # <<>>
         \/ \E i \in 1..Len(e) : Evidence(e[i]) /\ e[i].dropped_before >= Cardinality(B)
  BY LogNumbers DEF Settled
<1> HIDE DEF A, B, C, D
<1>2. /\ AtMost(C, l.dropped) /\ AtMost(D, l.dropped)
      /\ Cardinality(D) <= Cardinality(B) /\ Cardinality(D) \in Nat /\ Cardinality(B) \in Nat
  <2> DEFINE n == l.dropped
  <2>1. n \in Nat /\ n <= n
    BY <1>1
  <2>2. AtMost(A, n) /\ AtMost(B, n) /\ C \in SUBSET A /\ D \in SUBSET B
    BY <1>1
  <2> HIDE DEF n
  <2>3. AtMost(C, n)
    BY <2>1, <2>2, Fewer
  <2>4. /\ AtMost(D, n) /\ Cardinality(D) <= Cardinality(B)
        /\ Cardinality(D) \in Nat /\ Cardinality(B) \in Nat
    BY <2>1, <2>2, Fewer
  <2> QED
    BY <2>3, <2>4 DEF n
<1>3. \/ D = {} \/ l.held # <<>>
      \/ \E i \in 1..Len(e) : Evidence(e[i]) /\ e[i].dropped_before >= Cardinality(D)
  <2>1. ASSUME NEW i \in 1..Len(e), Evidence(e[i]), e[i].dropped_before >= Cardinality(B)
        PROVE  e[i].dropped_before >= Cardinality(D)
    <3>1. e[i].dropped_before \in Nat
      BY <2>1, EvidenceLines DEF EvidenceLine
    <3> QED
      BY <1>2, <2>1, <3>1
  <2>2. B = {} => D = {}
    BY <1>1
  <2> QED
    BY <1>1, <2>1, <2>2
<1> QED
  BY <1>2, <1>3 DEF Settled, C, D

(* Keeping the record of the open block: what had to make room for it is lost,
   and is counted.                                                           *)
LEMMA KeepingSettles ==
  ASSUME NEW t, NEW acts, \A x, y \in acts : x.under = y.under => x = y,
         NEW l, LogInv(l), NEW r, NEW e, NEW open,
         NEW act, act.capability \in Tools, act.decision \in DecisionRefs,
         open = act.decision \/ \A x \in acts : x.under # open,
         Settled(t, acts, l, r, e, open)
  PROVE  Settled(t, acts, Keep(l, act), r, e, Nothing)
<1> DEFINE m == Made(l, act)
           k == Keep(l, act)
<1>1. l.held \in Seq(Outcome) /\ l.dropped \in Nat /\ m \in Outcome /\ m.decision = act.decision
  BY DEF LogInv, Logs, Made, Outcome
<1>2. Capacity \in Nat \ {0}
  BY CapacityAssumption
<1>3. CASE Len(l.held) = Capacity
  <2> DEFINE gone == {x \in acts : x.under = l.held[1].decision}
  <2>1. /\ k.held = Append(Tail(l.held), m) /\ k.dropped = l.dropped + 1
    BY <1>3 DEF Keep
  <2>2. l.held # <<>> /\ Tail(l.held) \in Seq(Outcome) /\ Len(Tail(l.held)) = Len(l.held) - 1
        /\ \A i \in 1..(Len(l.held) - 1) : Tail(l.held)[i] = l.held[i + 1]
    BY <1>1, <1>2, <1>3
  <2> HIDE DEF m
  <2>3. Len(k.held) = Len(l.held) /\ k.held # <<>>
        /\ \A i \in 1..Len(l.held) : k.held[i] = IF i = Len(l.held) THEN m ELSE l.held[i + 1]
    BY <1>1, <1>2, <1>3, <2>1, <2>2
  <2> HIDE DEF k
  <2>4. ASSUME NEW d, Unheld(k, d) PROVE d # act.decision /\ (Unheld(l, d) \/ d = l.held[1].decision)
    <3>1. d # act.decision
      <4>1. Len(l.held) \in 1..Len(k.held) /\ k.held[Len(l.held)] = m
        BY <1>2, <1>3, <2>3
      <4> QED
        BY <1>1, <2>4, <4>1 DEF Unheld
    <3>2. ASSUME NEW i \in 1..Len(l.held), l.held[i].decision = d PROVE i = 1
      <4>1. CASE i # 1
        <5>1. i - 1 \in 1..Len(k.held) /\ k.held[i - 1] = l.held[i]
          BY <1>2, <1>3, <2>3, <4>1
        <5> QED
          BY <2>4, <3>2, <5>1 DEF Unheld
      <4> QED
        BY <4>1
    <3> QED
      BY <3>1, <3>2 DEF Unheld
  <2>5. ASSUME NEW sink, AtMost(Lost(t, acts, sink, l, open), l.dropped)
        PROVE  AtMost(Lost(t, acts, sink, k, Nothing), k.dropped)
    <3>1. Lost(t, acts, sink, k, Nothing) \in SUBSET (Lost(t, acts, sink, l, open) \cup gone)
      BY <2>4 DEF Lost
    <3>2. \A x, y \in gone : x = y
      OBVIOUS
    <3> DEFINE S == Lost(t, acts, sink, l, open)
               T == Lost(t, acts, sink, k, Nothing)
               n == l.dropped
    <3>3. n \in Nat /\ AtMost(S, n) /\ T \in SUBSET (S \cup gone) /\ k.dropped = n + 1
      BY <1>1, <2>1, <2>5, <3>1
    <3> HIDE DEF gone, S, T, n
    <3>4. AtMost(T, n + 1)
      BY <3>2, <3>3, OneMoreAtMost
    <3> QED
      BY <3>3, <3>4 DEF T
  <2> QED
    BY <2>3, <2>5 DEF Settled, k
<1>4. CASE Len(l.held) # Capacity
  <2>1. k.held = Append(l.held, m) /\ k.dropped = l.dropped
    BY <1>4 DEF Keep
  <2> HIDE DEF m, k
  <2>2. Len(k.held) = Len(l.held) + 1 /\ k.held # <<>>
        /\ \A i \in 1..(Len(l.held) + 1) : k.held[i] = IF i = Len(l.held) + 1 THEN m ELSE l.held[i]
    BY <1>1, <2>1
  <2>3. ASSUME NEW d, Unheld(k, d) PROVE d # act.decision /\ Unheld(l, d)
    BY <1>1, <2>2, <2>3 DEF Unheld
  <2>4. ASSUME NEW sink, AtMost(Lost(t, acts, sink, l, open), l.dropped)
        PROVE  AtMost(Lost(t, acts, sink, k, Nothing), k.dropped)
    <3>1. Lost(t, acts, sink, k, Nothing) \in SUBSET Lost(t, acts, sink, l, open)
      BY <2>3 DEF Lost
    <3> DEFINE S == Lost(t, acts, sink, l, open)
               T == Lost(t, acts, sink, k, Nothing)
               n == l.dropped
    <3>2. n \in Nat /\ n <= n /\ AtMost(S, n) /\ T \in SUBSET S /\ k.dropped = n
      BY <1>1, <2>1, <2>4, <3>1
    <3> HIDE DEF S, T, n
    <3>3. AtMost(T, n)
      BY <3>2, Fewer
    <3> QED
      BY <3>2, <3>3 DEF T
  <2> QED
    BY <2>2, <2>4 DEF Settled, k
<1> QED
  BY <1>3, <1>4

(* A flush loses nothing that was not lost, and its first line says how much
   that was.                                                                 *)
LEMMA FlushingSettles ==
  ASSUME NEW t, NEW acts, NEW l, NEW r, NEW e, Account(l, r, e),
         NEW raised \in SUBSET (1..Len(l.held)), NEW open, Settled(t, acts, l, r, e, open)
  PROVE  Settled(t, acts, Flushed(l, raised), r \o HandedOver(l, raised),
                 e \o HandedOver(l, raised), open)
<1> DEFINE h == HandedOver(l, raised)
           f == Flushed(l, raised)
           k == Len(l.held)
<1>1. /\ LogInv(l) /\ LogInv(f) /\ f.dropped >= l.dropped /\ f.held = <<>>
      /\ h \in Seq(EvidenceLine) /\ Len(h) = k
      /\ \A i \in 1..k : h[i].dropped_before >= l.dropped
  BY FlushesTheLog DEF Account, Flushed
<1>2. \A i \in 1..k : h[i].decision = l.held[i].decision
  BY DEF HandedOver
<1>3. l.dropped \in Nat /\ f.dropped \in Nat /\ k \in Nat
  BY <1>1, LogNumbers
<1>4. r \in Seq(Line) /\ e \in Seq(Line) /\ h \in Seq(Line)
  BY <1>1 DEF Account, Line
<1>5. \A i \in 1..k : Evidence(h[i])
  BY <1>1, EvidenceLines
<1> HIDE DEF h, f
<1>6. ASSUME NEW sink \in Seq(Line)
      PROVE  Lost(t, acts, sink \o h, f, open) = Lost(t, acts, sink, l, open)
  <2> DEFINE s == sink \o h
             n == Len(sink)
  <2>1. /\ Len(s) = n + k /\ n \in Nat
        /\ \A i \in 1..n : s[i] = sink[i]
        /\ \A i \in 1..k : n + i \in 1..Len(s) /\ s[n + i] = h[i]
        /\ \A i \in 1..Len(s) : i \in 1..n \/ \E j \in 1..k : i = n + j
    <3>1. Len(s) = n + k /\ n \in Nat
      <4>1. Len(sink \o h) = Len(sink) + Len(h) /\ Len(sink) \in Nat
        BY <1>4
      <4> QED
        BY <1>1, <4>1
    <3>2. \A i \in 1..(n + k) : s[i] = IF i <= n THEN sink[i] ELSE h[i - n]
      <4>1. \A i \in 1..(Len(sink) + Len(h)) :
              (sink \o h)[i] = IF i <= Len(sink) THEN sink[i] ELSE h[i - Len(sink)]
        BY <1>4
      <4> QED
        BY <1>1, <4>1
    <3> HIDE DEF s, n, k
    <3>3. ASSUME NEW i \in 1..k PROVE n + i \in 1..(n + k) /\ s[n + i] = h[i]
      <4>1. n + i \in 1..(n + k) /\ ~(n + i <= n) /\ (n + i) - n = i
        BY <1>3, <3>1
      <4> QED
        BY <3>2, <4>1
    <3>4. ASSUME NEW i \in 1..(n + k), i \notin 1..n PROVE \E j \in 1..k : i = n + j
      <4>1. i - n \in 1..k /\ i = n + (i - n)
        BY <1>3, <3>1, <3>4
      <4> QED
        BY <4>1
    <3>5. \A i \in 1..n : s[i] = sink[i]
      BY <1>3, <3>1, <3>2
    <3> QED
      BY <3>1, <3>3, <3>4, <3>5
  <2> HIDE DEF s
  <2>2. ASSUME NEW d PROVE NoLine(s, d) <=> NoLine(sink, d) /\ Unheld(l, d)
    <3>1. ASSUME NoLine(s, d) PROVE NoLine(sink, d)
      <4>1. \A i \in 1..n : i \in 1..Len(s)
        BY <1>3, <2>1
      <4> QED
        BY <2>1, <3>1, <4>1 DEF NoLine
    <3>2. ASSUME NoLine(s, d), NEW i \in 1..k PROVE l.held[i].decision # d
      <4>1. n + i \in 1..Len(s) /\ s[n + i] = h[i]
        BY <2>1
      <4> QED
        BY <1>2, <1>5, <3>2, <4>1 DEF NoLine
    <3>3. ASSUME NoLine(sink, d), Unheld(l, d), NEW i \in 1..Len(s), Evidence(s[i])
          PROVE  s[i].decision # d
      <4>1. CASE i \in 1..n
        BY <2>1, <3>3, <4>1 DEF NoLine
      <4>2. CASE i \notin 1..n
        <5>1. PICK j \in 1..k : i = n + j
          BY <2>1, <4>2
        <5>2. s[i] = h[j] /\ h[j].decision = l.held[j].decision
          BY <1>2, <2>1, <5>1
        <5> QED
          BY <3>3, <5>2 DEF Unheld
      <4> QED
        BY <4>1, <4>2
    <3> QED
      BY <3>1, <3>2, <3>3 DEF NoLine, Unheld
  <2>3. \A d : Unheld(f, d)
    BY <1>1 DEF Unheld
  <2> QED
    BY <2>2, <2>3 DEF Lost, s
<1>7. ASSUME NEW S, AtMost(S, l.dropped)
      PROVE  AtMost(S, f.dropped) /\ Cardinality(S) \in Nat /\ Cardinality(S) <= l.dropped
  <2>1. S \in SUBSET S /\ l.dropped <= f.dropped
    BY <1>1, <1>3
  <2> QED
    BY <1>3, <1>7, <2>1, Fewer DEF AtMost
<1> DEFINE B == Lost(t, acts, e, l, open)
<1>8. ASSUME l.held # <<>>
      PROVE  \E i \in 1..Len(e \o h) :
               Evidence((e \o h)[i]) /\ (e \o h)[i].dropped_before >= Cardinality(B)
  <2>1. k >= 1 /\ 1 \in 1..k
    <3>1. l.held \in Seq(Outcome)
      BY <1>1 DEF LogInv, Logs
    <3> QED
      BY <1>8, <3>1
  <2>2. Len(e) + 1 \in 1..Len(e \o h) /\ (e \o h)[Len(e) + 1] = h[1]
    BY <1>1, <1>4, <2>1
  <2>3. h[1].dropped_before \in Nat /\ h[1].dropped_before >= l.dropped
    <3>1. h[1] \in EvidenceLine
      BY <1>1, <2>1
    <3> QED
      BY <1>1, <2>1, <3>1 DEF EvidenceLine
  <2>4. Cardinality(B) \in Nat /\ Cardinality(B) <= l.dropped
    BY <1>7 DEF Settled
  <2>5. h[1].dropped_before >= Cardinality(B)
    BY <1>3, <2>3, <2>4
  <2> HIDE DEF B
  <2> QED
    BY <1>5, <2>1, <2>2, <2>5
<1>9. ASSUME NEW i \in 1..Len(e) PROVE i \in 1..Len(e \o h) /\ (e \o h)[i] = e[i]
  BY <1>4
<1>10. \/ B = {}
       \/ \E i \in 1..Len(e \o h) :
            Evidence((e \o h)[i]) /\ (e \o h)[i].dropped_before >= Cardinality(B)
  <2>1. \/ B = {} \/ l.held # <<>>
        \/ \E i \in 1..Len(e) : Evidence(e[i]) /\ e[i].dropped_before >= Cardinality(B)
    BY DEF Settled
  <2> HIDE DEF B
  <2> QED
    BY <1>8, <1>9, <2>1
<1> QED
  BY <1>4, <1>6, <1>7, <1>10 DEF Settled, h, f

(* A person's answer adds no evidence and takes none away. *)
LEMMA HearingSettles ==
  ASSUME NEW t, NEW acts, NEW l, NEW r, NEW e \in Seq(Line), NEW a \in AnswerLine, NEW open,
         Settled(t, acts, l, r, e, open)
  PROVE  Settled(t, acts, l, r, Append(e, a), open)
<1> DEFINE s == Append(e, a)
<1>1. /\ Len(s) = Len(e) + 1 /\ Len(e) \in Nat
      /\ \A i \in 1..Len(e) : i \in 1..Len(s) /\ s[i] = e[i]
      /\ \A i \in 1..Len(s) : i \in 1..Len(e) \/ s[i] = a
  BY DEF Line
<1>2. ~Evidence(a)
  BY EvidenceLines
<1> HIDE DEF s
<1>3. \A d : NoLine(s, d) <=> NoLine(e, d)
  BY <1>1, <1>2 DEF NoLine
<1>4. Lost(t, acts, s, l, open) = Lost(t, acts, e, l, open)
  BY <1>3 DEF Lost
<1> QED
  BY <1>1, <1>4 DEF Settled, s

-----------------------------------------------------------------------------
(***************************************************************************)
(* The account of a take of main is settled until it crashes or an         *)
(* exception escapes it; nothing is held between its invocations; and what *)
(* it wrote to the file it wrote at its end.                               *)
(***************************************************************************)
Open(t) == IF pc[t] = "acted" THEN held[t] ELSE Nothing
Between == {"over", "waiting", "unanswered", "answered", "exited"}

OwesNothing(t) ==
  /\ pc[t] \in Between => log[t].held = <<>>
  /\ t \in Callers => pc[t] \notin {"waiting", "unanswered"}
  /\ t \notin Callers /\ result[t] = Uncaught => pc[t] \in {"over", "exited", "crashed"}
  /\ t \notin Callers /\ pc[t] # "crashed" /\ result[t] # Uncaught =>
       Settled(t, effects, log[t], records[t], events[t], Open(t))

(* A step that neither moves a take's account nor does an act of its own. *)
LEMMA OwingStays ==
  ASSUME TypeOK, StreamInv, NEW t \in Takes, OwesNothing(t),
         UNCHANGED <<log[t], records[t], events[t], result[t]>>,
         \A e \in effects' : e.take = t => e \in effects,
         Open(t)' = Open(t) \/ pc'[t] = "crashed",
         pc'[t] \in Between => pc[t] \in Between,
         pc'[t] # "crashed" => pc[t] # "crashed",
         result[t] = Uncaught => pc'[t] \in {"over", "exited", "crashed"} \/ t \in Callers,
         pc'[t] \in {"waiting", "unanswered"} =>
           pc[t] \in {"waiting", "unanswered"} \/ t \notin Callers
  PROVE  OwesNothing(t)'
<1>1. ASSUME t \notin Callers, pc'[t] # "crashed", result'[t] # Uncaught
      PROVE  Settled(t, effects', log'[t], records'[t], events'[t], Open(t)')
  <2>1. Settled(t, effects, log[t], records[t], events[t], Open(t))
    BY <1>1 DEF OwesNothing
  <2>2. LogInv(log[t]) /\ events[t] \in Seq(Line)
    BY DEF StreamInv, Account
  <2>3. Open(t)' = Open(t)
    BY <1>1
  <2>4. \A sink : Lost(t, effects', sink, log[t], Open(t)) \subseteq Lost(t, effects, sink, log[t], Open(t))
    BY DEF Lost
  <2>5. Settled(t, effects', log[t], records[t], events[t], Open(t))
    BY <2>1, <2>2, <2>4, LessIsSettled
  <2> QED
    BY <2>3, <2>5
<1> QED
  BY <1>1 DEF OwesNothing

LEMMA OthersOwing ==
  ASSUME TypeOK, StreamInv, NEW t \in Takes, OwesNothing(t), NEW u \in Takes \ {t},
         RecordOutcome(u) \/ EndInvocation(u) \/ HearAnswer(u) \/ Leave(u) \/ Silent(u)
  PROVE  OwesNothing(t)' /\ UNCHANGED <<pc[t], result[t], log[t], events[t]>>
         /\ \A e \in effects' : e.take = t => e \in effects
<1>1. UNCHANGED <<pc[t], held[t], result[t]>>
  BY DEF RecordOutcome, EndInvocation, HearAnswer, Leave, Silent, Ask, NothingToBind,
         AskUnreachable, AskRefused, AskAllowed, AskDenied, AskOpensWait, AskFindsPending,
         AskFindsApproved, AskFindsRejected, CouldNotAsk, Over, Enter, Propose, Correct, Finish,
         NothingPending, ReasonRaises, Execute, BodyRaises, Return, Exit, StartWaiting, Answered,
         ReadsNothing, GiveUp, PollAgain, Resume, CallerResumes, Crash, Idle, TypeOK
<1>2. UNCHANGED <<log[t], records[t], events[t]>>
  BY DEF RecordOutcome, EndInvocation, HearAnswer, Leave, Silent, Flush, FanOut, stream, StreamInv
<1>3. effects' = effects \/ effects' = effects \cup Effects(u)
  BY DEF RecordOutcome, EndInvocation, HearAnswer, Leave, Silent, Ask, NothingToBind,
         AskUnreachable, AskRefused, AskAllowed, AskDenied, AskOpensWait, AskFindsPending,
         AskFindsApproved, AskFindsRejected, Propose, Correct, Finish, NothingPending,
         ReasonRaises, Execute, BodyRaises, Return, Exit, StartWaiting, Answered, ReadsNothing,
         GiveUp, PollAgain, Resume,
         CallerResumes, Crash, Idle
<1>4. \A e \in effects' : e.take = t => e \in effects
  BY <1>3 DEF Effects
<1>5. Open(t)' = Open(t)
  BY <1>1 DEF Open
<1>6. result[t] = Uncaught => pc'[t] \in {"over", "exited", "crashed"} \/ t \in Callers
  BY <1>1 DEF OwesNothing
<1> QED
  BY <1>1, <1>2, <1>4, <1>5, <1>6, OwingStays

LEMMA RecordOwing ==
  ASSUME GovernanceInv, Handles, StreamInv, NEW t \in Takes, OwesNothing(t), RecordOutcome(t)
  PROVE  OwesNothing(t)'
<1> DEFINE act == [capability |-> at[t], decision |-> held[t]]
<1>1. /\ pc[t] \in {"acted", "declined"} /\ pc'[t] = "running" /\ result' = result /\ effects' = effects
      /\ UNCHANGED <<records, events>> /\ log'[t] = Keep(log[t], act)
  BY DEF RecordOutcome, Return, GovernanceInv, TypeOK, StreamInv
<1>2. act.capability \in Tools /\ act.decision \in DecisionRefs
  BY <1>1 DEF Handles, Handle
<1>3. LogInv(log[t])
  BY DEF StreamInv, Account
<1>4. \A x \in effects : x.under # Nothing
  BY TakesAssumption DEF GovernanceInv, TypeOK, Effect
<1>5. Open(t) = act.decision \/ \A x \in effects : x.under # Open(t)
  BY <1>1, <1>4 DEF Open
<1>6. Open(t)' = Nothing
  BY <1>1 DEF Open
<1> HIDE DEF act
<1>7. ASSUME t \notin Callers, result[t] # Uncaught
      PROVE  Settled(t, effects, Keep(log[t], act), records[t], events[t], Nothing)
  <2>1. Settled(t, effects, log[t], records[t], events[t], Open(t))
    BY <1>1, <1>7 DEF OwesNothing
  <2>2. \A x, y \in effects : x.under = y.under => x = y
    BY DEF GovernanceInv, Ledger
  <2> QED
    BY <1>2, <1>3, <1>5, <2>1, <2>2, KeepingSettles
<1>8. t \notin Callers => result[t] # Uncaught
  BY <1>1 DEF OwesNothing
<1> QED
  BY <1>1, <1>6, <1>7, <1>8 DEF OwesNothing, Between

LEMMA FlushOwing ==
  ASSUME StreamInv, NEW t \in Takes, OwesNothing(t), Flush(t),
         pc[t] \notin {"acted", "crashed"}, pc'[t] \in {"over", "exited"},
         t \notin Callers /\ result'[t] # Uncaught => effects' = effects /\ result[t] # Uncaught
  PROVE  OwesNothing(t)'
<1>1. PICK raised \in SUBSET (1..Len(log[t].held)) : FanOut(t, raised)
  BY DEF Flush
<1> DEFINE h == HandedOver(log[t], raised)
<1>2. /\ log'[t] = Flushed(log[t], raised) /\ records'[t] = records[t] \o h
      /\ events'[t] = events[t] \o h
  BY <1>1 DEF FanOut, StreamInv
<1>3. log'[t].held = <<>>
  BY <1>2 DEF Flushed
<1>4. Open(t) = Nothing /\ Open(t)' = Nothing
  BY DEF Open
<1>5. ASSUME t \notin Callers, result'[t] # Uncaught
      PROVE  Settled(t, effects', log'[t], records'[t], events'[t], Open(t)')
  <2>1. Settled(t, effects, log[t], records[t], events[t], Nothing)
    BY <1>4, <1>5 DEF OwesNothing
  <2>2. Account(log[t], records[t], events[t])
    BY DEF StreamInv
  <2>3. Settled(t, effects, Flushed(log[t], raised), records[t] \o h, events[t] \o h, Nothing)
    BY <2>1, <2>2, FlushingSettles
  <2> QED
    BY <1>2, <1>4, <1>5, <2>3
<1> QED
  BY <1>3, <1>5 DEF OwesNothing

LEMMA EndOwing ==
  ASSUME TypeOK, StreamInv, NEW t \in Takes, OwesNothing(t), EndInvocation(t)
  PROVE  OwesNothing(t)'
<1>1. Flush(t) /\ pc'[t] = "over"
  BY DEF EndInvocation
<1>2. CASE BodyRaises(t)
  <2>1. pc[t] = "body" /\ result'[t] = Uncaught
    BY <1>2 DEF BodyRaises, Over, TypeOK
  <2> QED
    BY <1>1, <2>1, FlushOwing
<1>3. CASE Finish(t) \/ ReasonRaises(t) \/ Ask(t)
  <2>1. pc[t] = "running" /\ effects' = effects
    BY <1>3 DEF Finish, ReasonRaises, Ask, NothingToBind, AskUnreachable,
       AskRefused, AskAllowed, AskDenied, AskOpensWait, AskFindsPending, AskFindsApproved,
       AskFindsRejected, Asking
  <2>2. t \notin Callers => result[t] # Uncaught
    BY <2>1 DEF OwesNothing
  <2> QED
    BY <1>1, <2>1, <2>2, FlushOwing
<1> QED
  BY <1>2, <1>3 DEF EndInvocation

LEMMA HearOwing ==
  ASSUME TypeOK, StreamInv, Handles, NEW t \in Takes, OwesNothing(t), HearAnswer(t)
  PROVE  OwesNothing(t)'
<1> DEFINE a == [answer |-> waits[waitRef[t]].state]
<1>1. /\ pc[t] = "waiting" /\ pc'[t] = "answered" /\ waits[waitRef[t]].state # "pending"
      /\ UNCHANGED <<result, effects, log, records>> /\ events'[t] = Append(events[t], a)
  BY DEF HearAnswer, Answered, Idle, TypeOK, StreamInv
<1>2. waitRef[t] \in ApprovalRefs /\ waits[waitRef[t]].state # "unused"
  BY <1>1 DEF Handles, Handle
<1>3. a \in AnswerLine
  <2>1. waits[waitRef[t]] \in Wait
    BY <1>2 DEF TypeOK, NoWait
  <2> QED
    BY <1>1, <2>1 DEF AnswerLine, Wait
<1> HIDE DEF a
<1>4. Open(t) = Nothing /\ Open(t)' = Nothing
  BY <1>1 DEF Open
<1>5. ASSUME t \notin Callers, result[t] # Uncaught
      PROVE  Settled(t, effects, log[t], records[t], Append(events[t], a), Nothing)
  <2>1. Settled(t, effects, log[t], records[t], events[t], Nothing) /\ events[t] \in Seq(Line)
    BY <1>1, <1>4, <1>5 DEF OwesNothing, StreamInv
  <2> QED
    BY <1>3, <2>1, HearingSettles
<1> QED
  BY <1>1, <1>4, <1>5 DEF OwesNothing, Between

LEMMA LeaveOwing ==
  ASSUME TypeOK, StreamInv, NEW t \in Takes, OwesNothing(t), Leave(t)
  PROVE  OwesNothing(t)' /\ t \notin Callers /\ pc'[t] = "exited" /\ result' = result
         /\ effects' = effects
<1>1. /\ pc[t] \in {"over", "unanswered"} /\ pc'[t] = "exited" /\ t \notin Callers
      /\ UNCHANGED <<result, effects>>
  BY DEF Leave, Exit, GiveUp, Idle, TypeOK, OwesNothing
<1>2. CASE Flush(t)
  <2>1. OwesNothing(t)'
    BY <1>1, <1>2, FlushOwing
  <2> QED
    BY <1>1, <2>1
<1>3. CASE UNCHANGED stream
  <2>1. Open(t)' = Open(t)
    BY <1>1 DEF Open
  <2>2. OwesNothing(t)'
    BY <1>1, <1>3, <2>1, OwingStays DEF stream, Between
  <2> QED
    BY <1>1, <2>2
<1> QED
  BY <1>2, <1>3 DEF Leave

LEMMA SilentOwing ==
  ASSUME GovernanceInv, Handles, StreamInv, NEW t \in Takes, OwesNothing(t), Silent(t)
  PROVE  OwesNothing(t)'
<1>0. TypeOK /\ UNCHANGED stream
  BY DEF GovernanceInv, Silent
<1>1. CASE Execute(t)
  <2>1. /\ pc[t] = "body" /\ pc'[t] \in {"acted", "declined"} /\ UNCHANGED <<result, held>>
        /\ effects' = effects \cup Effects(t) /\ (pc'[t] = "declined" => Effects(t) = {})
    BY <1>0, <1>1 DEF Execute, Effects, TypeOK
  <2>2. \A e \in Effects(t) : e.under = held[t]
    BY DEF Effects
  <2>3. \A e \in effects : e.under # Nothing
    BY <1>0, TakesAssumption DEF TypeOK, Effect
  <2>4. Open(t) = Nothing /\ Open(t)' = IF pc'[t] = "acted" THEN held[t] ELSE Nothing
    BY <2>1 DEF Open
  <2>5. ASSUME NEW sink
        PROVE  Lost(t, effects', sink, log[t], Open(t)')
                 \subseteq Lost(t, effects, sink, log[t], Open(t))
    BY <2>1, <2>2, <2>3, <2>4 DEF Lost
  <2>6. ASSUME t \notin Callers, result[t] # Uncaught
        PROVE  Settled(t, effects', log[t], records[t], events[t], Open(t)')
    <3>1. Settled(t, effects, log[t], records[t], events[t], Open(t))
      BY <2>1, <2>6 DEF OwesNothing
    <3>2. LogInv(log[t]) /\ events[t] \in Seq(Line)
      BY DEF StreamInv, Account
    <3> QED
      BY <2>5, <3>1, <3>2, LessIsSettled
  <2>7. t \notin Callers => result[t] # Uncaught
    BY <2>1 DEF OwesNothing
  <2> QED
    BY <1>0, <2>1, <2>6, <2>7 DEF OwesNothing, Between, stream
<1>2. CASE \/ Propose(t) \/ Correct(t) \/ StartWaiting(t) \/ ReadsNothing(t) \/ PollAgain(t)
           \/ Resume(t) \/ CallerResumes(t)
           \/ Ask(t) /\ pc'[t] = "body"
  <2>1. /\ effects' = effects /\ result'[t] = result[t]
        /\ \/ pc[t] = "running" /\ pc'[t] \in {"running", "body"}
           \/ pc[t] = "over" /\ pc'[t] = "waiting" /\ t \notin Callers /\ result[t] # Uncaught
           \/ {pc[t], pc'[t]} = {"waiting", "unanswered"}
           \/ pc[t] = "answered" /\ pc'[t] = "running"
           \/ pc[t] = "over" /\ pc'[t] = "running" /\ t \in Callers
    <3>1. CASE Ask(t) /\ pc'[t] = "body"
      BY <1>0, <3>1 DEF Ask, NothingToBind, AskUnreachable, AskRefused, AskAllowed, AskDenied,
         AskOpensWait, AskFindsPending, AskFindsApproved, AskFindsRejected, CouldNotAsk, Over,
         Enter, Asking, TypeOK
    <3> QED
      BY <1>0, <1>2, <3>1 DEF Propose, Correct, StartWaiting, ReadsNothing, PollAgain, Resume,
                            CallerResumes, Idle, TypeOK, Uncaught
  <2>2. Open(t)' = Open(t)
    BY <2>1 DEF Open
  <2>3. result[t] = Uncaught => t \in Callers
    BY <2>1 DEF OwesNothing
  <2> QED
    BY <1>0, <2>1, <2>2, <2>3, OwingStays DEF stream, Between
<1>3. CASE Crash(t)
  <2>1. pc'[t] = "crashed"
    BY <1>0, <1>3 DEF Crash, TypeOK
  <2> QED
    BY <2>1 DEF OwesNothing, Between
<1> QED
  BY <1>1, <1>2, <1>3 DEF Silent

(* The file was written by a take that has come to its end, and accounts for it. *)
FileInv == file # Nothing => pc[file.take] = "exited" /\ FileAccountsForEveryAct

(* How many of some acts have no line in a sink. *)
Unwritten(t, acts, sink) ==
  Cardinality({x \in acts :
                 x.take = t /\ \A i \in 1..Len(sink) :
                   Evidence(sink[i]) => sink[i].decision # x.under})

(* With nothing held and no block open, what is lost is what has no line. *)
LEMMA SettledAtRest ==
  ASSUME NEW t, NEW acts, acts \subseteq Effect, NEW l, l.held = <<>>, NEW r, NEW e,
         Settled(t, acts, l, r, e, Nothing)
  PROVE  /\ Unwritten(t, acts, r) <= l.dropped
         /\ Unwritten(t, acts, e) <= l.dropped
         /\ \/ Unwritten(t, acts, e) = 0
            \/ \E i \in 1..Len(e) :
                 Evidence(e[i]) /\ e[i].dropped_before >= Unwritten(t, acts, e)
<1>1. \A x \in acts : x.under # Nothing
  BY TakesAssumption DEF Effect
<1>2. \A d : Unheld(l, d)
  BY DEF Unheld
<1>3. \A sink : Cardinality(Lost(t, acts, sink, l, Nothing)) = Unwritten(t, acts, sink)
  <2> SUFFICES ASSUME NEW sink
               PROVE  Lost(t, acts, sink, l, Nothing)
                        = {x \in acts : x.take = t /\ \A i \in 1..Len(sink) :
                                         Evidence(sink[i]) => sink[i].decision # x.under}
    BY DEF Unwritten
  <2> QED
    BY <1>1, <1>2 DEF Lost, NoLine
<1> QED
  BY <1>3, FS_EmptySet DEF Settled, AtMost

LEMMA OwingNothing ==
  ASSUME TypeOK, NEW t \in Takes \ Callers, OwesNothing(t), pc[t] \in Between,
         result[t] \in Verdicts
  PROVE  /\ Unaccounted(t, records[t]) <= log[t].dropped
         /\ Unaccounted(t, events[t]) <= log[t].dropped
<1>1. log[t].held = <<>> /\ Open(t) = Nothing /\ pc[t] # "crashed" /\ result[t] # Uncaught
  BY DEF OwesNothing, Open, Between, Verdicts, Uncaught
<1>2. Settled(t, effects, log[t], records[t], events[t], Nothing)
  BY <1>1 DEF OwesNothing
<1>3. effects \subseteq Effect
  BY DEF TypeOK
<1>4. Unwritten(t, effects, records[t]) <= log[t].dropped
      /\ Unwritten(t, effects, events[t]) <= log[t].dropped
  BY <1>1, <1>2, <1>3, SettledAtRest
<1> QED
  BY <1>4 DEF Unaccounted, Unwritten

OwingInv == (\A t \in Takes : OwesNothing(t)) /\ FileInv

(* An act that took effect is never taken back.                                *)
LEMMA EffectsRemain == ASSUME [Next]_vars PROVE effects \subseteq effects'
<1>1. ASSUME NEW t \in Takes, Ask(t) PROVE effects' = effects
  BY <1>1 DEF Ask, NothingToBind, AskUnreachable, AskRefused, AskAllowed, AskDenied,
              AskOpensWait, AskFindsPending, AskFindsApproved, AskFindsRejected
<1>2. ASSUME NEW t \in Takes,
             Propose(t) \/ Correct(t) \/ Finish(t) \/ ReasonRaises(t)
      PROVE  effects' = effects
  BY <1>2 DEF Propose, Correct, Finish, NothingPending, ReasonRaises
<1>3. ASSUME NEW t \in Takes, Execute(t) \/ BodyRaises(t)
      PROVE  effects \subseteq effects'
  BY <1>3 DEF Execute, BodyRaises
<1>4. ASSUME NEW t \in Takes,
             Return(t) \/ Exit(t) \/ StartWaiting(t) \/ Answered(t) \/ ReadsNothing(t) \/ GiveUp(t)
             \/ PollAgain(t)
               \/ Resume(t) \/ CallerResumes(t) \/ Crash(t)
      PROVE  effects' = effects
  BY <1>4 DEF Return, Exit, StartWaiting, Answered, ReadsNothing, GiveUp, PollAgain, Resume,
              CallerResumes, Crash, Idle
<1>5. ASSUME Environment PROVE effects' = effects
  BY <1>5 DEF Environment, Approve, Reject, Lapse, PlaneGoesOrReturns, CorpusChanges,
              Around
<1> QED
  BY <1>1, <1>2, <1>3, <1>4, <1>5 DEF Next, Step, vars

LEMMA OwingStep ==
  ASSUME GovernanceInv, GovernanceInv', Handles, StreamInv, StreamInv', OwingInv,
         [StreamNext]_allVars
  PROVE  OwingInv'
<1>0. TypeOK /\ TypeOK'
  BY DEF GovernanceInv
<1>1. ASSUME NEW t \in Takes, (Environment /\ UNCHANGED stream) \/ UNCHANGED allVars
      PROVE  OwesNothing(t)' /\ UNCHANGED <<pc, effects>>
  <2>1. UNCHANGED <<pc, held, result, effects, stream>>
    BY <1>1 DEF allVars, vars, take, Environment, Approve, Reject, Lapse, PlaneGoesOrReturns,
                CorpusChanges, Around
  <2>2. Open(t)' = Open(t)
    BY <2>1 DEF Open
  <2>3. result[t] = Uncaught => pc'[t] \in {"over", "exited", "crashed"} \/ t \in Callers
    BY <2>1 DEF OwingInv, OwesNothing
  <2> QED
    BY <1>0, <2>1, <2>2, <2>3, OwingStays DEF stream, OwingInv
<1>2. ASSUME NEW u \in Takes,
             RecordOutcome(u) \/ EndInvocation(u) \/ HearAnswer(u) \/ Leave(u) \/ Silent(u),
             NEW t \in Takes
      PROVE  OwesNothing(t)'
  <2>1. OwesNothing(t)
    BY DEF OwingInv
  <2>2. CASE u # t
    BY <1>0, <1>2, <2>1, <2>2, OthersOwing
  <2>3. CASE u = t
    BY <1>0, <1>2, <2>1, <2>3, RecordOwing, EndOwing, HearOwing, LeaveOwing, SilentOwing
  <2> QED
    BY <2>2, <2>3
<1>3. \A t \in Takes : OwesNothing(t)'
  BY <1>1, <1>2 DEF StreamNext
<1>4. FileInv'
  <2> SUFFICES ASSUME file' # Nothing PROVE pc'[file'.take] = "exited" /\ FileAccountsForEveryAct'
    BY DEF FileInv
  <2>1. CASE file' = file
    <3> DEFINE t == file.take
    <3>1. t \in Takes /\ pc[t] = "exited" /\ FileAccountsForEveryAct
      BY <2>1 DEF OwingInv, FileInv, StreamInv
    <3>2. pc'[t] = "exited" /\ \A e \in effects' : e.take = t => e \in effects
      <4>1. ASSUME NEW u \in Takes \ {t},
                   RecordOutcome(u) \/ EndInvocation(u) \/ HearAnswer(u) \/ Leave(u) \/ Silent(u)
            PROVE  pc'[t] = pc[t] /\ \A e \in effects' : e.take = t => e \in effects
        BY <1>0, <3>1, <4>1, OthersOwing DEF OwingInv
      <4>2. ~(RecordOutcome(t) \/ EndInvocation(t) \/ HearAnswer(t) \/ Leave(t) \/ Silent(t))
        BY <3>1 DEF RecordOutcome, EndInvocation, HearAnswer, Leave, Silent, Ask, NothingToBind,
           AskUnreachable, AskRefused, AskAllowed, AskDenied, AskOpensWait, AskFindsPending,
           AskFindsApproved, AskFindsRejected, Asking, Propose, Correct, Finish, NothingPending,
           ReasonRaises, Execute, BodyRaises, Return, Exit, StartWaiting, Answered, ReadsNothing,
           GiveUp, PollAgain,
           Resume, CallerResumes, Crash
      <4> QED
        BY <1>1, <3>1, <4>1, <4>2 DEF StreamNext
    <3>3. effects \subseteq effects'
      BY AddsNoStep, EffectsRemain
    <3>4. Unaccounted(t, file.lines)' = Unaccounted(t, file.lines)
      BY <2>1, <3>2, <3>3 DEF Unaccounted
    <3> QED
      BY <2>1, <3>1, <3>2, <3>4 DEF FileAccountsForEveryAct
  <2>2. CASE file' # file
    <3>1. PICK t \in Takes : Leave(t) /\ result[t] \in Verdicts /\ file' = [take |-> t, lines |-> events'[t]]
      BY <2>2 DEF StreamNext, allVars, stream, RecordOutcome, EndInvocation, HearAnswer, Leave,
                  Silent
    <3>2. t \notin Callers /\ pc'[t] = "exited" /\ result'[t] \in Verdicts /\ OwesNothing(t)'
      BY <1>0, <1>3, <3>1, LeaveOwing DEF OwingInv
    <3>3. log'[t].held = <<>> /\ Open(t)' = Nothing /\ effects' \subseteq Effect
      BY <1>0, <3>2 DEF OwesNothing, Between, Open, TypeOK
    <3>4. Settled(t, effects', log'[t], records'[t], events'[t], Nothing)
      BY <3>2, <3>3 DEF OwesNothing, Verdicts, Uncaught
    <3> DEFINE e == events'[t]
    <3>5. \/ Unwritten(t, effects', e) = 0
          \/ \E i \in 1..Len(e) :
               Evidence(e[i]) /\ e[i].dropped_before >= Unwritten(t, effects', e)
      BY <3>3, <3>4, SettledAtRest
    <3>6. file'.take = t /\ file'.lines = e
      BY <3>1
    <3> QED
      BY <3>1, <3>2, <3>5, <3>6 DEF FileAccountsForEveryAct, Unaccounted, Unwritten
  <2> QED
    BY <2>1, <2>2
<1> QED
  BY <1>3, <1>4 DEF OwingInv

LEMMA OwingStarts == StreamInit => OwingInv
<1> SUFFICES ASSUME StreamInit PROVE OwingInv
  OBVIOUS
<1>1. ASSUME NEW t \in Takes PROVE OwesNothing(t)
  <2>1. /\ pc[t] = "running" /\ result[t] = NoResult /\ effects = {} /\ log[t].dropped = 0
    BY DEF StreamInit, Init, EmptyLog
  <2>2. \A sink, l, open : Lost(t, effects, sink, l, open) = {}
    BY <2>1 DEF Lost
  <2>3. IsFiniteSet({}) /\ Cardinality({}) <= 0
    BY FS_EmptySet
  <2>4. Settled(t, effects, log[t], records[t], events[t], Open(t))
    BY <2>1, <2>2, <2>3 DEF Settled, AtMost
  <2> QED
    BY <2>1, <2>4 DEF OwesNothing, Between, NoResult, Uncaught
<1>2. FileInv
  BY DEF StreamInit, FileInv
<1> QED
  BY <1>1, <1>2 DEF OwingInv

LEMMA NothingIsOwing == StreamSpec => [](TypeOK /\ OwingInv)
<1>1. GovernanceInv => TypeOK
  BY DEF GovernanceInv
<1>2. /\ GovernanceInv /\ Handles /\ StreamInv /\ OwingInv /\ [StreamNext]_allVars
      /\ GovernanceInv' /\ StreamInv'
      => OwingInv'
  BY OwingStep
<1> QED
  BY <1>1, <1>2, OwingStarts, AccountsAreKept, PTL DEF StreamSpec

(* When an invocation of main has come back with a verdict, every act of the
   take so far has its line in the process's copy and in the stream, or is one
   of those the log counts as lost: for any number of acts, any size of log
   and any failures of the printer (governed_node, flush, _fan_out).         *)
THEOREM NothingIsOwed == StreamSpec => []NothingOwed
<1>1. TypeOK /\ OwingInv => NothingOwed
  BY OwingNothing DEF OwingInv, NothingOwed, Between
<1> QED
  BY <1>1, NothingIsOwing, PTL

(* The file main leaves behind has a line for every act of the take that wrote
   it, or a line of it says that at least as many are missing (close, dump). *)
THEOREM TheFileAccounts == StreamSpec => []FileAccountsForEveryAct
<1>1. OwingInv => FileAccountsForEveryAct
  BY DEF OwingInv, FileInv, FileAccountsForEveryAct
<1> QED
  BY <1>1, NothingIsOwing, PTL
=============================================================================
