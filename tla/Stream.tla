------------------------------- MODULE Stream -------------------------------
(***************************************************************************)
(* What a take can show for what it did: the outcome records its boundary  *)
(* makes, the sinks they are flushed to at the end of every invocation,    *)
(* the event stream, and the file main writes it to when it ends.          *)
(*                                                                         *)
(* Every step is a step of Governance, with what it does to the account of *)
(* the take added to it. The lines of the stream that are neither evidence *)
(* nor a person's answer are left out.                                     *)
(***************************************************************************)
EXTENDS Governance, OutcomeLog

VARIABLES
  log,      \* the boundary's outcome log, one per process
  records,  \* RECORDS, the first sink
  events,   \* the event stream, the second
  file      \* runtime/events/demo-events.json, with the take that wrote it

stream == <<log, records, events, file>>
allVars == <<vars, stream>>

-----------------------------------------------------------------------------
(* What the log keeps, and the lines of a sink: evidence, with what was lost
   before it, or a person's answer.                                          *)
Outcome == [capability : Tools, decision : DecisionRefs, sequence : Nat]
EvidenceLine ==
  [capability : Tools, decision : DecisionRefs, sequence : Nat, dropped_before : Nat]
AnswerLine == [answer : {"approved", "rejected", "spent", "lapsed"}]
Evidence(e) == "capability" \in DOMAIN e

StreamInit ==
  /\ Init
  /\ log = [t \in Takes |-> EmptyLog]
  /\ records = [t \in Takes |-> <<>>]
  /\ events = [t \in Takes |-> <<>>]
  /\ file = Nothing

-----------------------------------------------------------------------------
(* Slip: a line is printed before it is kept, and a printer that raises is
   passed over as if there had been nothing to record.                       *)
FanOutPassesOver(t, raised) ==
  LET handed == HandedOver(log[t], {}) IN
  /\ records' = [records EXCEPT ![t] = @ \o handed]
  /\ events' = [events EXCEPT ![t] =
                  @ \o SelectSeq(handed, LAMBDA r : \A i \in raised : handed[i] # r)]
  /\ log' = [log EXCEPT ![t] = Flushed(@, {})]
(* Each record goes to RECORDS, then to the stream, which keeps the line and
   prints it; "raised" are the records whose line could not be printed.      *)
FanOut(t, raised) ==
  LET handed == HandedOver(log[t], raised) IN
  /\ records' = [records EXCEPT ![t] = @ \o handed]
  /\ events' = [events EXCEPT ![t] = @ \o handed]
  /\ log' = [log EXCEPT ![t] = Flushed(@, raised)]

Flush(t) == \E raised \in SUBSET (1..Len(log[t].held)) : FanOut(t, raised)

(* The node's result is recorded on the grant, a refused call's included. *)
RecordOutcome(t) ==
  /\ Return(t)
  /\ log' = [log EXCEPT ![t] = Keep(@, [capability |-> at[t], decision |-> held[t]])]
  /\ UNCHANGED <<records, events, file>>

(* Slip: only an invocation that came back normally is flushed. *)
EndFlushesTheCompleted(t) ==
  /\ Finish(t) \/ ReasonRaises(t) \/ Ask(t) \/ BodyRaises(t)
  /\ pc'[t] = "over"
  /\ IF result'[t] = "completed" THEN Flush(t) ELSE UNCHANGED <<log, records, events>>
  /\ UNCHANGED file
(* An invocation ends, whichever way, and is flushed. *)
EndInvocation(t) ==
  /\ Finish(t) \/ ReasonRaises(t) \/ Ask(t) \/ BodyRaises(t)
  /\ pc'[t] = "over"
  /\ Flush(t)
  /\ UNCHANGED file

(* A person's answer becomes a line of the stream, as it was read. *)
HearAnswer(t) ==
  /\ Answered(t)
  /\ events' = [events EXCEPT ![t] = Append(@, [answer |-> waits[waitRef[t]].state])]
  /\ UNCHANGED <<log, records, file>>

(* main comes to its end: the boundary is closed, which flushes it, and the
   stream is written. An exception nobody caught passes that by.             *)
Leave(t) ==
  /\ Exit(t) \/ GiveUp(t)
  /\ IF result[t] \in Verdicts
     THEN Flush(t) /\ file' = [take |-> t, lines |-> events'[t]]
     ELSE UNCHANGED stream

(* What records nothing: a process that dies loses what it had not flushed. *)
Silent(t) ==
  /\ \/ Propose(t) \/ Correct(t) \/ Execute(t) \/ StartWaiting(t)
     \/ ReadsNothing(t) \/ PollAgain(t) \/ Resume(t) \/ CallerResumes(t)
     \/ Ask(t) /\ pc'[t] = "body"
     \/ Crash(t)
  /\ UNCHANGED stream

StreamNext ==
  \/ \E t \in Takes :
       RecordOutcome(t) \/ EndInvocation(t) \/ HearAnswer(t) \/ Leave(t) \/ Silent(t)
  \/ Environment /\ UNCHANGED stream

StreamSpec == StreamInit /\ [][StreamNext]_allVars

-----------------------------------------------------------------------------
(* How many of a take's acts a sink has no line for. *)
Unaccounted(t, sink) ==
  Cardinality({e \in effects :
                 e.take = t /\ \A i \in 1..Len(sink) :
                   Evidence(sink[i]) => sink[i].decision # e.under})

StreamTypeOK ==
  /\ log \in [Takes -> [held : Seq(Outcome), made : Nat, dropped : Nat]]
  /\ records \in [Takes -> Seq(EvidenceLine)]
  /\ events \in [Takes -> Seq(EvidenceLine \cup AnswerLine)]
  /\ file \in [take : Takes, lines : Seq(EvidenceLine \cup AnswerLine)] \cup {Nothing}
  /\ \A t \in Takes : Len(log[t].held) <= Capacity /\ log[t].dropped <= log[t].made

(* An invocation of main that came back with a verdict owes nothing: whatever
   the take has done so far is in the process's own copy and in the stream, or
   is counted as lost; what is shown of a take does not wait for it to
   complete. A program that resumes a run after a body raised is not spoken
   of: an act that raised has no outcome, and nothing counts it.             *)
NothingOwed ==
  \A t \in Takes \ Callers :
    pc[t] \in {"over", "waiting", "unanswered", "answered", "exited"} /\ result[t] \in Verdicts =>
      /\ Unaccounted(t, records[t]) <= log[t].dropped
      /\ Unaccounted(t, events[t]) <= log[t].dropped

(* How many of the first n lines of a sink are evidence. *)
EvidenceAmong(sink, n) == Cardinality({j \in 1..n : Evidence(sink[j])})

(* "Every record carries how many were lost before it": in each sink, the
   records are in the order they were made and no record hides a gap.        *)
GapsAreDeclared ==
  \A t \in Takes : \A sink \in {records[t], events[t]} : \A i \in 1..Len(sink) :
    Evidence(sink[i]) =>
      /\ \A j \in 1..(i - 1) : Evidence(sink[j]) => sink[j].sequence < sink[i].sequence
      /\ sink[i].sequence - EvidenceAmong(sink, i) <= sink[i].dropped_before

(* The file of a take that ended with a verdict is a complete account of it:
   every act it performed has its line, or some line says how many are lost. *)
FileAccountsForEveryAct ==
  file # Nothing =>
    \/ Unaccounted(file.take, file.lines) = 0
    \/ \E i \in 1..Len(file.lines) :
         /\ Evidence(file.lines[i])
         /\ file.lines[i].dropped_before >= Unaccounted(file.take, file.lines)
=============================================================================
