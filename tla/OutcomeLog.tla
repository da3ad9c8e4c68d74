----------------------------- MODULE OutcomeLog -----------------------------
(***************************************************************************)
(* The bounded log in which the boundary keeps outcome records until they  *)
(* are flushed, and the fan-out of a record to the sinks. The log itself   *)
(* is the boundary library's, modelled from what boundary_setup.py and the *)
(* tests rely on; the sinks and their order are this repository's.         *)
(*                                                                         *)
(* A log is a record: what is held, how many records were made, and how    *)
(* many were lost. A sink is a sequence of records, each with how many     *)
(* were lost before it.                                                    *)
(***************************************************************************)
EXTENDS Naturals, Sequences, FiniteSets

CONSTANT Capacity  \* RECORD_CAPACITY

ASSUME CapacityAssumption == Capacity \in Nat \ {0}

EmptyLog == [held |-> <<>>, made |-> 0, dropped |-> 0]

Made(log, act) ==
  [capability |-> act.capability, decision |-> act.decision, sequence |-> log.made + 1]

(* Slip: the oldest goes, and nothing says so. *)
KeepQuietly(log, act) ==
  [held |-> IF Len(log.held) = Capacity THEN Append(Tail(log.held), Made(log, act))
            ELSE Append(log.held, Made(log, act)),
   made |-> log.made + 1,
   dropped |-> log.dropped]
(* One record is kept; the oldest makes room for it when the log is full. *)
Keep(log, act) ==
  [held |-> IF Len(log.held) = Capacity THEN Append(Tail(log.held), Made(log, act))
            ELSE Append(log.held, Made(log, act)),
   made |-> log.made + 1,
   dropped |-> IF Len(log.held) = Capacity THEN log.dropped + 1 ELSE log.dropped]

(* What reaches the sinks in a flush: each record with what was lost before it,
   the records a sink raised on (their positions) included.                  *)
HandedOver(log, raised) ==
  [i \in 1..Len(log.held) |->
     [capability |-> log.held[i].capability, decision |-> log.held[i].decision,
      sequence |-> log.held[i].sequence,
      dropped_before |-> log.dropped + Cardinality({j \in raised : j < i})]]

(* After a flush nothing is held, and a record a sink raised on is a drop. *)
Flushed(log, raised) ==
  [held |-> <<>>, made |-> log.made, dropped |-> log.dropped + Cardinality(raised)]
=============================================================================
