------------------------- MODULE RunDirectoryProofs -------------------------
(***************************************************************************)
(* What a reset may remove and what it leaves, proved for any number of    *)
(* invocations of the two scripts.                                         *)
(***************************************************************************)
EXTENDS RunDirectory, TLAPS

(* Who has served is over or still serves: nobody serves twice. *)
Served == \A p \in evidence \cup cleared \cup orphans : pc[p] \in {"serving", "ended"}

(* The process a reset stops is one that has run, and once the reset removes it
   runs no more.                                                             *)
Stopped ==
  \A p \in Scripts :
    /\ seen[p] \in Scripts => pc[seen[p]] # "unborn"
    /\ pc[p] = "remove" => ~Alive(seen[p])

(* One script at a time, and one control plane: while a start script runs
   nothing else does, and beside a daemon there is at most a reset.          *)
OneByOne ==
  \A p, q \in Scripts :
    p # q /\ Live(p) /\ Live(q) =>
      /\ pc[p] \notin StartSteps
      /\ pc[p] = "serving" <=> pc[q] # "serving"

(* So the record names the daemon, and the reset has read its name there. *)
OnRecord ==
  \A p \in Scripts :
    /\ pc[p] \in {"exec", "serving"} => recorded = p
    /\ \A q \in Scripts :
         pc[p] = "serving" /\ pc[q] \in ResetSteps \ {"look"} => seen[q] = p

Careful == OneByOne /\ OnRecord /\ NoDaemonIsOrphaned

RunInv == TypeOK /\ Served /\ Stopped /\ (habit = "careful" => Careful)

-----------------------------------------------------------------------------
LEMMA InitInv == Init => RunInv
BY RunDirectoryAssumption
   DEF Init, RunInv, TypeOK, Served, Stopped, Careful, OneByOne, OnRecord, NoDaemonIsOrphaned, Live,
       Alive, StartSteps, ResetSteps, Over

(* Every variable keeps its type. *)
LEMMA TypeStep ==
  ASSUME RunInv, NEW p \in Scripts,
         InvokeStart(p) \/ InvokeReset(p) \/ Step(p) \/ Stops(p)
  PROVE  TypeOK'
<1> USE RunDirectoryAssumption
        DEF RunInv, TypeOK, directory, AfterLook,
            Go, Live, Alive, StartSteps, ResetSteps, Over
<1>1. CASE InvokeStart(p) \/ InvokeReset(p)
  BY <1>1 DEF InvokeStart, InvokeReset
<1>2. CASE MakeDirectory(p) \/ Configure(p) \/ OpenRecord(p) \/ RecordProcess(p)
           \/ DoesNotServe(p)
  BY <1>2 DEF MakeDirectory, Configure, OpenRecord, RecordProcess, DoesNotServe
<1>3. CASE Serve(p)
  BY <1>3 DEF Serve
<1>4. CASE Stops(p)
  BY <1>4 DEF Stops
<1>5. CASE Look(p) \/ Terminate(p) \/ Waited(p)
  BY <1>5 DEF Look, Terminate, Waited
<1>6. CASE Kill(p)
  BY <1>6 DEF Kill
<1>7. CASE Unlink(p) \/ RemovalFails(p) \/ Removed(p)
  BY <1>7 DEF Unlink, RemovalFails, Removed, HaveServed, directory
<1> QED
  BY <1>1, <1>2, <1>3, <1>4, <1>5, <1>6, <1>7 DEF Step

(* A process is served and cleared only after it has begun to serve. *)
LEMMA ServedStep ==
  ASSUME RunInv, NEW p \in Scripts,
         InvokeStart(p) \/ InvokeReset(p) \/ Step(p) \/ Stops(p)
  PROVE  Served'
<1> USE RunDirectoryAssumption
        DEF RunInv, TypeOK, Served, directory,
            Go, Live, Alive, StartSteps, ResetSteps, Over
<1>1. CASE InvokeStart(p) \/ InvokeReset(p)
  BY <1>1 DEF InvokeStart, InvokeReset
<1>2. CASE MakeDirectory(p) \/ Configure(p) \/ OpenRecord(p) \/ RecordProcess(p)
           \/ DoesNotServe(p)
  BY <1>2 DEF MakeDirectory, Configure, OpenRecord, RecordProcess, DoesNotServe
<1>3. CASE Serve(p)
  BY <1>3 DEF Serve
<1>4. CASE Stops(p)
  BY <1>4 DEF Stops
<1>5. CASE Look(p) \/ Terminate(p) \/ Waited(p)
  BY <1>5 DEF Look, Terminate, Waited
<1>6. CASE Kill(p)
  BY <1>6 DEF Kill
<1>7. CASE Unlink(p) \/ RemovalFails(p) \/ Removed(p)
  BY <1>7 DEF Unlink, RemovalFails, Removed, HaveServed, directory
<1> QED
  BY <1>1, <1>2, <1>3, <1>4, <1>5, <1>6, <1>7 DEF Step

(* A reset comes to its removal only over a process that is not alive, and
   nothing that is over begins again. *)
LEMMA StoppedStep ==
  ASSUME RunInv, NEW p \in Scripts,
         InvokeStart(p) \/ InvokeReset(p) \/ Step(p) \/ Stops(p)
  PROVE  Stopped'
<1> USE RunDirectoryAssumption
        DEF RunInv, TypeOK, Stopped, AfterLook,
            Go, Live, Alive, StartSteps, ResetSteps, Over
<1>1. CASE InvokeStart(p) \/ InvokeReset(p)
  BY <1>1 DEF InvokeStart, InvokeReset
<1>2. CASE MakeDirectory(p) \/ Configure(p) \/ OpenRecord(p) \/ RecordProcess(p)
           \/ DoesNotServe(p)
  BY <1>2 DEF MakeDirectory, Configure, OpenRecord, RecordProcess, DoesNotServe
<1>3. CASE Serve(p)
  BY <1>3 DEF Serve
<1>4. CASE Stops(p)
  BY <1>4 DEF Stops
<1>5. CASE Look(p) \/ Terminate(p) \/ Waited(p)
  BY <1>5 DEF Look, Terminate, Waited
<1>6. CASE Kill(p)
  BY <1>6 DEF Kill
<1>7. CASE Unlink(p) \/ RemovalFails(p) \/ Removed(p)
  BY <1>7 DEF Unlink, RemovalFails, Removed, HaveServed, directory
<1> QED
  BY <1>1, <1>2, <1>3, <1>4, <1>5, <1>6, <1>7 DEF Step

(* A script begins only where no other runs, and a start only where nothing
   does. *)
LEMMA OneByOneStep ==
  ASSUME RunInv, habit = "careful", Careful, NEW p \in Scripts,
         InvokeStart(p) \/ InvokeReset(p) \/ Step(p) \/ Stops(p)
  PROVE  OneByOne'
<1> USE RunDirectoryAssumption
        DEF RunInv, Careful, TypeOK, OneByOne,
            Go, Live, Alive, StartSteps, ResetSteps, Over
<1>1. CASE InvokeStart(p) \/ InvokeReset(p)
  BY <1>1 DEF InvokeStart, InvokeReset, MayStart, MayReset, Scripting
<1>2. CASE MakeDirectory(p) \/ Configure(p) \/ OpenRecord(p) \/ RecordProcess(p)
           \/ DoesNotServe(p)
  BY <1>2 DEF MakeDirectory, Configure, OpenRecord, RecordProcess, DoesNotServe
<1>3. CASE Serve(p)
  BY <1>3 DEF Serve
<1>4. CASE Stops(p)
  BY <1>4 DEF Stops
<1>5. CASE Look(p) \/ Terminate(p) \/ Waited(p)
  BY <1>5 DEF Look, Terminate, Waited, AfterLook
<1>6. CASE Kill(p)
  BY <1>6 DEF Kill
<1>7. CASE Unlink(p) \/ RemovalFails(p) \/ Removed(p)
  BY <1>7 DEF Unlink, RemovalFails, Removed, HaveServed, directory
<1> QED
  BY <1>1, <1>2, <1>3, <1>4, <1>5, <1>6, <1>7 DEF Step

(* The record is written by one start at a time, and removed over the dead. *)
LEMMA OnRecordStep ==
  ASSUME RunInv, habit = "careful", Careful, NEW p \in Scripts,
         InvokeStart(p) \/ InvokeReset(p) \/ Step(p) \/ Stops(p)
  PROVE  OnRecord'
<1> USE RunDirectoryAssumption
        DEF RunInv, Careful, TypeOK, OneByOne, OnRecord,
            Go, Live, Alive, StartSteps, ResetSteps, Over
<1>1. CASE InvokeStart(p) \/ InvokeReset(p)
  BY <1>1 DEF InvokeStart, InvokeReset, MayStart, MayReset, Scripting, directory
<1>2. CASE MakeDirectory(p) \/ Configure(p) \/ OpenRecord(p) \/ RecordProcess(p)
           \/ DoesNotServe(p)
  BY <1>2 DEF MakeDirectory, Configure, OpenRecord, RecordProcess, DoesNotServe, directory
<1>3. CASE Serve(p)
  BY <1>3 DEF Serve
<1>4. CASE Stops(p)
  BY <1>4 DEF Stops
<1>5. CASE Look(p) \/ Terminate(p) \/ Waited(p)
  BY <1>5 DEF Look, Terminate, Waited, AfterLook, directory
<1>6. CASE Kill(p)
  BY <1>6 DEF Kill, directory
<1>7. CASE Unlink(p) \/ RemovalFails(p) \/ Removed(p)
  BY <1>7 DEF Unlink, RemovalFails, Removed, Stopped, directory
<1> QED
  BY <1>1, <1>2, <1>3, <1>4, <1>5, <1>6, <1>7 DEF Step

(* At the removal no daemon serves: it would be the one the reset has seen. *)
LEMMA OrphansStep ==
  ASSUME RunInv, habit = "careful", Careful, NEW p \in Scripts,
         InvokeStart(p) \/ InvokeReset(p) \/ Step(p) \/ Stops(p)
  PROVE  NoDaemonIsOrphaned'
<1> USE DEF RunInv, Careful, TypeOK, NoDaemonIsOrphaned, Go
<1>1. CASE Unlink(p)
  <2>1. ASSUME NEW q \in Scripts, pc[q] = "serving" PROVE FALSE
    <3>1. seen[p] = q
      BY <1>1, <2>1 DEF Unlink, OnRecord, ResetSteps
    <3> QED
      BY <1>1, <2>1, <3>1 DEF Unlink, Stopped, Alive, Live
  <2>2. orphans' = orphans /\ \A q \in Scripts : pc'[q] = "serving" => pc[q] = "serving"
    BY <1>1, <2>1 DEF Unlink
  <2> QED
    BY <2>2
<1>2. CASE Serve(p)
  <2>1. p \notin orphans
    BY <1>2 DEF Serve, Served
  <2> QED
    BY <1>2, <2>1 DEF Serve
<1>3. CASE ~Unlink(p) /\ ~Serve(p)
  <2>1. orphans' = orphans
    BY <1>3 DEF Step, InvokeStart, InvokeReset, MakeDirectory, Configure, OpenRecord, RecordProcess,
                DoesNotServe, Stops, Look, Terminate, Waited, Kill, RemovalFails, Removed
  <2>2. \A q \in Scripts : pc'[q] = "serving" => pc[q] = "serving"
    BY <1>3, RunDirectoryAssumption
       DEF Step, InvokeStart, InvokeReset, MakeDirectory, Configure, OpenRecord, RecordProcess,
           DoesNotServe, Stops, Look, Terminate, Waited, Kill, RemovalFails, Removed, AfterLook
  <2> QED
    BY <2>1, <2>2
<1> QED
  BY <1>1, <1>2, <1>3

LEMMA StepInv == RunInv /\ [Next]_vars => RunInv'
<1> SUFFICES ASSUME RunInv, [Next]_vars PROVE RunInv'
  OBVIOUS
<1>1. CASE UNCHANGED vars
  BY <1>1 DEF vars, directory, RunInv, TypeOK, Served, Stopped, Careful, OneByOne, OnRecord,
              NoDaemonIsOrphaned, Live, Alive
<1>2. CASE Next
  <2>1. PICK p \in Scripts : InvokeStart(p) \/ InvokeReset(p) \/ Step(p) \/ Stops(p)
    BY <1>2 DEF Next
  <2>2. habit' = habit
    BY <2>1 DEF Step, InvokeStart, InvokeReset, MakeDirectory, Configure, OpenRecord, RecordProcess,
                Serve, DoesNotServe, Stops, Look, Terminate, Waited, Kill, Unlink,
                RemovalFails, Removed
  <2>3. TypeOK' /\ Served' /\ Stopped'
    BY <2>1, TypeStep, ServedStep, StoppedStep
  <2>4. ASSUME habit = "careful" PROVE Careful'
    <3>1. Careful
      BY <2>4 DEF RunInv
    <3> QED
      BY <2>1, <2>4, <3>1, OneByOneStep, OnRecordStep, OrphansStep DEF Careful
  <2> QED
    BY <2>2, <2>3, <2>4 DEF RunInv
<1> QED
  BY <1>1, <1>2

-----------------------------------------------------------------------------
(* The record, the processes and the directory's members have their types, an
   interrupted start's empty record included.                                *)
THEOREM DirectoryTypes == Spec => []TypeOK
<1>1. RunInv => TypeOK
  BY DEF RunInv
<1> QED
  BY InitInv, StepInv, <1>1, PTL DEF Spec

(* An operator with one control plane and one script at a time orphans no
   daemon, whatever stops, is killed or leaves its socket behind.            *)
THEOREM CarefulOperators == Spec => []CarefulOrphansNothing
<1>1. RunInv => CarefulOrphansNothing
  BY DEF RunInv, Careful, CarefulOrphansNothing
<1> QED
  BY InitInv, StepInv, <1>1, PTL DEF Spec

(* The decisions a reset reported to be gone never come back, whatever other
   scripts wrote as it removed: when it reports, the store is empty, and the
   daemons that fill it again are none of those that had served by then.     *)
THEOREM NothingIsKept == Spec => []ResetKeepsNothing
<1>1. Init => ResetKeepsNothing
  BY DEF Init, ResetKeepsNothing
<1>2. RunInv /\ ResetKeepsNothing /\ [Next]_vars => ResetKeepsNothing'
  <2> SUFFICES ASSUME RunInv, ResetKeepsNothing, [Next]_vars PROVE ResetKeepsNothing'
    OBVIOUS
  <2>1. CASE \E p \in Scripts : Serve(p)
    BY <2>1 DEF Serve, RunInv, Served, ResetKeepsNothing
  <2>2. CASE \E p \in Scripts : Unlink(p) \/ Removed(p)
    BY <2>2 DEF Unlink, Removed, ResetKeepsNothing
  <2>3. CASE UNCHANGED <<evidence, cleared>>
    BY <2>3 DEF ResetKeepsNothing
  <2> QED
    BY <2>1, <2>2, <2>3
       DEF Next, vars, directory, Step, InvokeStart, InvokeReset, MakeDirectory, Configure, OpenRecord,
           RecordProcess, DoesNotServe, Stops, Look, Terminate, Waited, Kill, RemovalFails
<1> QED
  BY InitInv, StepInv, <1>1, <1>2, PTL DEF Spec

(* A reset takes nothing away while the process it read in the record is alive,
   for any operator and whatever runs beside it.                             *)
THEOREM RemovalsAreOverTheDead == Spec => RemovesOnlyOverTheDead
<1>1. RunInv => \A p \in Scripts : Unlink(p) \/ Removed(p) => ~Alive(seen[p])
  BY DEF RunInv, Stopped, Unlink, Removed
<1> QED
  BY InitInv, StepInv, <1>1, PTL DEF Spec, RemovesOnlyOverTheDead
=============================================================================
