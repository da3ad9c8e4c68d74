---------------------------- MODULE RunDirectory ----------------------------
(***************************************************************************)
(* The run directory that start-control-plane.sh and reset-demo.sh share:  *)
(* one records a process and becomes the daemon, the other stops what is   *)
(* recorded and removes the whole directory.                               *)
(*                                                                         *)
(* Every invocation of a script is a process of its own, and a process id  *)
(* is never given twice here. The daemon is a separate program: what is    *)
(* modelled of it is what the two scripts rely on.                         *)
(***************************************************************************)
EXTENDS Naturals, FiniteSets

CONSTANTS
  Scripts,     \* bound: the invocations of the two scripts
  NoProcess,   \* the absent process id
  Unreadable,  \* what daemon.pid holds when it does not name a process
  Habits       \* how scripts may be invoked, a subset of {"careful", "turns", "any"}

ASSUME RunDirectoryAssumption ==
  /\ NoProcess \notin Scripts /\ Unreadable \notin Scripts \cup {NoProcess}
  /\ Habits \subseteq {"careful", "turns", "any"}

VARIABLES
  habit,     \* how this operator invokes scripts
  pc,        \* what each process is doing
  seen,      \* a reset's recorded_process
  present,   \* the directory exists
  recorded,  \* daemon.pid
  config,    \* the rendered policy and the daemon's configuration exist
  socket,    \* who bound daemon.sock, while the file is there
  evidence,  \* the daemons whose decisions the store in the directory holds
  orphans,   \* daemons that lost files of their directory as they served
  cleared    \* who had served by the time a reset reported that all was gone

directory == <<present, recorded, config, socket, evidence>>
vars == <<habit, pc, seen, directory, orphans, cleared>>

-----------------------------------------------------------------------------
StartSteps == {"mkdir", "configure", "open", "record", "exec"}
ResetSteps == {"look", "terminate", "wait", "kill", "remove"}
Over == {"ended", "refused", "done"}
Live(p) == pc[p] \in StartSteps \cup ResetSteps \cup {"serving"}
Scripting(p) == pc[p] \in StartSteps \cup ResetSteps

TypeOK ==
  /\ habit \in Habits
  /\ pc \in [Scripts -> StartSteps \cup ResetSteps \cup Over \cup {"unborn", "serving"}]
  /\ seen \in [Scripts -> Scripts \cup {NoProcess}]
  /\ present \in BOOLEAN /\ config \in BOOLEAN
  /\ recorded \in Scripts \cup {NoProcess, Unreadable}
  /\ socket \in Scripts \cup {NoProcess}
  /\ evidence \subseteq Scripts /\ orphans \subseteq Scripts /\ cleared \subseteq Scripts

Init ==
  /\ habit \in Habits
  /\ pc = [p \in Scripts |-> "unborn"]
  /\ seen = [p \in Scripts |-> NoProcess]
  /\ present = FALSE /\ config = FALSE
  /\ recorded = NoProcess /\ socket = NoProcess
  /\ evidence = {} /\ orphans = {} /\ cleared = {}

Go(p, step) == pc' = [pc EXCEPT ![p] = step]

(* "turns": a script is not invoked while another runs. "careful": nor is the
   control plane started while one is up.                                    *)
MayStart ==
  CASE habit = "careful" -> \A q \in Scripts : ~Live(q)
    [] habit = "turns"   -> \A q \in Scripts : ~Scripting(q)
    [] OTHER             -> TRUE
MayReset == habit = "any" \/ \A q \in Scripts : ~Scripting(q)

InvokeStart(p) ==
  /\ pc[p] = "unborn" /\ MayStart
  /\ Go(p, "mkdir")
  /\ UNCHANGED <<habit, seen, directory, orphans, cleared>>

InvokeReset(p) ==
  /\ pc[p] = "unborn" /\ MayReset
  /\ Go(p, "look")
  /\ UNCHANGED <<habit, seen, directory, orphans, cleared>>

-----------------------------------------------------------------------------
(***************************************************************************)
(* start-control-plane.sh, under set -e: a write into a directory that is  *)
(* gone ends it.                                                           *)
(***************************************************************************)
MakeDirectory(p) ==
  /\ pc[p] = "mkdir"
  /\ present' = TRUE
  /\ Go(p, "configure")
  /\ UNCHANGED <<habit, seen, recorded, config, socket, evidence, orphans, cleared>>

Configure(p) ==
  /\ pc[p] = "configure"
  /\ config' = present
  /\ Go(p, IF present THEN "open" ELSE "ended")
  /\ UNCHANGED <<habit, seen, present, recorded, socket, evidence, orphans, cleared>>

(* The redirection empties the file before the echo writes the process id, and
   a script interrupted in between leaves it that way.                        *)
OpenRecord(p) ==
  /\ pc[p] = "open"
  /\ recorded' = IF present THEN Unreadable ELSE recorded
  /\ Go(p, IF present THEN "record" ELSE "ended")
  /\ UNCHANGED <<habit, seen, present, config, socket, evidence, orphans, cleared>>

RecordProcess(p) ==
  /\ pc[p] = "record"
  /\ recorded' = IF present THEN p ELSE recorded
  /\ Go(p, IF present THEN "exec" ELSE "ended")
  /\ UNCHANGED <<habit, seen, present, config, socket, evidence, orphans, cleared>>

(* The shell becomes the daemon. It serves on a socket nobody is serving, a
   file left behind included, and reopens the store it finds.                *)
Serve(p) ==
  /\ pc[p] = "exec" /\ config
  /\ \A q \in Scripts : socket = q => pc[q] # "serving"
  /\ socket' = p /\ evidence' = evidence \cup {p}
  /\ Go(p, "serving")
  /\ UNCHANGED <<habit, seen, present, recorded, config, orphans, cleared>>

(* It cannot serve: there is no configuration, another one is listening, or
   anything else it refuses to start on.                                     *)
DoesNotServe(p) ==
  /\ pc[p] = "exec"
  /\ Go(p, "ended")
  /\ UNCHANGED <<habit, seen, directory, orphans, cleared>>

(* A daemon stops, or a script is interrupted, whoever asked for it. Only a
   daemon that stops cleanly takes its socket away.                          *)
Stops(p) ==
  /\ Live(p)
  /\ Go(p, "ended")
  /\ \/ UNCHANGED socket
     \/ pc[p] = "serving" /\ socket = p /\ socket' = NoProcess
  /\ UNCHANGED <<habit, seen, present, recorded, config, evidence, orphans, cleared>>

-----------------------------------------------------------------------------
(***************************************************************************)
(* reset-demo.sh.                                                          *)
(***************************************************************************)
(* What decides that nothing is running. Without a recorded process the
   socket is looked at; with one that is not alive it is not.                *)
Alive(recordedProcess) == \E q \in Scripts : q = recordedProcess /\ Live(q)

AfterLook ==
  IF recorded \in Scripts
  THEN IF Alive(recorded) THEN "terminate" ELSE "remove"
  ELSE IF socket = NoProcess THEN "remove" ELSE "refused"

(* Slip: what does not name a process is kept as the process to stop. *)
LookAtAnything(p) ==
  /\ pc[p] = "look"
  /\ seen' = [seen EXCEPT ![p] = recorded]
  /\ Go(p, AfterLook)
  /\ UNCHANGED <<habit, directory, orphans, cleared>>
Look(p) ==
  /\ pc[p] = "look"
  /\ seen' = [seen EXCEPT ![p] = IF Alive(recorded) THEN recorded ELSE NoProcess]
  /\ Go(p, AfterLook)
  /\ UNCHANGED <<habit, directory, orphans, cleared>>

(* A request to stop, and up to ten seconds for it to be heard. *)
Terminate(p) ==
  /\ pc[p] = "terminate"
  /\ Go(p, "wait")
  /\ UNCHANGED <<habit, seen, directory, orphans, cleared>>

(* Slip: ten seconds are enough. *)
WaitedLongEnough(p) ==
  /\ pc[p] = "wait"
  /\ Go(p, "remove")
  /\ UNCHANGED <<habit, seen, directory, orphans, cleared>>
Waited(p) ==
  /\ pc[p] = "wait"
  /\ Go(p, IF Alive(seen[p]) THEN "kill" ELSE "remove")
  /\ UNCHANGED <<habit, seen, directory, orphans, cleared>>

(* Slip: the wait after the kill has no end. *)
KillUntilGone(p) ==
  /\ pc[p] = "kill"
  /\ IF Alive(seen[p]) THEN UNCHANGED pc ELSE Go(p, "remove")
  /\ UNCHANGED <<habit, seen, directory, orphans, cleared>>
(* A kill, which leaves the socket behind, and five seconds more. *)
Kill(p) ==
  /\ pc[p] = "kill"
  /\ IF Alive(seen[p])
     THEN \/ pc' = [pc EXCEPT ![p] = "remove", ![seen[p]] = "ended"]
          \/ Go(p, "refused")
     ELSE Go(p, "remove")
  /\ UNCHANGED <<habit, seen, directory, orphans, cleared>>

(* The removal takes one member of the directory after another, in whatever
   order it comes upon them, those included that others write meanwhile.     *)
Unlink(p) ==
  /\ pc[p] = "remove"
  /\ \/ /\ recorded # NoProcess /\ recorded' = NoProcess
        /\ UNCHANGED <<config, socket, evidence>>
     \/ /\ config /\ config' = FALSE
        /\ UNCHANGED <<recorded, socket, evidence>>
     \/ /\ socket # NoProcess /\ socket' = NoProcess
        /\ UNCHANGED <<recorded, config, evidence>>
     \/ /\ \E kept \in SUBSET evidence : kept # evidence /\ evidence' = kept
        /\ UNCHANGED <<recorded, config, socket>>
  /\ orphans' = orphans \cup {q \in Scripts : pc[q] = "serving"}
  /\ UNCHANGED <<habit, pc, seen, present, cleared>>

(* Something cannot be removed, or was written once the rest was gone: under
   set -e the script ends there, and says nothing of a removal.              *)
RemovalFails(p) ==
  /\ pc[p] = "remove"
  /\ Go(p, "ended")
  /\ UNCHANGED <<habit, seen, directory, orphans, cleared>>

HaveServed == {q \in Scripts : pc[q] \in {"serving", "ended"}}

(* Slip: a removal that fails is passed over. *)
RemovedAsFarAsPossible(p) ==
  /\ pc[p] = "remove"
  /\ cleared' = cleared \cup HaveServed
  /\ Go(p, "done")
  /\ UNCHANGED <<habit, seen, directory, orphans>>
(* The directory was empty and is gone, and the script reports what went with
   it.                                                                       *)
Removed(p) ==
  /\ pc[p] = "remove"
  /\ recorded = NoProcess /\ ~config /\ socket = NoProcess /\ evidence = {}
  /\ present' = FALSE
  /\ cleared' = cleared \cup HaveServed
  /\ Go(p, "done")
  /\ UNCHANGED <<habit, seen, recorded, config, socket, evidence, orphans>>

-----------------------------------------------------------------------------
Step(p) ==
  \/ MakeDirectory(p) \/ Configure(p) \/ OpenRecord(p) \/ RecordProcess(p)
  \/ Serve(p) \/ DoesNotServe(p)
  \/ Look(p) \/ Terminate(p) \/ Waited(p) \/ Kill(p)
  \/ Unlink(p) \/ RemovalFails(p) \/ Removed(p)

Next == \E p \in Scripts : InvokeStart(p) \/ InvokeReset(p) \/ Step(p) \/ Stops(p)

Spec == Init /\ [][Next]_vars

(* A script that runs goes on: every wait in it is a bounded loop. *)
FairSpec == Spec /\ \A p \in Scripts : WF_vars(Step(p))

-----------------------------------------------------------------------------
(* No live daemon ever loses what it opened. *)
NoDaemonIsOrphaned == \A p \in orphans : pc[p] # "serving"

(* It holds for an operator who never has two control planes and never runs
   two scripts at once, whatever stops, is killed or leaves its socket.      *)
CarefulOrphansNothing == habit = "careful" => NoDaemonIsOrphaned

(* A new take starts with nothing kept: once a reset has said that everything
   is gone, the decisions of whoever had served by then are in no store a
   daemon opens later, however many scripts ran across each other, and although
   a removal may stop halfway and be taken up by another reset.              *)
ResetKeepsNothing == evidence \cap cleared = {}

(* Whatever else runs, a reset takes nothing from the directory while the
   process it read in the record is alive.                                   *)
RemovesOnlyOverTheDead ==
  [][\A p \in Scripts : Unlink(p) \/ Removed(p) => ~Alive(seen[p])]_vars

(* A reset ends, with a removal, a refusal or a failure, whatever it has to stop
   and whoever writes into the directory as it removes it.                   *)
ResetEnds == \A p \in Scripts : pc[p] = "look" ~> pc[p] \in Over
=============================================================================
