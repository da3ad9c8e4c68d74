----------------------------- MODULE GateRoutes -----------------------------
(***************************************************************************)
(* What scripts/gate.sh leaves in its two environments, run after run: the *)
(* development environment, which holds the open distributions, and the    *)
(* environment of the command a person answers with.                       *)
(*                                                                         *)
(* Each environment carries a record of the route that last filled it. A   *)
(* run decides from what it was asked, from that record and from what the  *)
(* index delivers. It may be interrupted anywhere, an install may fail     *)
(* before it has touched anything or halfway, the index comes and goes,    *)
(* and the project's pins move between runs. One run at a time.            *)
(***************************************************************************)
EXTENDS Naturals, FiniteSets

CONSTANTS
  Distributions,  \* the open distributions the project pins
  Client,         \* the command a person answers with
  Releases,       \* the releases a pin may name
  Absent,         \* what is not installed
  MaxRuns         \* bound: the runs of the gate

ASSUME GateAssumption ==
  /\ Client \notin Distributions
  /\ Absent \notin [route : {"checkouts", "index"}, release : Releases]
  /\ MaxRuns \in Nat

VARIABLES
  \* on disk
  copies,      \* what is installed of each package
  record,      \* .sayfirst-route of each environment
  \* around
  index,       \* whether the package index answers
  pins,        \* the release the project file pins
  \* the run
  runs,        \* how many were begun
  asked,       \* what this run was asked for
  pc,
  env,         \* the environment it is filling
  route, mode, \* as the script's variables of these names
  previously,  \* previously, client_previously
  todo,        \* what the installer has still to put in place
  clientBuilt, \* client_built
  \* history
  filled       \* the route that completely filled an environment, until an
               \* install or a removal touches it or a run is stopped inside one

disk == <<copies, record>>
run == <<asked, env, route, mode, previously, todo, clientBuilt>>
vars == <<disk, index, pins, runs, run, pc, filled>>

-----------------------------------------------------------------------------
Packages == Distributions \cup {Client}
Envs == {"venv", "client"}
Of(e) == IF e = "venv" THEN Distributions ELSE {Client}

Routes == {"checkouts", "index"}
Copy == [route : Routes, release : Releases]

(* What a run may be asked: checkouts named, with or without the client's;
   nothing; or SAYFIRST_INDEX=no and nothing. Other requests are refused
   before anything is read.                                                  *)
Requests == {"checkouts and client", "checkouts", "plain", "no index"}
RouteOf(request) ==
  CASE request \in {"checkouts and client", "checkouts"} -> "checkouts"
    [] request = "plain" -> "index"
    [] request = "no index" -> "none"

Present(p) == copies[p] # Absent

Steps ==
  {"idle",
   "build",   \* the wheels, from the named checkouts
   "drop",    \* the bracket opens: the record of env is read and removed
   "resolve", \* the installer finds everything it has to put in place
   "place",   \* and puts it there
   "others",  \* the agent's own dependencies
   "reduce",  \* the open distributions are removed
   "erase",   \* and the record, and the client
   "report"}  \* the environment is what this run reports about

TypeOK ==
  /\ copies \in [Packages -> Copy \cup {Absent}]
  /\ record \in [Envs -> Routes \cup {"none"}]
  /\ index \in BOOLEAN /\ pins \in Releases
  /\ runs \in 0..MaxRuns
  /\ asked \in Requests /\ pc \in Steps /\ env \in Envs
  /\ route \in Routes \cup {"none"} /\ mode \in {"full", "reduced"}
  /\ previously \in [Envs -> Routes \cup {"none"}]
  /\ todo \subseteq Of(env)
  /\ clientBuilt \in BOOLEAN
  /\ filled \in [Envs -> Routes \cup {"none"}]

Init ==
  /\ copies = [p \in Packages |-> Absent]
  /\ record = [e \in Envs |-> "none"]
  /\ index \in BOOLEAN /\ pins \in Releases
  /\ runs = 0 /\ asked = "plain" /\ pc = "idle" /\ env = "venv"
  /\ route = "none" /\ mode = "reduced"
  /\ previously = [e \in Envs |-> "none"]
  /\ todo = {} /\ clientBuilt = FALSE
  /\ filled = [e \in Envs |-> "none"]

-----------------------------------------------------------------------------
(***************************************************************************)
(* A run begins, and builds what it was told to build.                     *)
(***************************************************************************)
Begin ==
  /\ pc = "idle" /\ runs < MaxRuns
  /\ runs' = runs + 1
  /\ asked' \in Requests
  /\ route' = RouteOf(asked')
  /\ mode' = IF route' = "none" THEN "reduced" ELSE "full"
  /\ pc' = CASE route' = "checkouts" -> "build"
             [] route' = "index" -> "drop"
             [] route' = "none" -> "others"
  /\ env' = "venv"
  /\ previously' = [e \in Envs |-> "none"] /\ todo' = {} /\ clientBuilt' = FALSE
  /\ UNCHANGED <<disk, index, pins, filled>>

RemoveClient ==
  /\ copies' = [copies EXCEPT ![Client] = Absent]
  /\ record' = [record EXCEPT !["client"] = "none"]
  /\ filled' = [filled EXCEPT !["client"] = "none"]

(* Slip: a client nobody asked for stays where an earlier run put it. *)
BuildLeavesTheClient ==
  /\ pc = "build" /\ pc' = "drop"
  /\ env' = IF asked = "checkouts and client" THEN "client" ELSE "venv"
  /\ UNCHANGED <<disk, filled, index, pins, runs, asked, route, mode, previously, todo, clientBuilt>>
(* The client is built and installed first; one that is not built must not be
   found.                                                                    *)
Build ==
  /\ pc = "build" /\ pc' = "drop"
  /\ IF asked = "checkouts and client"
     THEN env' = "client" /\ UNCHANGED <<disk, filled>>
     ELSE env' = "venv" /\ RemoveClient
  /\ UNCHANGED <<index, pins, runs, asked, route, mode, previously, todo, clientBuilt>>

-----------------------------------------------------------------------------
(***************************************************************************)
(* The bracket around an install: the record is removed before it and      *)
(* written after it.                                                       *)
(***************************************************************************)
(* Slip: whatever is there at the right number is left there. *)
NeededByNumber(before) ==
  {p \in Of(env) : copies[p] \notin [route : Routes, release : {pins}]}
(* What the installer has to put in place: without --reinstall, what is not
   there at the pinned release; with it, everything.                         *)
Needed(before) ==
  {p \in Of(env) : before = "index" => copies[p] \notin [route : Routes, release : {pins}]}

(* Slip: the record stays until the next one is written. *)
DropNothing ==
  /\ pc = "drop" /\ pc' = "resolve"
  /\ previously' = IF route = "index" THEN [previously EXCEPT ![env] = record[env]] ELSE previously
  /\ todo' = Needed(previously'[env])
  /\ UNCHANGED <<disk, index, pins, runs, asked, env, route, mode, clientBuilt, filled>>
Drop ==
  /\ pc = "drop" /\ pc' = "resolve"
  /\ previously' = IF route = "index" THEN [previously EXCEPT ![env] = record[env]] ELSE previously
  /\ todo' = Needed(previously'[env])
  /\ record' = [record EXCEPT ![env] = "none"]
  /\ UNCHANGED <<copies, index, pins, runs, asked, env, route, mode, clientBuilt, filled>>

(* An environment that holds what is asked for does not need the index. *)
Resolve ==
  /\ pc = "resolve" /\ pc' = "place"
  /\ route = "checkouts" \/ index \/ todo = {}
  /\ filled' = [filled EXCEPT ![env] = "none"]
  /\ UNCHANGED <<disk, index, pins, runs, run>>

(* One package replaced. The client's wheel is installed by its file, whatever
   release it carries.                                                        *)
Place ==
  /\ pc = "place"
  /\ \E p \in todo : \E release \in Releases :
       /\ release = pins \/ (p = Client /\ route = "checkouts")
       /\ copies' = [copies EXCEPT ![p] = [route |-> route, release |-> release]]
       /\ todo' = todo \ {p}
  /\ UNCHANGED <<record, index, pins, runs, asked, env, route, mode, previously, clientBuilt, pc, filled>>

Placed ==
  /\ pc = "place" /\ todo = {}
  /\ record' = [record EXCEPT ![env] = route]
  /\ filled' = [filled EXCEPT ![env] = route]
  /\ clientBuilt' = (clientBuilt \/ env = "client")
  /\ \/ env = "venv" /\ pc' = "others" /\ UNCHANGED env
     \/ env = "client" /\ route = "checkouts" /\ pc' = "drop" /\ env' = "venv"
     \/ env = "client" /\ route = "index" /\ pc' = "report" /\ UNCHANGED env
  /\ UNCHANGED <<copies, index, pins, runs, asked, route, mode, previously, todo>>

(* What an installer that is stopped while it replaces a package leaves. *)
Broken == {copies} \cup {[copies EXCEPT ![p] = Absent] : p \in IF pc = "place" THEN todo ELSE {}}

(* The run ends with a failure: the rest of the script is not executed. *)
Stop ==
  /\ pc' = "idle"
  /\ UNCHANGED <<index, pins, runs, run>>

(* An install fails: nothing can be resolved, or the disk refuses a file. *)
Fails ==
  /\ \/ pc = "resolve" /\ todo # {} /\ (route = "index" => ~index)
     \/ pc = "place" /\ todo # {}

(* On the checkouts route nothing catches the failure. *)
InstallFails ==
  /\ Fails /\ route = "checkouts" /\ copies' \in Broken
  /\ filled' = [filled EXCEPT ![env] = "none"]
  /\ Stop /\ UNCHANGED record

(* What the index route measures when it was not delivered: whether a checkouts
   run filled this environment, and everything is still there.               *)
BuiltByCheckouts(left) ==
  previously[env] = "checkouts" /\ \A p \in Of(env) : left[p] # Absent

(* Slip: the refusal forgets to put the record back. *)
RefuseWithoutTheRecord ==
  /\ Fails /\ route = "index"
  /\ copies' \in Broken /\ BuiltByCheckouts(copies')
  /\ Stop /\ UNCHANGED <<record, filled>>
(* The index did not answer for what a checkouts run built, and all of it is
   still there: the record is put back and the run refuses.                  *)
Refuse ==
  /\ Fails /\ route = "index"
  /\ copies' \in Broken /\ BuiltByCheckouts(copies')
  /\ record' = [record EXCEPT ![env] = "checkouts"]
  /\ Stop /\ UNCHANGED filled

(* It did not answer for anything else: the run is reduced... *)
NotDelivered ==
  /\ Fails /\ route = "index" /\ env = "venv"
  /\ copies' \in Broken /\ ~BuiltByCheckouts(copies')
  /\ mode' = "reduced" /\ route' = "none" /\ todo' = {}
  /\ pc' = "others"
  /\ UNCHANGED <<record, index, pins, runs, asked, env, previously, clientBuilt, filled>>

(* ... or goes on without the client, and removes what was there. *)
ClientNotDelivered ==
  /\ Fails /\ route = "index" /\ env = "client"
  /\ \E left \in Broken : ~BuiltByCheckouts(left)
  /\ todo' = {} /\ pc' = "report"
  /\ RemoveClient
  /\ UNCHANGED <<index, pins, runs, asked, env, route, mode, previously, clientBuilt>>

-----------------------------------------------------------------------------
(***************************************************************************)
(* The rest of the environment, the reduction, the report.                 *)
(***************************************************************************)
Others ==
  /\ pc = "others"
  /\ pc' = CASE route = "index" -> "drop"
             [] route = "checkouts" -> "report"
             [] route = "none" -> "reduce"
  /\ env' = IF route = "index" THEN "client" ELSE env
  /\ UNCHANGED <<disk, index, pins, runs, asked, route, mode, previously, todo, clientBuilt, filled>>

Uninstall ==
  /\ pc = "reduce"
  /\ \E d \in Distributions :
       /\ Present(d)
       /\ copies' = [copies EXCEPT ![d] = Absent]
  /\ filled' = [filled EXCEPT !["venv"] = "none"]
  /\ UNCHANGED <<record, index, pins, runs, run, pc>>

Erase ==
  /\ pc = "reduce" /\ \A d \in Distributions : ~Present(d)
  /\ pc' = "report"
  /\ copies' = [copies EXCEPT ![Client] = Absent]
  /\ record' = [e \in Envs |-> "none"]
  /\ filled' = [e \in Envs |-> "none"]
  /\ UNCHANGED <<index, pins, runs, run>>

Report == pc = "report" /\ Stop /\ UNCHANGED <<disk, filled>>

(* A person interrupts the run, the machine goes down, or a step with no
   recovery of its own fails (a ref that does not exist, a wheel that does
   not build, the agent's own dependencies).                                 *)
Interrupted ==
  /\ pc # "idle"
  /\ copies' \in Broken
  /\ filled' = IF pc \in {"resolve", "place"} THEN [filled EXCEPT ![env] = "none"] ELSE filled
  /\ Stop /\ UNCHANGED record

-----------------------------------------------------------------------------
IndexGoesOrReturns == index' = ~index /\ UNCHANGED <<disk, pins, runs, run, pc, filled>>

(* The project moves to another release, between two runs. *)
PinsMove ==
  /\ pc = "idle" /\ pins' \in Releases \ {pins}
  /\ UNCHANGED <<disk, index, runs, run, pc, filled>>

Next ==
  \/ Begin \/ Build
  \/ Drop \/ Resolve \/ Place \/ Placed
  \/ InstallFails \/ Refuse \/ NotDelivered \/ ClientNotDelivered
  \/ Others \/ Uninstall \/ Erase \/ Report
  \/ Interrupted \/ IndexGoesOrReturns \/ PinsMove

Spec == Init /\ [][Next]_vars

-----------------------------------------------------------------------------
(* A record of the index never describes wrongly: whatever was interrupted or
   failed halfway, an environment that says the index filled it holds nothing
   that anything else put there. It is what lets a later run leave its
   packages where they are.                                                  *)
IndexRecordIsTrue ==
  \A e \in Envs : record[e] = "index" =>
    \A p \in Of(e) : Present(p) => copies[p].route = "index"

(* A full run reports about what it says it reports about: every distribution
   came by the route it names, at the pinned release, and so did the client if
   there is one (of a client that was built, the release is its checkout's).  *)
FullRunNamesItsRoute ==
  pc = "report" /\ mode = "full" =>
    /\ \A d \in Distributions : copies[d] = [route |-> route, release |-> pins]
    /\ Present(Client) =>
         copies[Client].route = route /\ (route = "index" => copies[Client].release = pins)

(* A run borrows nothing an earlier run left: a reduced one can import no open
   distribution, and a client this run did not build is not found.           *)
FindsOnlyWhatItDelivered ==
  pc = "report" =>
    /\ mode = "reduced" => \A d \in Distributions : ~Present(d)
    /\ Present(Client) => clientBuilt

(* A plain run never removes the distributions a checkouts run installed, as
   long as no run was stopped inside an install since.                       *)
Plain == pc # "idle" /\ asked = "plain"
CheckoutsSurviveAPlainRun ==
  [][Plain /\ filled["venv"] = "checkouts" => \A d \in Distributions : copies'[d] # Absent]_vars

(* "No plain run removes what an earlier run installed by either route." *)
PlainRunRemovesNothing ==
  [][Plain /\ filled["venv"] # "none" => \A d \in Distributions : copies'[d] # Absent]_vars

-----------------------------------------------------------------------------
(***************************************************************************)
(* The inductive invariant of the runs, in named parts.                    *)
(***************************************************************************)
(* Where a run is, what it may have become, and when it has packages to place. *)
Stages ==
  /\ pc = "build" => route = "checkouts"
  /\ pc \in {"drop", "resolve", "place"} => route \in Routes
  /\ pc = "others" => env = "venv"
  /\ pc = "reduce" => route = "none"
  /\ pc # "idle" => (mode = "reduced" <=> route = "none")
  /\ pc \notin {"idle", "resolve", "place"} => todo = {}
  /\ route = "checkouts" => \A e \in Envs : previously[e] = "none"

(* A package this run put in place, or found already as it would put it. *)
AsAsked(p) ==
  /\ Present(p) /\ copies[p].route = route
  /\ copies[p].release = pins \/ (p = Client /\ route = "checkouts")

(* Inside the bracket there is no record, and what is not to do is done. *)
Bracket ==
  pc \in {"resolve", "place"} =>
    /\ record[env] = "none"
    /\ \A p \in Of(env) \ todo : AsAsked(p)

(* What the run has behind it. *)
Behind ==
  /\ \/ pc \in {"others", "report"} /\ route # "none"
     \/ pc # "idle" /\ route = "index" /\ env = "client"
     => \A d \in Distributions : AsAsked(d)
  /\ \/ pc \in {"drop", "resolve", "place", "others"} /\ route = "checkouts" /\ env = "venv"
     \/ pc = "report"
     => (Present(Client) => clientBuilt /\ AsAsked(Client))
  /\ pc = "report" /\ route = "none" => \A d \in Distributions : ~Present(d)

(* What checkouts built is on record, or has just been read off the record. *)
Kept ==
  /\ pc = "place" => filled[env] = "none"
  /\ Plain => route # "checkouts" /\ (route = "none" => filled["venv"] # "checkouts")
  /\ filled["venv"] = "checkouts" =>
       /\ \A d \in Distributions : Present(d)
       /\ \/ record["venv"] = "checkouts"
          \/ /\ pc = "resolve" /\ env = "venv"
             /\ route = "index" => previously["venv"] = "checkouts"

GateInv == TypeOK /\ Stages /\ Bracket /\ Behind /\ IndexRecordIsTrue /\ Kept
=============================================================================
