-------------------------- MODULE GateRoutesProofs --------------------------
(***************************************************************************)
(* What the gate leaves behind, proved for any distributions, releases and *)
(* number of runs: the inductive invariant GateInv, and the properties of  *)
(* the runs that follow from it.                                           *)
(*                                                                         *)
(* The steps are taken in groups that touch the same things: those that    *)
(* only move the run along, those of the bracket, those that end it.       *)
(***************************************************************************)
EXTENDS GateRoutes, TLAPS

(* What a stopped installer leaves is what was there, but for one package it
   had still to put in place.                                               *)
LEMMA BrokenLosesOne ==
  ASSUME TypeOK, NEW left \in Broken
  PROVE  /\ left \in [Packages -> Copy \cup {Absent}]
         /\ \A p \in Packages : left[p] = copies[p] \/ left[p] = Absent
         /\ \A p \in Packages : p \notin todo => left[p] = copies[p]
         /\ pc # "place" => left = copies
  BY DEF TypeOK, Broken, Packages, Of

LEMMA InitGate == Init => GateInv
<1> SUFFICES ASSUME Init PROVE GateInv
  OBVIOUS
<1>1. TypeOK
  <2>1. runs \in 0..MaxRuns
    BY GateAssumption DEF Init
  <2>2. copies \in [Packages -> Copy \cup {Absent}]
    BY DEF Init
  <2>3. /\ record \in [Envs -> Routes \cup {"none"}]
        /\ previously \in [Envs -> Routes \cup {"none"}]
        /\ filled \in [Envs -> Routes \cup {"none"}]
    BY DEF Init
  <2> QED
    BY <2>1, <2>2, <2>3 DEF Init, TypeOK, Envs, Requests, Steps
<1>2. Stages /\ Bracket /\ Behind
  BY DEF Init, Stages, Bracket, Behind, Routes
<1>3. IndexRecordIsTrue /\ Kept
  BY DEF Init, IndexRecordIsTrue, Kept, Plain, Envs
<1> QED
  BY <1>1, <1>2, <1>3 DEF GateInv

(***************************************************************************)
(* Types, and where a run is.                                              *)
(***************************************************************************)
LEMMA TypeStep == TypeOK /\ Stages /\ [Next]_vars => TypeOK'
<1> SUFFICES ASSUME TypeOK, Stages, [Next]_vars PROVE TypeOK'
  OBVIOUS
<1> USE DEF TypeOK
<1>1. CASE Begin
  <2>1. route' \in Routes \cup {"none"}
    BY <1>1 DEF Begin, RouteOf, Requests, Routes
  <2>2. pc' \in Steps
    BY <1>1, <2>1 DEF Begin, Routes, Steps
  <2>3. runs' \in 0..MaxRuns
    BY <1>1, GateAssumption DEF Begin
  <2> QED
    BY <1>1, <2>1, <2>2, <2>3 DEF Begin, disk, Envs, Routes
<1>2. CASE Build
  BY <1>2 DEF Build, RemoveClient, disk, Stages, Packages, Envs, Steps, Of
<1>3. CASE Drop
  BY <1>3 DEF Drop, Needed, Stages, Packages, Envs, Steps, Of, Routes
<1>4. CASE Resolve
  BY <1>4 DEF Resolve, disk, run, Envs, Steps
<1>5. CASE Place
  BY <1>5 DEF Place, Stages, Packages, Of, Copy, Routes
<1>6. CASE Placed
  BY <1>6 DEF Placed, Stages, Envs, Steps, Routes, Of
<1>7. CASE InstallFails
  BY <1>7, BrokenLosesOne DEF InstallFails, Stop, run, Envs, Steps
<1>8. CASE Refuse
  BY <1>8, BrokenLosesOne DEF Refuse, Stop, run, Envs, Steps, Routes
<1>9. CASE NotDelivered
  BY <1>9, BrokenLosesOne DEF NotDelivered, Steps, Routes
<1>10. CASE ClientNotDelivered
  BY <1>10 DEF ClientNotDelivered, RemoveClient, Packages, Envs, Steps
<1>11. CASE Others
  BY <1>11 DEF Others, Stages, disk, Envs, Steps, Of, Routes
<1>12. CASE Uninstall
  BY <1>12 DEF Uninstall, run, Packages, Envs
<1>13. CASE Erase
  BY <1>13 DEF Erase, run, Packages, Envs, Steps
<1>14. CASE Report
  BY <1>14 DEF Report, Stop, run, disk, Steps
<1>15. CASE Interrupted
  BY <1>15, BrokenLosesOne DEF Interrupted, Stop, run, Envs, Steps
<1>16. CASE IndexGoesOrReturns
  BY <1>16 DEF IndexGoesOrReturns, run, disk
<1>17. CASE PinsMove
  BY <1>17 DEF PinsMove, run, disk
<1>18. CASE UNCHANGED vars
  BY <1>18 DEF vars, run, disk
<1> QED
  BY <1>1, <1>2, <1>3, <1>4, <1>5, <1>6, <1>7, <1>8, <1>9, <1>10, <1>11, <1>12, <1>13,
     <1>14, <1>15, <1>16, <1>17, <1>18 DEF Next

LEMMA StagesStep == TypeOK /\ Stages /\ [Next]_vars => Stages'
<1> SUFFICES ASSUME TypeOK, Stages, [Next]_vars PROVE Stages'
  OBVIOUS
<1> USE DEF Stages
<1>1. CASE Begin
  BY <1>1 DEF Begin, RouteOf, Requests, Routes, Envs
<1>2. CASE Build
  BY <1>2 DEF Build, Routes
<1>3. CASE Drop
  BY <1>3 DEF Drop
<1>4. CASE Resolve \/ Report \/ Uninstall \/ Erase \/ UNCHANGED vars
  BY <1>4 DEF Resolve, Report, Uninstall, Erase, Stop, vars, run, disk
<1>5. CASE Place
  BY <1>5 DEF Place
<1>6. CASE Placed
  BY <1>6 DEF Placed, Routes
<1>7. CASE InstallFails \/ Refuse \/ Interrupted
  BY <1>7 DEF InstallFails, Refuse, Interrupted, Stop, run
<1>8. CASE NotDelivered
  BY <1>8 DEF NotDelivered
<1>9. CASE ClientNotDelivered
  BY <1>9 DEF ClientNotDelivered, Fails
<1>10. CASE Others
  BY <1>10 DEF Others, Routes, TypeOK
<1>11. CASE IndexGoesOrReturns \/ PinsMove
  BY <1>11 DEF IndexGoesOrReturns, PinsMove, run, disk
<1> QED
  BY <1>1, <1>2, <1>3, <1>4, <1>5, <1>6, <1>7, <1>8, <1>9, <1>10, <1>11 DEF Next

(***************************************************************************)
(* The bracket.                                                            *)
(***************************************************************************)
(* A package that is not touched, in a run that goes on, stays as asked. *)
LEMMA AsAskedStays ==
  ASSUME NEW p, AsAsked(p), copies'[p] = copies[p], route' = route, pins' = pins
  PROVE  AsAsked(p)'
  BY DEF AsAsked, Present

LEMMA BracketStep ==
  TypeOK /\ Stages /\ Bracket /\ IndexRecordIsTrue /\ [Next]_vars => Bracket'
<1> SUFFICES ASSUME TypeOK, Stages, Bracket, IndexRecordIsTrue, [Next]_vars,
                    pc' \in {"resolve", "place"}
             PROVE  record'[env'] = "none" /\ \A p \in Of(env') \ todo' : AsAsked(p)'
  BY DEF Bracket, Of
<1>1. CASE Drop
  <2>1. record'[env'] = "none"
    BY <1>1 DEF Drop, TypeOK
  <2>2. ASSUME NEW p \in Of(env), p \notin todo' PROVE AsAsked(p)'
    <3>1. previously'[env] = "index" /\ copies[p] \in [route : Routes, release : {pins}]
      BY <1>1, <2>2 DEF Drop, Needed
    <3>2. route = "index" /\ record[env] = "index"
      BY <1>1, <3>1 DEF Drop, Stages, Routes, TypeOK
    <3>3. p \in Packages /\ copies[p] # Absent
      BY <3>1, <2>2, GateAssumption DEF Of, Packages, Routes, TypeOK
    <3>4. copies[p].route = "index"
      BY <3>2, <3>3, <2>2 DEF IndexRecordIsTrue, TypeOK, Present
    <3> QED
      BY <1>1, <3>1, <3>2, <3>3, <3>4 DEF Drop, AsAsked, Present
  <2> QED
    BY <1>1, <2>1, <2>2 DEF Drop
<1>2. CASE Resolve
  BY <1>2, AsAskedStays DEF Resolve, Bracket, disk, run
<1>3. CASE Place
  <2>1. PICK p \in todo, release \in Releases :
          /\ release = pins \/ (p = Client /\ route = "checkouts")
          /\ copies' = [copies EXCEPT ![p] = [route |-> route, release |-> release]]
          /\ todo' = todo \ {p}
    BY <1>3 DEF Place
  <2>2. p \in Packages /\ route \in Routes /\ pc = "place"
    BY <1>3 DEF Place, TypeOK, Stages, Of, Packages
  <2>3. AsAsked(p)'
    <3>1. copies'[p] = [route |-> route, release |-> release]
      BY <2>1, <2>2 DEF TypeOK
    <3>2. [route |-> route, release |-> release] # Absent
      BY <2>2, GateAssumption DEF Routes
    <3> QED
      BY <1>3, <2>1, <3>1, <3>2 DEF Place, AsAsked, Present
  <2>4. ASSUME NEW q \in Of(env), q \notin todo, q # p PROVE AsAsked(q)'
    <3>1. AsAsked(q)
      BY <2>2, <2>4 DEF Bracket
    <3>2. copies'[q] = copies[q]
      BY <2>1, <2>4 DEF TypeOK, Packages, Of
    <3> QED
      BY <1>3, <3>1, <3>2, AsAskedStays DEF Place
  <2> QED
    BY <1>3, <2>1, <2>3, <2>4 DEF Place, Bracket
<1>4. CASE IndexGoesOrReturns \/ UNCHANGED vars
  BY <1>4, AsAskedStays DEF IndexGoesOrReturns, vars, disk, run, Bracket
<1>5. CASE Begin \/ Build \/ Placed \/ Others
  BY <1>5 DEF Begin, Build, Placed, Others, RouteOf, Requests, Routes, TypeOK
<1>6. CASE InstallFails \/ Refuse \/ NotDelivered \/ ClientNotDelivered \/ Uninstall \/ Erase
           \/ Report \/ Interrupted \/ PinsMove
  BY <1>6 DEF InstallFails, Refuse, NotDelivered, ClientNotDelivered, Uninstall, Erase,
              Report, Interrupted, PinsMove, Stop
<1> QED
  BY <1>1, <1>2, <1>3, <1>4, <1>5, <1>6 DEF Next

(***************************************************************************)
(* What the run has behind it.                                             *)
(***************************************************************************)
LEMMA BehindStep ==
  TypeOK /\ Stages /\ Bracket /\ Behind /\ [Next]_vars => Behind'
<1> SUFFICES ASSUME TypeOK, Stages, Bracket, Behind, [Next]_vars PROVE Behind'
  OBVIOUS
<1> USE DEF Behind
<1>0. Client \in Packages /\ Distributions \subseteq Packages /\ Client \notin Distributions
  BY GateAssumption DEF Packages
<1>1. CASE Begin
  BY <1>1 DEF Begin, RouteOf, Requests
<1>2. CASE Build
  BY <1>2, <1>0 DEF Build, RemoveClient, Stages, Present, TypeOK
<1>3. CASE Drop
  BY <1>3, AsAskedStays DEF Drop, Present
<1>4. CASE Resolve
  BY <1>4, AsAskedStays DEF Resolve, disk, run, Present
<1>5. CASE Place
  <2>1. PICK p \in todo :
          \A q \in Packages : q # p => copies'[q] = copies[q]
    BY <1>5 DEF Place, TypeOK
  <2>2. /\ env = "client" => \A d \in Distributions : copies'[d] = copies[d]
        /\ env = "venv" => copies'[Client] = copies[Client]
    BY <2>1, <1>0 DEF TypeOK, Of, Envs
  <2>3. ASSUME route = "index", env = "client", NEW d \in Distributions
        PROVE  AsAsked(d)'
    BY <1>5, <2>2, <2>3, AsAskedStays DEF Place
  <2>4. ASSUME route = "checkouts", env = "venv", Present(Client)'
        PROVE  clientBuilt' /\ AsAsked(Client)'
    BY <1>5, <2>2, <2>4, AsAskedStays DEF Place, Present
  <2> QED
    BY <1>5, <2>3, <2>4 DEF Place
<1>6. CASE Placed
  <2>1. ASSUME NEW p \in Of(env) PROVE AsAsked(p)'
    BY <1>6, <2>1, AsAskedStays DEF Placed, Bracket
  <2>2. CASE env = "venv"
    <3>1. \A d \in Distributions : AsAsked(d)'
      BY <2>1, <2>2 DEF Of
    <3>2. route = "checkouts" /\ Present(Client)' => clientBuilt' /\ AsAsked(Client)'
      BY <1>6, <2>2, AsAskedStays DEF Placed, Present
    <3> QED
      BY <1>6, <2>2, <3>1, <3>2 DEF Placed
  <2>3. CASE env = "client"
    <3>1. AsAsked(Client)' /\ clientBuilt'
      BY <1>6, <2>1, <2>3 DEF Placed, Of
    <3>2. route = "index" => \A d \in Distributions : AsAsked(d)'
      BY <1>6, <2>3, AsAskedStays DEF Placed
    <3> QED
      BY <1>6, <2>3, <3>1, <3>2 DEF Placed
  <2> QED
    BY <2>2, <2>3 DEF TypeOK, Envs
<1>7. CASE InstallFails \/ Refuse \/ Report \/ Interrupted \/ PinsMove
  BY <1>7 DEF InstallFails, Refuse, Report, Interrupted, PinsMove, Stop, run
<1>8. CASE NotDelivered
  BY <1>8 DEF NotDelivered
<1>9. CASE ClientNotDelivered
  <2>1. copies'[Client] = Absent /\ \A d \in Distributions : copies'[d] = copies[d]
    BY <1>9, <1>0 DEF ClientNotDelivered, RemoveClient, TypeOK
  <2>2. \A d \in Distributions : AsAsked(d)'
    BY <1>9, <2>1, AsAskedStays DEF ClientNotDelivered, Fails
  <2> QED
    BY <1>9, <2>1, <2>2 DEF ClientNotDelivered, Present
<1>10. CASE Others
  BY <1>10, AsAskedStays DEF Others, disk, Stages, Routes, Present, TypeOK
<1>11. CASE Uninstall
  BY <1>11 DEF Uninstall, run, Stages
<1>12. CASE Erase
  BY <1>12, <1>0 DEF Erase, run, Stages, Present, TypeOK
<1>13. CASE IndexGoesOrReturns \/ UNCHANGED vars
  BY <1>13, AsAskedStays DEF IndexGoesOrReturns, vars, disk, run, Present
<1> QED
  BY <1>1, <1>2, <1>3, <1>4, <1>5, <1>6, <1>7, <1>8, <1>9, <1>10, <1>11, <1>12, <1>13 DEF Next

(***************************************************************************)
(* The records.                                                            *)
(***************************************************************************)
LEMMA RecordStep ==
  TypeOK /\ Stages /\ Bracket /\ IndexRecordIsTrue /\ [Next]_vars => IndexRecordIsTrue'
<1> SUFFICES ASSUME TypeOK, Stages, Bracket, IndexRecordIsTrue, [Next]_vars,
                    NEW e \in Envs, record'[e] = "index",
                    NEW p \in Of(e), Present(p)'
             PROVE  copies'[p].route = "index"
  BY DEF IndexRecordIsTrue, Of, Present
<1>0. p \in Packages /\ (e # env => p \notin Of(env))
  BY GateAssumption DEF Of, Envs, Packages, TypeOK
<1>1. ASSUME record[e] = "index", copies'[p] \in {copies[p], Absent}
      PROVE  copies'[p].route = "index"
  BY <1>1 DEF IndexRecordIsTrue, Present
<1>2. CASE Place
  <2>1. e # env
    BY <1>2 DEF Place, Bracket
  <2>2. copies'[p] = copies[p]
    BY <1>2, <2>1, <1>0 DEF Place, TypeOK
  <2> QED
    BY <1>1, <1>2, <2>2 DEF Place
<1>3. CASE Placed
  <2>1. CASE e = env
    BY <1>3, <2>1 DEF Placed, Bracket, AsAsked, TypeOK
  <2>2. CASE e # env
    BY <1>1, <1>3, <2>2 DEF Placed, TypeOK
  <2> QED
    BY <2>1, <2>2
<1>4. CASE InstallFails \/ Interrupted \/ NotDelivered
  BY <1>0, <1>1, <1>4, BrokenLosesOne DEF InstallFails, Interrupted, NotDelivered
<1>5. CASE Refuse
  BY <1>0, <1>1, <1>5, BrokenLosesOne DEF Refuse, TypeOK
<1>6. CASE Build \/ ClientNotDelivered \/ Uninstall \/ Erase
  <2>1. copies'[p] \in {copies[p], Absent}
    BY <1>0, <1>6 DEF Build, ClientNotDelivered, RemoveClient, Uninstall, Erase, disk, TypeOK
  <2>2. record[e] = "index"
    BY <1>6 DEF Build, ClientNotDelivered, RemoveClient, Uninstall, Erase, disk, TypeOK
  <2> QED
    BY <1>1, <2>1, <2>2
<1>7. CASE Drop
  BY <1>1, <1>7 DEF Drop, TypeOK
<1>8. CASE Begin \/ Resolve \/ Others \/ Report \/ IndexGoesOrReturns \/ PinsMove \/ UNCHANGED vars
  BY <1>1, <1>8 DEF Begin, Resolve, Others, Report, IndexGoesOrReturns, PinsMove, vars, disk
<1> QED
  BY <1>2, <1>3, <1>4, <1>5, <1>6, <1>7, <1>8 DEF Next

(***************************************************************************)
(* What checkouts built.                                                   *)
(***************************************************************************)
LEMMA KeptStep ==
  TypeOK /\ Stages /\ Bracket /\ Kept /\ [Next]_vars => Kept'
<1> SUFFICES ASSUME TypeOK, Stages, Bracket, Kept, [Next]_vars PROVE Kept'
  OBVIOUS
<1> USE DEF Kept, Plain
<1>0. /\ Client \in Packages /\ Distributions \subseteq Packages /\ Client \notin Distributions
      /\ "venv" \in Envs /\ "client" \in Envs
  BY GateAssumption DEF Packages, Envs
<1>1. CASE Begin
  BY <1>1 DEF Begin, disk, RouteOf, Requests, Present
<1>2. CASE Build
  BY <1>2, <1>0 DEF Build, RemoveClient, disk, Stages, Present, TypeOK
<1>3. CASE Drop
  BY <1>3, <1>0 DEF Drop, Stages, Present, TypeOK, Envs
<1>4. CASE Resolve
  BY <1>4, <1>0 DEF Resolve, disk, run, Present, TypeOK, Envs
<1>5. CASE Place
  <2>1. filled[env] = "none"
    BY <1>5 DEF Place
  <2>2. env = "client" => \A d \in Distributions : copies'[d] = copies[d]
    BY <1>5, <1>0 DEF Place, TypeOK, Of
  <2> QED
    BY <1>5, <2>1, <2>2 DEF Place, Present, TypeOK, Envs
<1>6. CASE Placed
  <2>1. env = "venv" => \A d \in Distributions : Present(d)
    BY <1>6 DEF Placed, Bracket, AsAsked, Of
  <2>2. route \in Routes /\ pc = "place"
    BY <1>6 DEF Placed, Stages
  <2>3. CASE env = "venv"
    <3>1. filled'["venv"] = route /\ record'["venv"] = route /\ pc' = "others" /\ copies' = copies
      BY <1>6, <1>0, <2>3 DEF Placed, TypeOK
    <3>2. asked' = asked /\ route' = route
      BY <1>6 DEF Placed
    <3> QED
      BY <2>1, <2>2, <2>3, <3>1, <3>2 DEF Present, Routes
  <2>4. CASE env = "client"
    <3>1. filled'["venv"] = filled["venv"] /\ record'["venv"] = record["venv"] /\ copies' = copies
      BY <1>6, <1>0, <2>4 DEF Placed, TypeOK
    <3>2. asked' = asked /\ route' = route /\ pc' # "place"
      BY <1>6 DEF Placed
    <3> QED
      BY <2>2, <2>4, <3>1, <3>2 DEF Present
  <2> QED
    BY <2>3, <2>4 DEF TypeOK, Envs
<1>7. CASE InstallFails \/ Interrupted
  <2>1. filled'["venv"] = "checkouts" => filled["venv"] = "checkouts" /\ ~(pc \in {"resolve", "place"} /\ env = "venv")
    BY <1>7, <1>0 DEF InstallFails, Interrupted, Fails, TypeOK
  <2>2. ~(pc = "place" /\ env = "venv") => \A d \in Distributions : copies'[d] = copies[d]
    BY <1>7, <1>0, BrokenLosesOne DEF InstallFails, Interrupted, TypeOK, Of, Envs
  <2> QED
    BY <1>7, <2>1, <2>2 DEF InstallFails, Interrupted, Stop, Present
<1>8. CASE Refuse
  <2>1. ~(pc = "place" /\ env = "venv") => \A d \in Distributions : copies'[d] = copies[d]
    BY <1>8, <1>0, BrokenLosesOne DEF Refuse, TypeOK, Of, Envs
  <2>2. record'["venv"] \in {record["venv"], "checkouts"}
    BY <1>8, <1>0 DEF Refuse, TypeOK
  <2>3. env = "venv" => record'["venv"] = "checkouts"
    BY <1>8, <1>0 DEF Refuse, TypeOK
  <2> QED
    BY <1>8, <2>1, <2>2, <2>3 DEF Refuse, Stop, Present
<1>9. CASE NotDelivered
  <2>1. filled["venv"] # "checkouts"
    <3>1. CASE pc = "place"
      BY <1>9, <3>1 DEF NotDelivered
    <3>2. CASE pc = "resolve"
      BY <1>9, <3>2, <1>0, BrokenLosesOne DEF NotDelivered, BuiltByCheckouts, Bracket, Of, Present
    <3> QED
      BY <1>9, <3>1, <3>2 DEF NotDelivered, Fails
  <2> QED
    BY <1>9, <2>1 DEF NotDelivered
<1>10. CASE ClientNotDelivered
  <2>1. \A d \in Distributions : copies'[d] = copies[d]
    BY <1>10, <1>0 DEF ClientNotDelivered, RemoveClient, TypeOK
  <2>2. record'["venv"] = record["venv"] /\ filled'["venv"] = filled["venv"]
    BY <1>10, <1>0 DEF ClientNotDelivered, RemoveClient, TypeOK
  <2> QED
    BY <1>10, <2>1, <2>2 DEF ClientNotDelivered, Present
<1>11. CASE Others
  BY <1>11 DEF Others, disk, Present, TypeOK, Routes
<1>12. CASE Uninstall \/ Erase
  <2>1. filled'["venv"] = "none"
    BY <1>12, <1>0 DEF Uninstall, Erase, TypeOK
  <2>2. route' = "none" /\ pc' # "place"
    BY <1>12 DEF Uninstall, Erase, Stages, run
  <2> QED
    BY <2>1, <2>2
<1>13. CASE Report \/ IndexGoesOrReturns \/ PinsMove \/ UNCHANGED vars
  BY <1>13 DEF Report, Stop, IndexGoesOrReturns, PinsMove, vars, disk, run, Present
<1> QED
  BY <1>1, <1>2, <1>3, <1>4, <1>5, <1>6, <1>7, <1>8, <1>9, <1>10, <1>11, <1>12, <1>13 DEF Next

-----------------------------------------------------------------------------
(***************************************************************************)
(* The theorems.                                                           *)
(***************************************************************************)
(* The inductive invariant of the gate's runs. *)
THEOREM GateInvariant == Spec => []GateInv
<1>1. GateInv /\ [Next]_vars => GateInv'
  BY TypeStep, StagesStep, BracketStep, BehindStep, RecordStep, KeptStep DEF GateInv
<1> QED
  BY InitGate, <1>1, PTL DEF Spec

(* Every variable of the gate has its type. *)
THEOREM GateTypes == Spec => []TypeOK
<1>1. GateInv => TypeOK
  BY DEF GateInv
<1> QED
  BY GateInvariant, <1>1, PTL

(* No record says that the index filled what something else put there. *)
THEOREM RecordsAreTrue == Spec => []IndexRecordIsTrue
<1>1. GateInv => IndexRecordIsTrue
  BY DEF GateInv
<1> QED
  BY GateInvariant, <1>1, PTL

(* A full run reports about distributions that came by the route it names. *)
THEOREM RoutesAreNamed == Spec => []FullRunNamesItsRoute
<1>1. GateInv => FullRunNamesItsRoute
  <2> SUFFICES ASSUME GateInv, pc = "report", mode = "full"
               PROVE  /\ \A d \in Distributions : copies[d] = [route |-> route, release |-> pins]
                      /\ Present(Client) =>
                           copies[Client].route = route /\ (route = "index" => copies[Client].release = pins)
    BY DEF FullRunNamesItsRoute
  <2>1. route # "none"
    BY DEF GateInv, Stages
  <2>2. ASSUME NEW d \in Distributions PROVE copies[d] = [route |-> route, release |-> pins]
    <3>1. AsAsked(d)
      BY <2>1, <2>2 DEF GateInv, Behind
    <3>2. copies[d] \in Copy
      BY <2>2, <3>1 DEF GateInv, TypeOK, AsAsked, Present, Packages
    <3> QED
      BY <2>2, <3>1, <3>2, GateAssumption DEF AsAsked, Copy
  <2>3. Present(Client) => AsAsked(Client)
    BY DEF GateInv, Behind
  <2> QED
    BY <2>2, <2>3 DEF AsAsked
<1> QED
  BY GateInvariant, <1>1, PTL

(* No run borrows what an earlier run left in its environments. *)
THEOREM NothingIsBorrowed == Spec => []FindsOnlyWhatItDelivered
<1>1. GateInv => FindsOnlyWhatItDelivered
  BY DEF GateInv, Stages, Behind, FindsOnlyWhatItDelivered
<1> QED
  BY GateInvariant, <1>1, PTL

(* A plain run leaves the distributions a checkouts run installed. *)
THEOREM CheckoutsAreKept == Spec => CheckoutsSurviveAPlainRun
<1> DEFINE Keeps == Plain /\ filled["venv"] = "checkouts" => \A d \in Distributions : copies'[d] # Absent
<1>1. GateInv /\ [Next]_vars => [Keeps]_vars
  <2> SUFFICES ASSUME GateInv, [Next]_vars, Plain, filled["venv"] = "checkouts",
                      NEW d \in Distributions
               PROVE  copies'[d] # Absent
    OBVIOUS
  <2>1. /\ TypeOK /\ Stages /\ route # "none" /\ copies[d] # Absent
        /\ ~(pc = "place" /\ env = "venv")
        /\ d \in Packages /\ d # Client /\ d \notin Of("client")
    BY GateAssumption DEF GateInv, Kept, Plain, Present, Packages, Of
  <2>2. CASE InstallFails \/ Refuse \/ NotDelivered \/ Interrupted
    <3>1. copies' \in Broken /\ (pc # "place" \/ d \notin todo)
      BY <2>1, <2>2 DEF InstallFails, Refuse, NotDelivered, Interrupted, TypeOK, Envs, Of
    <3> QED
      BY <2>1, <3>1, BrokenLosesOne
  <2>3. CASE Place
    BY <2>1, <2>3 DEF Place, TypeOK, Envs, Of
  <2>4. CASE Build \/ ClientNotDelivered
    BY <2>1, <2>4 DEF Build, ClientNotDelivered, RemoveClient, disk, TypeOK
  <2>5. CASE Uninstall \/ Erase
    BY <2>1, <2>5 DEF Uninstall, Erase, Stages
  <2>6. CASE Begin \/ Drop \/ Resolve \/ Placed \/ Others \/ Report \/ IndexGoesOrReturns
             \/ PinsMove \/ UNCHANGED vars
    BY <2>1, <2>6 DEF Begin, Drop, Resolve, Placed, Others, Report, IndexGoesOrReturns,
                      PinsMove, vars, disk
  <2> QED
    BY <2>2, <2>3, <2>4, <2>5, <2>6 DEF Next
<1> QED
  BY GateInvariant, <1>1, PTL DEF Spec, CheckoutsSurviveAPlainRun

-----------------------------------------------------------------------------
(***************************************************************************)
(* What a plain run does keep of what the index installed.                 *)
(***************************************************************************)
AtThePin(p) == copies[p] \in [route : Routes, release : {pins}]

(* The index's record stands, or was read by the install under way, and all the
   distributions are at the release the project pins.                        *)
UpToDate ==
  /\ \A d \in Distributions : AtThePin(d)
  /\ \/ record["venv"] = "index"
     \/ pc \in {"resolve", "place"} /\ env = "venv" /\ previously["venv"] = "index"

(* Of an environment the index is on record for, only what is not at the pin is
   placed again; and a plain run is reduced only where no record stands.     *)
Spares ==
  /\ pc \in {"resolve", "place"} /\ env = "venv" /\ previously["venv"] = "index" =>
       \A p \in todo : ~AtThePin(p)
  /\ Plain /\ route = "none" /\ pc \in {"others", "reduce"} => record["venv"] = "none"

(* A plain run removes nothing from an environment that is up to date. *)
UpToDateSurvivesAPlainRun ==
  [][Plain /\ UpToDate => \A d \in Distributions : copies'[d] # Absent]_vars

LEMMA SparesStep == GateInv /\ Spares /\ [Next]_vars => Spares'
<1> SUFFICES ASSUME GateInv, Spares, [Next]_vars PROVE Spares'
  OBVIOUS
<1>0. TypeOK /\ Stages /\ Bracket /\ Kept
  BY DEF GateInv
<1>1. ASSUME pc' \in {"resolve", "place"}, env' = "venv", previously'["venv"] = "index",
             NEW p \in todo'
      PROVE  ~AtThePin(p)'
  <2>1. CASE Drop
    <3>1. p \in Needed("index") /\ env = "venv"
      BY <1>0, <1>1, <2>1 DEF Drop, TypeOK, Envs
    <3> QED
      BY <1>1, <2>1, <3>1 DEF Drop, Needed, AtThePin
  <2>2. CASE Place
    <3>1. /\ p \in todo /\ previously["venv"] = "index" /\ env = "venv" /\ pc = "place"
          /\ pins' = pins
      BY <1>1, <2>2 DEF Place
    <3>2. copies'[p] = copies[p]
      BY <1>0, <1>1, <2>2, <3>1 DEF Place, TypeOK, Of
    <3> QED
      BY <3>1, <3>2 DEF Spares, AtThePin
  <2>3. CASE Resolve \/ IndexGoesOrReturns \/ UNCHANGED vars
    <3>1. /\ p \in todo /\ previously["venv"] = "index" /\ env = "venv"
          /\ pc \in {"resolve", "place"} /\ copies' = copies /\ pins' = pins
      BY <1>1, <2>3 DEF Resolve, IndexGoesOrReturns, vars, disk, run
    <3> QED
      BY <3>1 DEF Spares, AtThePin
  <2>4. CASE \/ Build \/ Placed \/ InstallFails \/ Refuse \/ NotDelivered
             \/ ClientNotDelivered \/ Uninstall \/ Erase \/ Report \/ Interrupted \/ PinsMove
    BY <1>1, <2>4 DEF Build, Placed, InstallFails, Refuse, NotDelivered,
         ClientNotDelivered, Uninstall, Erase, Report, Interrupted, PinsMove, Stop
  <2>5. CASE Begin
    <3>1. route' \in {"checkouts", "index", "none"}
      BY <2>5 DEF Begin, RouteOf, Requests
    <3> QED
      BY <1>1, <2>5, <3>1 DEF Begin
  <2>6. CASE Others
    <3>1. route \in {"checkouts", "index", "none"}
      BY <1>0 DEF TypeOK, Routes
    <3> QED
      BY <1>1, <2>6, <3>1 DEF Others
  <2> QED
    BY <2>1, <2>2, <2>3, <2>4, <2>5, <2>6 DEF Next
<1>2. ASSUME Plain', route' = "none", pc' \in {"others", "reduce"} PROVE record'["venv"] = "none"
  <2>1. CASE Begin
    BY <1>2, <2>1 DEF Begin, RouteOf, Plain, Requests
  <2>2. CASE NotDelivered
    BY <1>0, <2>2 DEF NotDelivered, Fails, Bracket
  <2>3. CASE Others \/ Uninstall \/ IndexGoesOrReturns \/ UNCHANGED vars
    <3>1. /\ Plain /\ route = "none" /\ pc \in {"others", "reduce"} /\ record' = record
      BY <1>2, <2>3 DEF Others, Uninstall, IndexGoesOrReturns, vars, run, disk, Plain
    <3> QED
      BY <3>1 DEF Spares
  <2>4. CASE \/ Build \/ Drop \/ Resolve \/ Place \/ Erase \/ Report \/ Interrupted \/ PinsMove
             \/ InstallFails \/ Refuse \/ ClientNotDelivered
    BY <1>2, <2>4 DEF Build, Drop, Resolve, Place, Erase, Report, Interrupted, PinsMove,
         InstallFails, Refuse, ClientNotDelivered, Stop, Plain
  <2>5. CASE Placed
    BY <1>0, <1>2, <2>5 DEF Placed, Stages, Routes
  <2> QED
    BY <2>1, <2>2, <2>3, <2>4, <2>5 DEF Next
<1> QED
  BY <1>1, <1>2 DEF Spares

(* "No plain run removes what an earlier run installed by either route": it does
   hold, for the index, while what is installed is what the project pins and the
   record of it stands, whatever the index does meanwhile.                   *)
THEOREM UpToDateIsKept == Spec => UpToDateSurvivesAPlainRun
<1> DEFINE Keeps == Plain /\ UpToDate => \A d \in Distributions : copies'[d] # Absent
<1>1. Init => Spares
  BY DEF Init, Spares
<1>2. GateInv /\ Spares /\ [Next]_vars => [Keeps]_vars
  <2> SUFFICES ASSUME GateInv, Spares, [Next]_vars, Plain, UpToDate, NEW d \in Distributions
               PROVE  copies'[d] # Absent
    OBVIOUS
  <2>1. /\ TypeOK /\ Stages /\ Bracket /\ copies[d] # Absent
        /\ d \in Packages /\ d # Client /\ d \notin Of("client")
    BY GateAssumption DEF GateInv, UpToDate, AtThePin, Routes, Packages, Of, TypeOK
  <2>2. pc = "place" => d \notin todo
    BY <2>1 DEF UpToDate, Spares, Bracket, TypeOK, Of, Envs
  <2>3. CASE InstallFails \/ Refuse \/ NotDelivered \/ Interrupted
    <3>1. copies' \in Broken /\ (pc # "place" \/ d \notin todo)
      BY <2>2, <2>3 DEF InstallFails, Refuse, NotDelivered, Interrupted
    <3> QED
      BY <2>1, <3>1, BrokenLosesOne
  <2>4. CASE Place
    BY <2>1, <2>2, <2>4 DEF Place, TypeOK
  <2>5. CASE Build \/ ClientNotDelivered
    BY <2>1, <2>5 DEF Build, ClientNotDelivered, RemoveClient, disk, TypeOK
  <2>6. CASE Uninstall \/ Erase
    <3>1. pc = "reduce" /\ route = "none" /\ record["venv"] = "none"
      BY <2>1, <2>6 DEF Uninstall, Erase, Stages, Spares
    <3> QED
      BY <3>1 DEF UpToDate
  <2>7. CASE Begin \/ Drop \/ Resolve \/ Placed \/ Others \/ Report \/ IndexGoesOrReturns
             \/ PinsMove \/ UNCHANGED vars
    BY <2>1, <2>7 DEF Begin, Drop, Resolve, Placed, Others, Report, IndexGoesOrReturns,
                      PinsMove, vars, disk
  <2> QED
    BY <2>3, <2>4, <2>5, <2>6, <2>7 DEF Next
<1> QED
  BY GateInvariant, <1>1, <1>2, SparesStep, PTL DEF Spec, UpToDateSurvivesAPlainRun
=============================================================================
