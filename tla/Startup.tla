------------------------------ MODULE Startup ------------------------------
(***************************************************************************)
(* From a caller's environment and a .env file to a verdict: check-demo.sh *)
(* says whether this machine is ready, then run-demo.sh starts a take on   *)
(* the same machine. Each is a process of its own that begins with what    *)
(* the caller set, reads the file line by line (lib/environment.sh),       *)
(* refuses what it cannot run on, and resolves its settings.               *)
(*                                                                         *)
(* The shell uses a value as it is; settings.py strips it. A value is a    *)
(* word, or no word, with or without blanks after it.                      *)
(***************************************************************************)
EXTENDS Naturals, Sequences, FiniteSets

CONSTANTS
  Values,     \* the names that are read, and the values each may be given
  NoWord,     \* what an empty value has for a word
  Unset,      \* what a name has that nobody set
  MaxCaller,  \* bound: the names the caller sets
  MaxLines    \* bound: the lines of the file

Names == DOMAIN Values

(* An assignment, or a line that is not one. *)
NotAnAssignment == [name |-> "none", value |-> Unset]
Assignment == UNION {[name : {n}, value : Values[n]] : n \in Names}
Line == Assignment \cup {NotAnAssignment}

ASSUME StartupAssumption ==
  /\ {"SAYFIRST_SOCKET", "SAYFIRST_DEMO_RUN", "XDG_RUNTIME_DIR", "MODEL_MODE",
      "MODEL_API_KEY"} \subseteq Names
  /\ "none" \notin Names
  /\ \A n \in Names : \A v \in Values[n] : v = [word |-> v.word, padded |-> v.padded]
  /\ \A n \in Names : \A v \in Values[n] : Unset \notin {v, [v EXCEPT !.padded = FALSE]}
  /\ MaxCaller \in Nat /\ MaxLines \in Nat

VARIABLES
  \* what both programs find
  caller,   \* what the caller set
  file,     \* the lines of .env
  machine,  \* what has been found installed, listening, served and on disk
  \* the program that runs
  program,  \* "check", then "run"
  pc,
  line,     \* the lines it has read
  env,      \* its environment
  assigned, \* the names the file has assigned
  failed,   \* the check has made a negative observation
  engine,   \* what will reason in the take
  \* what is left of each
  address,  \* the socket it went to
  status    \* how it ended

inputs == <<caller, file>>
process == <<program, line, env, assigned>>
vars == <<inputs, machine, process, pc, failed, engine, address, status>>

-----------------------------------------------------------------------------
Programs == {"check", "run"}
NoAddress == [kind |-> "none", value |-> Unset]
NoStatus == 100  \* a program that has not ended
Parts == {"installed", "daemon", "endpoint", "room"}

(* What a sequence of assignments gives a name: its first one, or nothing. *)
First(lines, name) ==
  LET at == {i \in 1..Len(lines) : lines[i].name = name}
  IN IF at = {} THEN Unset
     ELSE lines[CHOOSE i \in at : \A j \in at : i <= j].value

Init ==
  /\ \E given \in UNION {[1..k -> Assignment] : k \in 0..MaxCaller} :
       caller = [n \in Names |-> First(given, n)]
  /\ file \in UNION {[1..k -> Line] : k \in 0..MaxLines}
  /\ machine = [part \in Parts |-> {}]
  /\ program = "check" /\ pc = "read" /\ line = 0
  /\ env = caller /\ assigned = {}
  /\ failed = FALSE /\ engine = "none"
  /\ address = [p \in Programs |-> NoAddress]
  /\ status = [p \in Programs |-> NoStatus]

-----------------------------------------------------------------------------
(***************************************************************************)
(* The values a program works with.                                        *)
(***************************************************************************)
Empty == [word |-> NoWord, padded |-> FALSE]
Strip(value) == IF value = Unset THEN Unset ELSE [value EXCEPT !.padded = FALSE]

(* ${NAME:-...} of the shell, and the reading of settings.py. *)
Raw(name) == env[name]
Stripped(name) == Strip(env[name])
Given(value) == value \notin {Unset, Empty}

(* Where the start script binds the socket when nobody names one. *)
Bound(directory, runtime) ==
  CASE Given(directory) -> [kind |-> "run", value |-> directory]
    [] ~Given(directory) /\ Given(runtime) -> [kind |-> "runtime", value |-> runtime]
    [] OTHER -> [kind |-> "home", value |-> Unset]
StartAddress == Bound(Raw("SAYFIRST_DEMO_RUN"), Raw("XDG_RUNTIME_DIR"))

(* The settings' address, for a program that has read the file. *)
SettingsAddress ==
  IF Given(Stripped("SAYFIRST_SOCKET"))
  THEN [kind |-> "socket", value |-> Stripped("SAYFIRST_SOCKET")]
  ELSE Bound(Stripped("SAYFIRST_DEMO_RUN"), Stripped("XDG_RUNTIME_DIR"))

(* Slip: a blank name is a name. *)
ScriptAddressOfABlank ==
  IF Raw("SAYFIRST_SOCKET") # Unset
  THEN [kind |-> "socket", value |-> Raw("SAYFIRST_SOCKET")]
  ELSE StartAddress
(* The address run-demo.sh looks at, and exports to the program it becomes. *)
ScriptAddress ==
  IF Given(Raw("SAYFIRST_SOCKET"))
  THEN [kind |-> "socket", value |-> Raw("SAYFIRST_SOCKET")]
  ELSE StartAddress

(* Blanks inside a path it composed stay there. *)
ExportedAddress == IF ScriptAddress.kind = "socket" THEN SettingsAddress ELSE ScriptAddress

Mode == IF env["MODEL_MODE"] = Unset THEN "fixture" ELSE Stripped("MODEL_MODE").word

Usable ==
  /\ Mode \in {"fixture", "real"}
  /\ Mode = "real" => Given(Stripped("MODEL_BASE_URL")) /\ Given(Stripped("MODEL_NAME"))
(* A key of blanks is no key. *)
Keyed == Given(Stripped("MODEL_API_KEY"))
(* float() raises an exception that nothing at startup names. *)
ANumber == env["MODEL_TEMPERATURE"] = Unset \/ env["MODEL_TEMPERATURE"].word = "number"

-----------------------------------------------------------------------------
(* The status a program ends with; 0 of the run is its first turn. *)
Ends(code) ==
  /\ pc' = "over"
  /\ status' = [status EXCEPT ![program] = code]

Goes(step) == pc' = step /\ UNCHANGED status

(* Looking at a part of the machine finds something there, and later the same. *)
Finds(part, finding, findings) ==
  /\ finding \in IF machine[part] = {} THEN findings ELSE machine[part]
  /\ machine' = [machine EXCEPT ![part] = {finding}]

(***************************************************************************)
(* read_environment_file: what nobody has named, and the first assignment  *)
(* of a name only.                                                         *)
(***************************************************************************)
(* Slip: an empty value does not count as named. *)
ReadsOverBlanks ==
  /\ pc = "read" /\ line < Len(file)
  /\ line' = line + 1
  /\ LET read == file[line + 1] IN
     IF read.name = "none" \/ read.name \in assigned
     THEN UNCHANGED <<env, assigned>>
     ELSE /\ assigned' = assigned \cup {read.name}
          /\ env' = IF Given(env[read.name]) THEN env ELSE [env EXCEPT ![read.name] = read.value]
  /\ UNCHANGED <<inputs, machine, program, pc, failed, engine, address, status>>
ReadLine ==
  /\ pc = "read" /\ line < Len(file)
  /\ line' = line + 1
  /\ LET read == file[line + 1] IN
     IF read.name = "none" \/ read.name \in assigned
     THEN UNCHANGED <<env, assigned>>
     ELSE /\ assigned' = assigned \cup {read.name}
          /\ env' = IF env[read.name] = Unset THEN [env EXCEPT ![read.name] = read.value] ELSE env
  /\ UNCHANGED <<inputs, machine, program, pc, failed, engine, address, status>>

EndOfFile ==
  /\ pc = "read" /\ line = Len(file)
  /\ Goes("require")
  /\ UNCHANGED <<inputs, machine, process, failed, engine, address>>

(***************************************************************************)
(* What the script requires before it becomes its program.                 *)
(***************************************************************************)
Required == IF program = "check" THEN "contract" ELSE "boundary"

Installs == {{}, {"contract"}, {"contract", "boundary"}}

(* Slip: it refuses with the status of a question the plane refused. *)
RequireAsThePlane ==
  /\ pc = "require"
  /\ \E installed \in Installs :
       /\ Finds("installed", installed, Installs)
       /\ IF Required \notin installed THEN Ends(3)
          ELSE Goes(IF program = "check" THEN "settings" ELSE "script")
  /\ UNCHANGED <<inputs, process, failed, engine, address>>
Require ==
  /\ pc = "require"
  /\ \E installed \in Installs :
       /\ Finds("installed", installed, Installs)
       /\ IF Required \notin installed THEN Ends(7)
          ELSE Goes(IF program = "check" THEN "settings" ELSE "script")
  /\ UNCHANGED <<inputs, process, failed, engine, address>>

(* Who has a socket there: the daemon the start script of this environment
   started, or one at an address somebody named. A file may be left behind by
   a daemon that is gone, and a daemon may not be the one this demonstration
   needs (its mode, its policy).                                             *)
Daemons ==
  [state : {"stale", "other", "serving"},
   at : {StartAddress} \cup
        {[kind |-> "socket", value |-> Strip(v)] :
           v \in {w \in Values["SAYFIRST_SOCKET"] : w.word # NoWord}}]
    \cup {[state |-> "absent", at |-> NoAddress]}

(* run-demo.sh: is there a socket at the address it exports? *)
Script ==
  /\ pc = "script"
  /\ address' = [address EXCEPT !["run"] = ScriptAddress]
  /\ \E daemon \in Daemons :
       /\ Finds("daemon", daemon, Daemons)
       /\ IF daemon.at = ScriptAddress THEN Goes("settings") ELSE Ends(4)
  /\ UNCHANGED <<inputs, process, failed, engine>>

(***************************************************************************)
(* The program: its settings, then the check's observations or the run's.  *)
(***************************************************************************)
LoadSettings ==
  /\ pc = "settings"
  /\ address' = [address EXCEPT ![program] =
                  IF program = "check" THEN SettingsAddress ELSE ExportedAddress]
  /\ IF ~Usable THEN Ends(7)
     ELSE IF ~ANumber THEN Ends(1)
     ELSE Goes(IF program = "check" THEN "observe" ELSE "model")
  /\ UNCHANGED <<inputs, machine, process, failed, engine>>

(* Nothing there, or nobody answering, ends the check; anything else that is
   wrong is one more negative observation.                                   *)
ObserveThePlane ==
  /\ pc = "observe"
  /\ \E daemon \in Daemons :
       /\ Finds("daemon", daemon, Daemons)
       /\ IF daemon.at # address["check"] \/ daemon.state = "stale"
          THEN Ends(1) /\ UNCHANGED failed
          ELSE Goes("model") /\ failed' = (daemon.state = "other")
  /\ UNCHANGED <<inputs, process, engine, address>>

(***************************************************************************)
(* An endpoint gives two answers: what it lists to somebody who names no   *)
(* key, which may be nothing, or nothing that can be read, and whether it  *)
(* takes the key it is given.                                              *)
(***************************************************************************)
Endpoints ==
  [listing : {"no answer", "garbled", "without the model", "with it"}, takesTheKey : BOOLEAN]

(* Slip: a check of a real model does not ask for it. *)
ObserveNoModel ==
  /\ pc = "model" /\ program = "check"
  /\ Goes("room")
  /\ UNCHANGED <<machine, failed, inputs, process, engine, address>>
(* The check names no key. A listing it cannot read ends it by an exception
   that nothing names.                                                       *)
ObserveTheModel ==
  /\ pc = "model" /\ program = "check"
  /\ IF Mode = "fixture" THEN Goes("room") /\ UNCHANGED <<machine, failed>>
     ELSE \E endpoint \in Endpoints :
            /\ Finds("endpoint", endpoint, Endpoints)
            /\ IF endpoint.listing = "garbled" THEN Ends(1) /\ UNCHANGED failed
               ELSE Goes("room") /\ failed' = (failed \/ endpoint.listing # "with it")
  /\ UNCHANGED <<inputs, process, engine, address>>

(* The outbox is empty and the corpus is not. *)
Room == {"clean", "not clean"}
ObserveTheRoom ==
  /\ pc = "room"
  /\ \E room \in Room : Finds("room", room, Room) /\ failed' = (failed \/ room # "clean")
  /\ Ends(IF failed' THEN 1 ELSE 0)
  /\ UNCHANGED <<inputs, process, engine, address>>

(* The run's probe names the key there is, and does not read what it is told. *)
Answers(endpoint) == IF Keyed THEN endpoint.takesTheKey ELSE endpoint.listing # "no answer"

(* Slip: an endpoint that does not answer is replaced by a transcript. *)
BuildSomething ==
  /\ pc = "model" /\ program = "run"
  /\ \E endpoint \in Endpoints :
       /\ Finds("endpoint", endpoint, Endpoints)
       /\ engine' = IF Mode = "real" /\ Answers(endpoint) THEN "model" ELSE "transcript"
  /\ Ends(0)
  /\ UNCHANGED <<inputs, process, failed, address>>
(* build_model: a transcript, or an endpoint that answers a probe. *)
BuildModel ==
  /\ pc = "model" /\ program = "run"
  /\ IF Mode = "fixture" THEN engine' = "transcript" /\ Ends(0) /\ UNCHANGED machine
     ELSE \E endpoint \in Endpoints :
            /\ Finds("endpoint", endpoint, Endpoints)
            /\ IF Answers(endpoint) THEN engine' = "model" /\ Ends(0)
               ELSE Ends(7) /\ UNCHANGED engine
  /\ UNCHANGED <<inputs, process, failed, address>>

(* The second program starts where the first one started. *)
RunNext ==
  /\ pc = "over" /\ program = "check"
  /\ program' = "run" /\ pc' = "read" /\ line' = 0
  /\ env' = caller /\ assigned' = {}
  /\ UNCHANGED <<inputs, machine, failed, engine, address, status>>

Next ==
  \/ ReadLine \/ EndOfFile \/ Require \/ Script \/ LoadSettings
  \/ ObserveThePlane \/ ObserveTheModel \/ ObserveTheRoom
  \/ BuildModel \/ RunNext

Spec == Init /\ [][Next]_vars

-----------------------------------------------------------------------------
TypeOK ==
  /\ program \in Programs
  /\ pc \in {"read", "require", "script", "settings", "observe", "model", "room", "over"}
  /\ line \in 0..Len(file)
  /\ \A n \in Names : env[n] \in Values[n] \cup {Unset}
  /\ assigned \subseteq Names
  /\ failed \in BOOLEAN /\ engine \in {"none", "transcript", "model"}
  /\ status \in [Programs -> {NoStatus, 0, 1, 4, 7}]
  /\ \A part \in Parts : Cardinality(machine[part]) <= 1

(* A name has the value the caller gave it, a blank one included; or else the
   first the file gives it; after every line read, in every program.         *)
CallerThenFirstLine ==
  \A n \in Names :
    env[n] = IF caller[n] # Unset THEN caller[n] ELSE First(SubSeq(file, 1, line), n)

(* A reader who used the start script and names no socket sets nothing: the
   script that starts it, the script that runs a take and the settings that
   check it come to one address, as long as no directory ends in blanks.     *)
Padded(name) == env[name] # Unset /\ env[name].padded
OneAddress ==
  /\ pc # "read"
  /\ ~Given(env["SAYFIRST_SOCKET"])
  /\ ~Padded("SAYFIRST_DEMO_RUN") /\ ~Padded("XDG_RUNTIME_DIR")
  => \A p \in Programs : address[p] \in {NoAddress, StartAddress}

(* READY is worth something: what the check found ready starts, on the same
   machine, if the boundary is there, the socket's name has no blanks and the
   endpoint, which the check asks without a key, takes the key there is.     *)
ReadyStarts ==
  program = "run" /\ pc = "over" /\ status["check"] = 0 =>
    \/ status["run"] = 0
    \/ \A installed \in machine["installed"] : "boundary" \notin installed
    \/ Padded("SAYFIRST_SOCKET")
    \/ Keyed /\ \E endpoint \in machine["endpoint"] : ~endpoint.takesTheKey

(* No fallback: a transcript plays only where nobody asked for anything else,
   and a model reasons only where its endpoint answered, the key it was given
   included.                                                                 *)
NothingIsSubstituted ==
  /\ engine = "transcript" => env["MODEL_MODE"] = Unset \/ env["MODEL_MODE"].word = "fixture"
  /\ engine = "model" =>
       /\ env["MODEL_MODE"].word = "real"
       /\ \E endpoint \in machine["endpoint"] :
            IF env["MODEL_API_KEY"] = Unset \/ env["MODEL_API_KEY"].word = NoWord
            THEN endpoint.listing # "no answer" ELSE endpoint.takesTheKey
=============================================================================
