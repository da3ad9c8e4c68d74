---------------------------- MODULE StartupProofs ----------------------------
(***************************************************************************)
(* What a name is given, and where that leads, proved for any caller, any  *)
(* file and any values.                                                    *)
(***************************************************************************)
EXTENDS Startup, WellFoundedInduction, SequenceTheorems, FiniteSetTheorems, TLAPS

(* Among some lines there is a first one, and it is the one that is chosen. *)
LEMMA LeastLine ==
  ASSUME NEW at, at \subseteq Nat, at # {}
  PROVE  \E i \in at : \A j \in at : i <= j
<1>1. PICK i \in at : \A j \in at : ~ (<<j, i>> \in OpToRel(<, Nat))
  BY NatLessThanWellFounded, WFMin
<1>2. \A j \in at : ~ (j < i)
  BY <1>1 DEF OpToRel
<1> QED
  BY <1>2

LEMMA FirstIsLeast ==
  ASSUME NEW lines, Len(lines) \in Nat, NEW name,
         NEW i \in 1..Len(lines), lines[i].name = name,
         \A j \in 1..(i - 1) : lines[j].name # name
  PROVE  First(lines, name) = lines[i].value
<1> DEFINE at == {k \in 1..Len(lines) : lines[k].name = name}
<1>1. i \in at /\ \A j \in at : i <= j
  OBVIOUS
<1>2. \A k \in at : (\A j \in at : k <= j) => k = i
  BY <1>1
<1>3. (CHOOSE k \in at : \A j \in at : k <= j) = i
  BY <1>1, <1>2
<1> QED
  BY <1>1, <1>3 DEF First

(* One more line gives a name its value only if no earlier line did. *)
LEMMA OneMoreLine ==
  ASSUME NEW S, NEW lines \in Seq(S), NEW k \in 0..(Len(lines) - 1), NEW name
  PROVE  /\ (\A i \in 1..k : lines[i].name # name) =>
              /\ First(SubSeq(lines, 1, k), name) = Unset
              /\ First(SubSeq(lines, 1, k + 1), name) =
                   IF lines[k + 1].name = name THEN lines[k + 1].value ELSE Unset
         /\ (\E i \in 1..k : lines[i].name = name) =>
              First(SubSeq(lines, 1, k + 1), name) = First(SubSeq(lines, 1, k), name)
<1>1. ASSUME NEW n \in {k, k + 1}
      PROVE  /\ Len(SubSeq(lines, 1, n)) = n
             /\ \A i \in 1..n : SubSeq(lines, 1, n)[i] = lines[i]
  <2>1. n \in 0..Len(lines) /\ n \in Nat
    BY <1>1
  <2>2. \A i \in 1..n : lines[i] \in S
    BY <2>1
  <2>3. /\ Len(SubSeq(lines, 1, n)) = IF 1 <= n THEN n - 1 + 1 ELSE 0
        /\ \A i \in 1..(n - 1 + 1) : SubSeq(lines, 1, n)[i] = lines[1 + i - 1]
    BY <2>1, <2>2, SubSeqProperties
  <2>4. n - 1 + 1 = n /\ \A i \in 1..n : 1 + i - 1 = i
    BY <2>1
  <2> QED
    BY <2>1, <2>3, <2>4
<1>2. ASSUME \A i \in 1..k : lines[i].name # name
      PROVE  /\ First(SubSeq(lines, 1, k), name) = Unset
             /\ First(SubSeq(lines, 1, k + 1), name) =
                  IF lines[k + 1].name = name THEN lines[k + 1].value ELSE Unset
  <2>1. First(SubSeq(lines, 1, k), name) = Unset
    BY <1>1, <1>2 DEF First
  <2>2. CASE lines[k + 1].name = name
    <3> DEFINE longer == SubSeq(lines, 1, k + 1)
    <3>1. /\ Len(longer) = k + 1 /\ Len(longer) \in Nat /\ k + 1 \in 1..Len(longer)
          /\ longer[k + 1] = lines[k + 1] /\ longer[k + 1].name = name
          /\ \A j \in 1..((k + 1) - 1) : longer[j].name # name
      BY <1>1, <1>2, <2>2
    <3>2. First(longer, name) = longer[k + 1].value
      <4> HIDE DEF longer
      <4> QED
        BY <3>1, FirstIsLeast
    <3> QED
      BY <2>1, <2>2, <3>1, <3>2
  <2>3. CASE lines[k + 1].name # name
    BY <1>1, <1>2, <2>1, <2>3 DEF First
  <2> QED
    BY <2>2, <2>3
<1>3. ASSUME \E i \in 1..k : lines[i].name = name
      PROVE  First(SubSeq(lines, 1, k + 1), name) = First(SubSeq(lines, 1, k), name)
  <2> DEFINE at == {i \in 1..k : lines[i].name = name}
  <2>1. \E i \in at : \A j \in at : i <= j
    <3>1. at \subseteq Nat /\ at # {}
      BY <1>3
    <3> QED
      BY <3>1, LeastLine
  <2>2. PICK i \in 1..k : lines[i].name = name /\ \A j \in 1..(i - 1) : lines[j].name # name
    BY <2>1
  <2>3. ASSUME NEW n \in {k, k + 1}
        PROVE  First(SubSeq(lines, 1, n), name) = lines[i].value
    <3> DEFINE some == SubSeq(lines, 1, n)
    <3>1. /\ Len(some) \in Nat /\ i \in 1..Len(some)
          /\ some[i] = lines[i] /\ some[i].name = name
          /\ \A j \in 1..(i - 1) : some[j].name # name
      BY <1>1, <2>2, <2>3
    <3>2. First(some, name) = some[i].value
      <4> HIDE DEF some
      <4> QED
        BY <3>1, FirstIsLeast
    <3> QED
      BY <3>1, <3>2
  <2> QED
    BY <2>3
<1> QED
  BY <1>2, <1>3

LEMMA NoLines == ASSUME NEW name PROVE First(<<>>, name) = Unset
  BY DEF First

(* What a file gives a name is a value of that name. *)
LEMMA FirstIsAValue ==
  ASSUME NEW lines \in Seq(Line), NEW name \in Names
  PROVE  First(lines, name) \in Values[name] \cup {Unset}
<1> DEFINE at == {i \in 1..Len(lines) : lines[i].name = name}
<1>1. CASE at = {}
  BY <1>1 DEF First
<1>2. CASE at # {}
  <2>1. at \subseteq Nat
    OBVIOUS
  <2>2. \E i \in at : \A j \in at : i <= j
    BY <1>2, <2>1, LeastLine
  <2>3. PICK i \in at : First(lines, name) = lines[i].value
    BY <1>2, <2>2 DEF First
  <2>4. lines[i] \in Line /\ lines[i].name = name
    BY <2>3
  <2>5. lines[i] \in Assignment
    BY <2>4, StartupAssumption DEF Line, NotAnAssignment
  <2>6. PICK n \in Names : lines[i] \in [name : {n}, value : Values[n]]
    BY <2>5 DEF Assignment
  <2> QED
    BY <2>3, <2>4, <2>6
<1> QED
  BY <1>1, <1>2

-----------------------------------------------------------------------------
(***************************************************************************)
(* Reading the file.                                                       *)
(***************************************************************************)
(* What a program has read, and what it makes of it; a program past reading
   has read it all.                                                          *)
ReadInv ==
  /\ file \in Seq(Line) /\ line \in 0..Len(file)
  /\ pc # "read" => line = Len(file)
  /\ caller = [n \in Names |-> caller[n]]
  /\ \A n \in Names : caller[n] \in Values[n] \cup {Unset}
  /\ env = [n \in Names |-> env[n]]
  /\ assigned = {n \in Names : \E i \in 1..line : file[i].name = n}
  /\ CallerThenFirstLine

LEMMA InitRead == Init => ReadInv
<1> SUFFICES ASSUME Init PROVE ReadInv
  OBVIOUS
<1>1. file \in Seq(Line)
  <2>1. MaxLines \in Nat
    BY StartupAssumption
  <2> QED
    BY <2>1 DEF Init
<1>2. PICK given \in UNION {[1..k -> Assignment] : k \in 0..MaxCaller} :
        caller = [n \in Names |-> First(given, n)]
  BY DEF Init
<1>3. given \in Seq(Line)
  BY StartupAssumption DEF Line
<1>4. \A n \in Names : caller[n] \in Values[n] \cup {Unset}
  BY <1>2, <1>3, FirstIsAValue
<1>5. CallerThenFirstLine
  <2>1. SubSeq(file, 1, 0) = <<>>
    BY SubSeqEmpty
  <2> QED
    BY <2>1, NoLines DEF Init, CallerThenFirstLine
<1>6. line = 0 /\ 0 \in 0..Len(file)
  BY <1>1 DEF Init
<1> QED
  BY <1>1, <1>2, <1>4, <1>5, <1>6 DEF Init, ReadInv

LEMMA ReadingStep == ReadInv /\ ReadLine => ReadInv'
<1> SUFFICES ASSUME ReadInv, ReadLine PROVE ReadInv'
  OBVIOUS
<1> DEFINE read == file[line + 1]
<1>1. /\ file' = file /\ caller' = caller /\ pc = "read" /\ pc' = pc
      /\ line' = line + 1 /\ line \in 0..(Len(file) - 1) /\ line' \in 0..Len(file)
      /\ read \in Line
  BY DEF ReadLine, ReadInv, inputs
<1>2. read.name = "none" \/ read.name \in Names
  BY <1>1 DEF Line, Assignment, NotAnAssignment
<1>3. assigned' = {n \in Names : \E i \in 1..line' : file[i].name = n}
  <2>1. \A n : (\E i \in 1..line' : file[i].name = n) <=>
               (\E i \in 1..line : file[i].name = n) \/ read.name = n
    BY <1>1
  <2>2. CASE read.name = "none" \/ read.name \in assigned
    <3>1. assigned' = assigned
      BY <2>2 DEF ReadLine
    <3>2. \A n \in Names : read.name = n => \E i \in 1..line : file[i].name = n
      <4>1. read.name \in Names => read.name \in assigned
        BY <2>2, StartupAssumption
      <4> QED
        BY <4>1 DEF ReadInv
    <3>3. assigned = {n \in Names : \E i \in 1..line : file[i].name = n}
      BY DEF ReadInv
    <3> HIDE DEF read
    <3> QED
      BY <2>1, <3>1, <3>2, <3>3
  <2>3. CASE ~(read.name = "none" \/ read.name \in assigned)
    <3>1. assigned' = assigned \cup {read.name}
      BY <2>3 DEF ReadLine
    <3> QED
      BY <1>2, <2>1, <2>3, <3>1 DEF ReadInv
  <2> QED
    BY <2>2, <2>3
<1>4. env' = [n \in Names |-> env'[n]]
  BY DEF ReadLine, ReadInv
<1>5. ASSUME NEW n \in Names
      PROVE  env'[n] = IF caller[n] # Unset THEN caller[n] ELSE First(SubSeq(file, 1, line + 1), n)
  <2>1. env[n] = IF caller[n] # Unset THEN caller[n] ELSE First(SubSeq(file, 1, line), n)
    BY DEF ReadInv, CallerThenFirstLine
  <2>2. CASE n \in assigned
    <3>1. First(SubSeq(file, 1, line + 1), n) = First(SubSeq(file, 1, line), n)
      BY <1>1, <2>2, OneMoreLine DEF ReadInv
    <3>2. env'[n] = env[n]
      BY <2>2 DEF ReadLine, ReadInv
    <3> QED
      BY <2>1, <3>1, <3>2
  <2>3. CASE n \notin assigned
    <3>0. \A i \in 1..line : file[i].name # n
      BY <2>3 DEF ReadInv
    <3>1. /\ First(SubSeq(file, 1, line), n) = Unset
          /\ First(SubSeq(file, 1, line + 1), n) = IF read.name = n THEN read.value ELSE Unset
      BY <1>1, <3>0, OneMoreLine DEF ReadInv
    <3>2. CASE read.name = n
      <4>1. env' = IF env[n] = Unset THEN [env EXCEPT ![n] = read.value] ELSE env
        BY <2>3, <3>2, StartupAssumption DEF ReadLine
      <4> QED
        BY <2>1, <3>1, <3>2, <4>1 DEF ReadInv
    <3>3. CASE read.name # n
      <4>1. env'[n] = env[n]
        BY <3>3 DEF ReadLine, ReadInv
      <4> QED
        BY <2>1, <3>1, <3>3, <4>1
    <3> QED
      BY <3>2, <3>3
  <2> QED
    BY <2>2, <2>3
<1> QED
  BY <1>1, <1>3, <1>4, <1>5 DEF ReadInv, CallerThenFirstLine

LEMMA ReadStep == ReadInv /\ [Next]_vars => ReadInv'
<1> SUFFICES ASSUME ReadInv, [Next]_vars PROVE ReadInv'
  OBVIOUS
<1>1. CASE ReadLine
  BY <1>1, ReadingStep
<1>2. CASE RunNext
  <2>1. SubSeq(file, 1, 0) = <<>>
    BY SubSeqEmpty
  <2>2. file' = file /\ caller' = caller /\ env' = caller /\ line' = 0 /\ assigned' = {} /\ pc' = "read"
    BY <1>2 DEF RunNext, inputs
  <2>3. CallerThenFirstLine'
    BY <2>1, <2>2, NoLines DEF CallerThenFirstLine
  <2>4. 0 \in 0..Len(file)
    BY DEF ReadInv
  <2> QED
    BY <2>2, <2>3, <2>4 DEF ReadInv
<1>3. CASE EndOfFile
  BY <1>3 DEF EndOfFile, Goes, inputs, process, ReadInv, CallerThenFirstLine
<1>4. CASE Require \/ Script \/ LoadSettings \/ ObserveThePlane \/ ObserveTheModel
           \/ ObserveTheRoom \/ BuildModel
  <2>1. pc # "read" /\ UNCHANGED <<inputs, process>>
    BY <1>4 DEF Require, Script, LoadSettings, ObserveThePlane, ObserveTheModel, ObserveTheRoom,
                BuildModel
  <2> QED
    BY <2>1 DEF ReadInv, CallerThenFirstLine, inputs, process
<1>5. CASE UNCHANGED vars
  BY <1>5 DEF vars, inputs, process, ReadInv, CallerThenFirstLine
<1> QED
  BY <1>1, <1>2, <1>3, <1>4, <1>5 DEF Next

(* What nobody has named, and the first assignment of a name only: after any
   number of lines, in both programs.                                        *)
THEOREM CallerWins == Spec => []CallerThenFirstLine
<1>1. ReadInv => CallerThenFirstLine
  BY DEF ReadInv
<1> QED
  BY InitRead, ReadStep, <1>1, PTL DEF Spec

-----------------------------------------------------------------------------
(***************************************************************************)
(* The address.                                                            *)
(***************************************************************************)
(* Without blanks, the settings' reading of a value is the shell's. *)
LEMMA StripChangesNothing ==
  ASSUME NEW n \in Names, NEW value \in Values[n] \cup {Unset}, value = Unset \/ ~value.padded
  PROVE  Strip(value) = value
BY StartupAssumption DEF Strip

(* What both programs are heading for once they have read the file. *)
Destination(n) == IF caller[n] # Unset THEN caller[n] ELSE First(file, n)

LEMMA ReadToTheEnd ==
  ASSUME ReadInv, pc # "read", NEW n \in Names
  PROVE  env[n] = Destination(n) /\ env[n] \in Values[n] \cup {Unset}
<1>1. SubSeq(file, 1, line) = file
  BY SubSeqFull DEF ReadInv
<1>2. env[n] = Destination(n)
  BY <1>1 DEF ReadInv, CallerThenFirstLine, Destination
<1>3. First(file, n) \in Values[n] \cup {Unset}
  BY FirstIsAValue DEF ReadInv
<1> QED
  BY <1>2, <1>3 DEF ReadInv, Destination

(* The reader such an address is promised to. *)
NamesNoSocket ==
  /\ ~Given(Destination("SAYFIRST_SOCKET"))
  /\ Destination("SAYFIRST_DEMO_RUN") = Unset \/ ~Destination("SAYFIRST_DEMO_RUN").padded
  /\ Destination("XDG_RUNTIME_DIR") = Unset \/ ~Destination("XDG_RUNTIME_DIR").padded
TheAddress == Bound(Destination("SAYFIRST_DEMO_RUN"), Destination("XDG_RUNTIME_DIR"))
AddressInv ==
  /\ address = [p \in Programs |-> address[p]]
  /\ NamesNoSocket => \A p \in Programs : address[p] \in {NoAddress, TheAddress}

LEMMA OneBound ==
  ASSUME ReadInv, pc # "read"
  PROVE  /\ StartAddress = TheAddress
         /\ NamesNoSocket => SettingsAddress = TheAddress /\ ScriptAddress = TheAddress
                             /\ ExportedAddress = TheAddress
<1> DEFINE socket == "SAYFIRST_SOCKET"
           directory == "SAYFIRST_DEMO_RUN"
           runtime == "XDG_RUNTIME_DIR"
<1>1. socket \in Names /\ directory \in Names /\ runtime \in Names
  BY StartupAssumption
<1>2. \A n \in Names : env[n] = Destination(n) /\ env[n] \in Values[n] \cup {Unset}
  BY ReadToTheEnd
<1>3. StartAddress = TheAddress
  BY <1>1, <1>2 DEF StartAddress, TheAddress, Raw
<1>4. ASSUME NamesNoSocket
      PROVE  SettingsAddress = TheAddress /\ ScriptAddress = TheAddress /\ ExportedAddress = TheAddress
  <2>1. Stripped(directory) = Raw(directory) /\ Stripped(runtime) = Raw(runtime)
    BY <1>1, <1>2, <1>4, StripChangesNothing DEF Stripped, Raw, NamesNoSocket
  <2>2. ~Given(Raw(socket))
    BY <1>1, <1>2, <1>4 DEF Raw, NamesNoSocket
  <2>3. ~Given(Stripped(socket))
    <3>1. Strip(Unset) = Unset
      BY DEF Strip
    <3>2. Strip(Empty) \in {Unset, Empty}
      BY DEF Strip, Empty
    <3> QED
      BY <2>2, <3>1, <3>2 DEF Stripped, Raw, Given
  <2>4. SettingsAddress = StartAddress
    BY <2>1, <2>3 DEF SettingsAddress, StartAddress
  <2>5. ScriptAddress = StartAddress
    BY <2>2 DEF ScriptAddress
  <2>6. StartAddress.kind # "socket"
    BY DEF StartAddress, Bound
  <2> QED
    BY <1>3, <2>4, <2>5, <2>6 DEF ExportedAddress
<1> QED
  BY <1>3, <1>4

LEMMA AddressStep == AddressInv /\ ReadInv /\ [Next]_vars => AddressInv'
<1> SUFFICES ASSUME AddressInv, ReadInv, [Next]_vars PROVE AddressInv'
  OBVIOUS
<1>1. NamesNoSocket' = NamesNoSocket /\ TheAddress' = TheAddress
  BY DEF Next, vars, inputs, ReadLine, EndOfFile, Require, Script, LoadSettings, ObserveThePlane,
         ObserveTheModel, ObserveTheRoom, BuildModel, RunNext, NamesNoSocket, TheAddress, Destination
<1>2. CASE Script
  <2>1. pc # "read" /\ address' = [address EXCEPT !["run"] = ScriptAddress]
    BY <1>2 DEF Script
  <2> QED
    BY <1>1, <2>1, OneBound DEF AddressInv
<1>3. CASE LoadSettings
  <2>1. pc # "read"
        /\ address' = [address EXCEPT ![program] =
                         IF program = "check" THEN SettingsAddress ELSE ExportedAddress]
    BY <1>3 DEF LoadSettings
  <2> QED
    BY <1>1, <2>1, OneBound DEF AddressInv
<1>4. CASE UNCHANGED address
  BY <1>1, <1>4 DEF AddressInv
<1>5. Script \/ LoadSettings \/ UNCHANGED address
  BY DEF Next, vars, ReadLine, EndOfFile, Require, ObserveThePlane, ObserveTheModel, ObserveTheRoom,
         BuildModel, RunNext
<1> QED
  BY <1>2, <1>3, <1>4, <1>5

(* A reader who names no socket is sent to one by the start script, by the
   settings and by the run script alike, whatever the file says.             *)
THEOREM AddressesAgree == Spec => []OneAddress
<1>1. Init => AddressInv
  BY DEF Init, AddressInv
<1>2. AddressInv /\ ReadInv => OneAddress
  <2> SUFFICES ASSUME AddressInv, ReadInv, pc # "read", ~Given(env["SAYFIRST_SOCKET"]),
                      ~Padded("SAYFIRST_DEMO_RUN"), ~Padded("XDG_RUNTIME_DIR")
               PROVE  \A p \in Programs : address[p] \in {NoAddress, StartAddress}
    BY DEF OneAddress
  <2>1. NamesNoSocket
    BY StartupAssumption, ReadToTheEnd DEF NamesNoSocket, Padded
  <2> QED
    BY <2>1, OneBound DEF AddressInv
<1> QED
  BY InitRead, ReadStep, AddressStep, <1>1, <1>2, PTL DEF Spec

-----------------------------------------------------------------------------
(***************************************************************************)
(* The engine.                                                             *)
(***************************************************************************)
(* An engine is named by the last step of the last program, and both what it
   was chosen by and what was found stay as they were.                       *)
EngineInv ==
  /\ machine = [part \in Parts |-> machine[part]]
  /\ engine # "none" => pc = "over" /\ program = "run"
  /\ pc \in {"observe", "model"} => Usable
  /\ NothingIsSubstituted

LEMMA ModeIsItsWord ==
  ASSUME ReadInv, pc # "read", Usable
  PROVE  /\ Mode \in {"fixture", "real"}
         /\ Mode = "fixture" => env["MODEL_MODE"] = Unset \/ env["MODEL_MODE"].word = "fixture"
         /\ Mode = "real" => env["MODEL_MODE"].word = "real"
<1>1. env["MODEL_MODE"] \in Values["MODEL_MODE"] \cup {Unset}
  BY StartupAssumption, ReadToTheEnd
<1>2. CASE env["MODEL_MODE"] = Unset
  BY <1>2 DEF Usable, Mode
<1>3. CASE env["MODEL_MODE"] # Unset
  <2>1. Strip(env["MODEL_MODE"]).word = env["MODEL_MODE"].word
    BY <1>1, <1>3, StartupAssumption DEF Strip
  <2> QED
    BY <1>3, <2>1 DEF Usable, Mode, Stripped
<1> QED
  BY <1>2, <1>3

LEMMA KeyIsItsWord ==
  ASSUME ReadInv, pc # "read"
  PROVE  Keyed <=> ~(env["MODEL_API_KEY"] = Unset \/ env["MODEL_API_KEY"].word = NoWord)
<1> DEFINE key == env["MODEL_API_KEY"]
<1>1. key \in Values["MODEL_API_KEY"] \cup {Unset}
  BY StartupAssumption, ReadToTheEnd
<1>2. CASE key = Unset
  BY <1>2 DEF Keyed, Stripped, Strip, Given
<1>3. CASE key # Unset
  <2>1. key = [word |-> key.word, padded |-> key.padded]
    BY <1>1, <1>3, StartupAssumption
  <2>2. Strip(key) = [word |-> key.word, padded |-> FALSE]
    BY <1>3, <2>1 DEF Strip
  <2>3. Strip(key) # Unset
    BY <1>1, <1>3, StartupAssumption DEF Strip
  <2>4. key.word = NoWord => Strip(key) = Empty
    BY <2>2 DEF Empty
  <2>5. Strip(key) = Empty => key.word = NoWord
    <3>1. Strip(key).word = key.word
      BY <2>2
    <3>2. Empty.word = NoWord
      BY DEF Empty
    <3> QED
      BY <3>1, <3>2
  <2> QED
    BY <1>3, <2>3, <2>4, <2>5 DEF Keyed, Stripped, Given
<1> QED
  BY <1>2, <1>3

LEMMA EngineStep == EngineInv /\ ReadInv /\ [Next]_vars => EngineInv'
<1> SUFFICES ASSUME EngineInv, ReadInv, [Next]_vars PROVE EngineInv'
  OBVIOUS
<1>1. machine' = [part \in Parts |-> machine'[part]]
  BY DEF EngineInv, Next, vars, ReadLine, EndOfFile, Require, Script, LoadSettings, ObserveThePlane,
         ObserveTheModel, ObserveTheRoom, BuildModel, RunNext, Finds
<1>2. CASE BuildModel
  <2>1. pc = "model" /\ program = "run" /\ env' = env /\ program' = program /\ Usable
    BY <1>2 DEF BuildModel, process, EngineInv
  <2>2. /\ Mode \in {"fixture", "real"}
        /\ Mode = "fixture" => env["MODEL_MODE"] = Unset \/ env["MODEL_MODE"].word = "fixture"
        /\ Mode = "real" => env["MODEL_MODE"].word = "real"
    BY <2>1, ModeIsItsWord
  <2>3. engine = "none" /\ pc' = "over"
    BY <1>2, <2>1 DEF BuildModel, Ends, EngineInv
  <2>4. CASE Mode = "fixture"
    BY <1>1, <1>2, <2>1, <2>2, <2>3, <2>4 DEF BuildModel, EngineInv, NothingIsSubstituted
  <2>5. CASE Mode # "fixture"
    <3>1. PICK endpoint \in Endpoints :
            /\ Finds("endpoint", endpoint, Endpoints)
            /\ IF Answers(endpoint) THEN engine' = "model" /\ Ends(0)
               ELSE Ends(7) /\ UNCHANGED engine
      BY <1>2, <2>5 DEF BuildModel
    <3>2. machine'["endpoint"] = {endpoint}
      BY <3>1 DEF Finds, Parts, EngineInv
    <3>3. CASE ~Answers(endpoint)
      <4>1. engine' = "none"
        BY <2>3, <3>1, <3>3
      <4> QED
        BY <1>1, <2>1, <2>2, <2>3, <4>1 DEF EngineInv, NothingIsSubstituted
    <3>4. CASE Answers(endpoint)
      <4>1. engine' = "model"
        BY <3>1, <3>4
      <4>2. IF env["MODEL_API_KEY"] = Unset \/ env["MODEL_API_KEY"].word = NoWord
            THEN endpoint.listing # "no answer" ELSE endpoint.takesTheKey
        BY <2>1, <3>4, KeyIsItsWord DEF Answers
      <4> QED
        BY <1>1, <2>1, <2>2, <2>3, <2>5, <3>2, <4>1, <4>2 DEF EngineInv, NothingIsSubstituted
    <3> QED
      BY <3>3, <3>4
  <2> QED
    BY <2>4, <2>5
<1>3. CASE ~BuildModel /\ UNCHANGED vars
  BY <1>1, <1>3 DEF vars, process, EngineInv, NothingIsSubstituted, Usable, Mode, Stripped, Given
<1>4. CASE ~BuildModel /\ ~UNCHANGED vars
  <2>1. engine' = engine
    BY <1>4 DEF Next, ReadLine, EndOfFile, Require, Script, LoadSettings, ObserveThePlane,
                ObserveTheModel, ObserveTheRoom, RunNext
  <2>2. engine = "none"
    BY <1>4 DEF Next, ReadLine, EndOfFile, Require, Script, LoadSettings, ObserveThePlane,
                ObserveTheModel, ObserveTheRoom, RunNext, EngineInv
  <2>3. pc' \in {"observe", "model"} => Usable'
    <3>1. CASE LoadSettings
      BY <3>1 DEF LoadSettings, Ends, Goes, process, Usable, Mode, Stripped, Given
    <3>2. CASE ObserveThePlane
      BY <3>2 DEF ObserveThePlane, EngineInv, process, Usable, Mode, Stripped, Given
    <3>3. CASE ~LoadSettings /\ ~ObserveThePlane
      BY <1>4, <3>3 DEF Next, ReadLine, EndOfFile, Require, Script, ObserveTheModel, ObserveTheRoom,
                        RunNext, Ends, Goes
    <3> QED
      BY <3>1, <3>2, <3>3
  <2> QED
    BY <1>1, <2>1, <2>2, <2>3 DEF EngineInv, NothingIsSubstituted
<1> QED
  BY <1>2, <1>3, <1>4

(* No mode, no blank in it and no endpoint makes a transcript of what was asked
   to be a model, or a model of an endpoint that did not answer.             *)
THEOREM NoFallback == Spec => []NothingIsSubstituted
<1>1. Init => EngineInv
  BY DEF Init, EngineInv, NothingIsSubstituted
<1>2. EngineInv => NothingIsSubstituted
  BY DEF EngineInv
<1> QED
  BY InitRead, ReadStep, EngineStep, <1>1, <1>2, PTL DEF Spec

-----------------------------------------------------------------------------
(***************************************************************************)
(* READY.                                                                  *)
(***************************************************************************)
(* Both programs read the same environment to the end: what the operators of
   Startup are of that environment, whoever has it.                          *)
FinalEnv == [n \in Names |-> Destination(n)]
Final == INSTANCE Startup WITH env <- FinalEnv

(* What the check has established at each of its stages, and leaves behind
   when it ends with READY.                                                  *)
CheckIsPast(stages) == (program = "check" /\ pc \in stages) \/ status["check"] = 0
Established ==
  /\ CheckIsPast({"observe", "model", "room"}) =>
       Final!Usable /\ Final!ANumber /\ address["check"] = Final!SettingsAddress
  /\ CheckIsPast({"model", "room"}) =>
       \E d \in Final!Daemons : machine["daemon"] = {d} /\ d.at = Final!SettingsAddress
  /\ (program = "check" /\ pc = "room" /\ ~failed) \/ status["check"] = 0 =>
       \/ Final!Mode = "fixture"
       \/ \E e : machine["endpoint"] = {e} /\ e.listing = "with it"
ReadyInv ==
  /\ machine = [part \in Parts |-> machine[part]]
  /\ address = [p \in Programs |-> address[p]]
  /\ status = [p \in Programs |-> status[p]]
  /\ program \in Programs
  /\ program = "check" /\ pc # "over" => status["check"] = NoStatus
  /\ pc = "script" => program = "run"
  /\ pc \in {"observe", "room"} => program = "check"
  /\ Established
  /\ ReadyStarts

LEMMA ReadWhole ==
  ASSUME ReadInv, pc # "read"
  PROVE  env = FinalEnv
<1>1. \A n \in Names : env[n] = Destination(n)
  BY ReadToTheEnd
<1> QED
  BY <1>1 DEF ReadInv, FinalEnv

LEMMA FinalStays == [Next]_vars => UNCHANGED FinalEnv
  BY DEF Next, vars, inputs, ReadLine, EndOfFile, Require, Script, LoadSettings, ObserveThePlane,
         ObserveTheModel, ObserveTheRoom, BuildModel, RunNext, FinalEnv, Destination

(* Read to the end, a program's operators are the environment's. *)
LEMMA SameReading ==
  ASSUME env = FinalEnv
  PROVE  /\ Usable = Final!Usable /\ ANumber = Final!ANumber /\ Mode = Final!Mode
         /\ SettingsAddress = Final!SettingsAddress /\ Daemons = Final!Daemons
<1>1. /\ \A name : Raw(name) = Final!Raw(name) /\ Stripped(name) = Final!Stripped(name)
      /\ \A value : Given(value) = Final!Given(value)
  BY DEF Raw, Stripped, Given, Strip, Empty, Final!Raw, Final!Stripped, Final!Given, Final!Strip,
         Final!Empty
<1>2. \A d, r : Bound(d, r) = Final!Bound(d, r)
  BY DEF Bound, Given, Empty, Final!Bound, Final!Given, Final!Empty
<1>3. StartAddress = Final!StartAddress /\ SettingsAddress = Final!SettingsAddress
  BY <1>1, <1>2 DEF StartAddress, SettingsAddress, Final!StartAddress, Final!SettingsAddress
<1>4. Mode = Final!Mode
  BY <1>1 DEF Mode, Final!Mode
<1>5. Usable = Final!Usable /\ ANumber = Final!ANumber
  BY <1>1, <1>4 DEF Usable, ANumber, Final!Usable, Final!ANumber
<1>6. Daemons = Final!Daemons
  BY <1>3 DEF Daemons, NoAddress, Strip, Final!Daemons, Final!NoAddress, Final!Strip
<1> QED
  BY <1>3, <1>4, <1>5, <1>6

LEMMA FinalReadingStays ==
  ASSUME UNCHANGED FinalEnv
  PROVE  UNCHANGED <<Final!Usable, Final!ANumber, Final!Mode, Final!SettingsAddress, Final!Daemons>>
BY DEF Final!Usable, Final!ANumber, Final!Mode, Final!SettingsAddress, Final!Daemons, Final!Stripped,
       Final!Raw, Final!Given, Final!Empty, Final!Strip, Final!Bound, Final!StartAddress,
       Final!NoAddress

(* The daemon the check asked is where the run script looks. *)
LEMMA SameSocket ==
  ASSUME ReadInv, pc # "read", ~Padded("SAYFIRST_SOCKET"),
         NEW d \in Daemons, d.at = SettingsAddress
  PROVE  d.at = ScriptAddress
<1> DEFINE socket == "SAYFIRST_SOCKET"
<1>1. socket \in Names /\ env[socket] \in Values[socket] \cup {Unset}
  BY StartupAssumption, ReadToTheEnd
<1>2. Stripped(socket) = Raw(socket)
  BY <1>1, StripChangesNothing DEF Stripped, Raw, Padded
<1>3. CASE Given(Stripped(socket))
  BY <1>2, <1>3 DEF SettingsAddress, ScriptAddress
<1>4. CASE ~Given(Stripped(socket))
  <2>1. ScriptAddress = StartAddress
    BY <1>2, <1>4 DEF ScriptAddress
  <2>2. SettingsAddress.kind \in {"run", "runtime", "home"}
    BY <1>4 DEF SettingsAddress, Bound
  <2>3. d.at \in {StartAddress, NoAddress} \/ d.at.kind = "socket"
    BY DEF Daemons
  <2> QED
    BY <2>1, <2>2, <2>3 DEF NoAddress
<1> QED
  BY <1>3, <1>4

(* Outside the stages of the check, what it has established stays: a part of
   the machine that was looked at is found as it was.                        *)
LEMMA EstablishedStays ==
  ASSUME ReadyInv, UNCHANGED FinalEnv,
         ~(program' = "check" /\ pc' \in {"observe", "model", "room"}),
         status'["check"] = status["check"], address'["check"] = address["check"],
         status["check"] = 0 => /\ machine'["daemon"] = machine["daemon"]
                                /\ machine'["endpoint"] = machine["endpoint"]
  PROVE  Established'
<1>1. UNCHANGED <<Final!Usable, Final!ANumber, Final!Mode, Final!SettingsAddress, Final!Daemons>>
  BY FinalReadingStays
<1> QED
  BY <1>1 DEF ReadyInv, Established, CheckIsPast

(* Nor is anything established by a check that ends with another status. *)
LEMMA NothingEstablished ==
  ASSUME program' = "check", pc' = "over", status'["check"] # 0
  PROVE  Established'
BY DEF Established, CheckIsPast

(* A part that was looked at is found as it was. *)
LEMMA FoundAgain ==
  ASSUME ReadyInv, NEW part \in Parts, NEW x, machine[part] = {x}, NEW finding, NEW findings,
         Finds(part, finding, findings)
  PROVE  finding = x /\ machine' = machine
<1>1. finding = x
  BY DEF Finds
<1> QED
  BY <1>1 DEF Finds, ReadyInv

LEMMA FoundNow ==
  ASSUME ReadyInv, NEW part \in Parts, NEW finding, NEW findings, Finds(part, finding, findings)
  PROVE  /\ machine' = [q \in Parts |-> machine'[q]]
         /\ machine'[part] = {finding}
         /\ \A q \in Parts \ {part} : machine'[q] = machine[q]
BY DEF Finds, ReadyInv

(* The shape of the state that goes with it. *)
Shape ==
  /\ machine = [part \in Parts |-> machine[part]]
  /\ address = [p \in Programs |-> address[p]]
  /\ status = [p \in Programs |-> status[p]]
  /\ program \in Programs
  /\ program = "check" /\ pc # "over" => status["check"] = NoStatus
  /\ pc = "script" => program = "run"
  /\ pc \in {"observe", "room"} => program = "check"

LEMMA ShapeStep == ReadyInv /\ [Next]_vars => Shape'
<1> SUFFICES ASSUME ReadyInv, [Next]_vars PROVE Shape'
  OBVIOUS
<1>1. /\ machine' = [part \in Parts |-> machine'[part]]
  BY DEF ReadyInv, Next, vars, ReadLine, EndOfFile, Require, Script, LoadSettings, ObserveThePlane,
         ObserveTheModel, ObserveTheRoom, BuildModel, RunNext, Finds
<1>2. /\ address' = [p \in Programs |-> address'[p]]
      /\ status' = [p \in Programs |-> status'[p]]
  BY DEF ReadyInv, Next, vars, ReadLine, EndOfFile, Require, Script, LoadSettings, ObserveThePlane,
         ObserveTheModel, ObserveTheRoom, BuildModel, RunNext, Ends, Goes
<1>3. /\ program' \in Programs
      /\ program' = "check" /\ pc' # "over" => status'["check"] = NoStatus
  BY DEF ReadyInv, Next, vars, process, ReadLine, EndOfFile, Require, Script, LoadSettings,
         ObserveThePlane, ObserveTheModel, ObserveTheRoom, BuildModel, RunNext, Ends, Goes, Programs
<1>4. /\ pc' = "script" => program' = "run"
      /\ pc' \in {"observe", "room"} => program' = "check"
  BY DEF ReadyInv, Next, vars, process, ReadLine, EndOfFile, Require, Script, LoadSettings,
         ObserveThePlane, ObserveTheModel, ObserveTheRoom, BuildModel, RunNext, Ends, Goes, Programs
<1> QED
  BY <1>1, <1>2, <1>3, <1>4 DEF Shape

(* The steps of either program, one by one. *)
LEMMA ReadingEstablishes ==
  ASSUME ReadyInv, UNCHANGED FinalEnv, ReadLine \/ EndOfFile \/ RunNext
  PROVE  Established' /\ ReadyStarts'
<1>1. pc' \in {"read", "require"} /\ UNCHANGED <<machine, address, status>>
  BY DEF ReadLine, EndOfFile, RunNext, Goes
<1> QED
  BY <1>1, EstablishedStays DEF ReadyStarts

LEMMA RequiringEstablishes ==
  ASSUME ReadyInv, UNCHANGED FinalEnv, Require
  PROVE  Established' /\ ReadyStarts'
<1>1. PICK installed \in Installs :
        /\ Finds("installed", installed, Installs)
        /\ IF Required \notin installed THEN Ends(7)
           ELSE Goes(IF program = "check" THEN "settings" ELSE "script")
  BY DEF Require
<1>2. /\ machine'["installed"] = {installed} /\ machine'["daemon"] = machine["daemon"]
      /\ machine'["endpoint"] = machine["endpoint"]
  BY <1>1, FoundNow DEF Parts
<1>3. program' = program /\ address' = address /\ program \in Programs
  BY DEF Require, process, ReadyInv
<1>4. CASE Required \in installed
  <2>1. pc' \in {"settings", "script"} /\ status' = status
    BY <1>1, <1>4 DEF Goes
  <2> QED
    BY <1>2, <1>3, <2>1, EstablishedStays DEF ReadyStarts
<1>5. CASE Required \notin installed
  <2>1. pc' = "over" /\ status' = [status EXCEPT ![program] = 7]
    BY <1>1, <1>5 DEF Ends
  <2>2. CASE program = "check"
    <3>1. status'["check"] = 7
      BY <2>1, <2>2 DEF ReadyInv, Programs
    <3> QED
      BY <1>3, <2>1, <2>2, <3>1, NothingEstablished DEF ReadyStarts
  <2>3. CASE program = "run"
    <3>1. status'["check"] = status["check"]
      BY <2>1, <2>3 DEF ReadyInv, Programs
    <3>2. "boundary" \notin installed
      BY <1>5, <2>3 DEF Required
    <3> QED
      BY <1>2, <1>3, <2>1, <2>3, <3>1, <3>2, EstablishedStays DEF ReadyStarts
  <2> QED
    BY <1>3, <2>2, <2>3 DEF Programs
<1> QED
  BY <1>4, <1>5

LEMMA ScriptEstablishes ==
  ASSUME ReadInv, ReadyInv, UNCHANGED FinalEnv, Script
  PROVE  Established' /\ ReadyStarts'
<1>1. PICK daemon \in Daemons :
        /\ Finds("daemon", daemon, Daemons)
        /\ IF daemon.at = ScriptAddress THEN Goes("settings") ELSE Ends(4)
  BY DEF Script
<1>2. /\ pc = "script" /\ program = "run" /\ program' = "run" /\ env' = env
      /\ address'["check"] = address["check"]
  BY DEF Script, process, ReadyInv, Programs
<1>3. machine'["endpoint"] = machine["endpoint"]
  BY <1>1, FoundNow DEF Parts
<1>4. status'["check"] = status["check"]
  BY <1>1, <1>2 DEF Goes, Ends, ReadyInv, Programs
<1>5. ASSUME status["check"] = 0
      PROVE  /\ machine'["daemon"] = machine["daemon"]
             /\ daemon \in Daemons /\ daemon.at = SettingsAddress
  <2>1. PICK d \in Final!Daemons : machine["daemon"] = {d} /\ d.at = Final!SettingsAddress
    BY <1>5 DEF ReadyInv, Established, CheckIsPast
  <2>2. daemon = d /\ machine' = machine
    BY <1>1, <2>1, FoundAgain DEF Parts
  <2>3. SettingsAddress = Final!SettingsAddress
    BY <1>2, ReadWhole, SameReading
  <2> QED
    BY <2>1, <2>2, <2>3
<1>6. ReadyStarts'
  <2> SUFFICES ASSUME pc' = "over", status'["check"] = 0, ~Padded("SAYFIRST_SOCKET")' PROVE FALSE
    BY DEF ReadyStarts
  <2>1. daemon.at # ScriptAddress
    BY <1>1 DEF Goes
  <2>2. ~Padded("SAYFIRST_SOCKET")
    BY <1>2 DEF Padded
  <2> QED
    BY <1>2, <1>4, <1>5, <2>1, <2>2, SameSocket
<1> QED
  BY <1>2, <1>3, <1>4, <1>5, <1>6, EstablishedStays

LEMMA SettingsEstablish ==
  ASSUME ReadInv, ReadyInv, UNCHANGED FinalEnv, LoadSettings
  PROVE  Established' /\ ReadyStarts'
<1>1. /\ pc = "settings" /\ program' = program /\ program \in Programs /\ machine' = machine
      /\ address' = [address EXCEPT ![program] =
                       IF program = "check" THEN SettingsAddress ELSE ExportedAddress]
      /\ IF ~Usable THEN Ends(7)
         ELSE IF ~ANumber THEN Ends(1)
         ELSE Goes(IF program = "check" THEN "observe" ELSE "model")
  BY DEF LoadSettings, process, ReadyInv
<1>2. /\ Usable = Final!Usable /\ ANumber = Final!ANumber /\ SettingsAddress = Final!SettingsAddress
  BY <1>1, ReadWhole, SameReading
<1>3. UNCHANGED <<Final!Usable, Final!ANumber, Final!Mode, Final!SettingsAddress, Final!Daemons>>
  BY FinalReadingStays
<1>4. CASE program = "run"
  <2>1. status'["check"] = status["check"] /\ address'["check"] = address["check"]
    BY <1>1, <1>4 DEF Goes, Ends, ReadyInv, Programs
  <2>2. status["check"] = 0 => pc' = "model"
    BY <1>1, <1>2, <1>4 DEF ReadyInv, Established, CheckIsPast, Goes
  <2> QED
    BY <1>1, <1>4, <2>1, <2>2, EstablishedStays DEF ReadyStarts
<1>5. CASE program = "check" /\ Usable /\ ANumber
  <2>1. pc' = "observe" /\ status' = status /\ status["check"] # 0
    BY <1>1, <1>5 DEF Goes, ReadyInv, NoStatus
  <2>2. address'["check"] = SettingsAddress
    BY <1>1, <1>5 DEF ReadyInv, Programs
  <2> QED
    BY <1>1, <1>2, <1>3, <1>5, <2>1, <2>2 DEF Established, CheckIsPast, ReadyStarts
<1>6. CASE program = "check" /\ ~(Usable /\ ANumber)
  <2>1. pc' = "over" /\ status'["check"] # 0
    BY <1>1, <1>6 DEF Ends, ReadyInv, Programs
  <2> QED
    BY <1>1, <1>6, <2>1, NothingEstablished DEF ReadyStarts
<1> QED
  BY <1>1, <1>4, <1>5, <1>6 DEF Programs

LEMMA PlaneEstablishes ==
  ASSUME ReadInv, ReadyInv, UNCHANGED FinalEnv, ObserveThePlane
  PROVE  Established' /\ ReadyStarts'
<1>1. PICK daemon \in Daemons :
        /\ Finds("daemon", daemon, Daemons)
        /\ IF daemon.at # address["check"] \/ daemon.state = "stale"
           THEN Ends(1) /\ UNCHANGED failed
           ELSE Goes("model") /\ failed' = (daemon.state = "other")
  BY DEF ObserveThePlane
<1>2. pc = "observe" /\ program = "check" /\ program' = "check" /\ address' = address
  BY DEF ObserveThePlane, process, ReadyInv
<1>3. UNCHANGED <<Final!Usable, Final!ANumber, Final!Mode, Final!SettingsAddress, Final!Daemons>>
  BY FinalReadingStays
<1>4. CASE daemon.at # address["check"] \/ daemon.state = "stale"
  <2>1. pc' = "over" /\ status'["check"] # 0
    BY <1>1, <1>2, <1>4 DEF Ends, ReadyInv, Programs
  <2> QED
    BY <1>2, <2>1, NothingEstablished DEF ReadyStarts
<1>5. CASE ~(daemon.at # address["check"] \/ daemon.state = "stale")
  <2>1. pc' = "model" /\ status' = status /\ status["check"] # 0
    BY <1>1, <1>2, <1>5 DEF Goes, ReadyInv, NoStatus
  <2>2. machine'["daemon"] = {daemon}
    BY <1>1, FoundNow DEF Parts
  <2>3. Final!Usable /\ Final!ANumber /\ address["check"] = Final!SettingsAddress
    BY <1>2 DEF ReadyInv, Established, CheckIsPast
  <2>4. daemon \in Final!Daemons
    BY <1>2, ReadWhole, SameReading
  <2> QED
    BY <1>2, <1>3, <1>5, <2>1, <2>2, <2>3, <2>4 DEF Established, CheckIsPast, ReadyStarts
<1> QED
  BY <1>4, <1>5

LEMMA ModelEstablishes ==
  ASSUME ReadInv, ReadyInv, UNCHANGED FinalEnv, ObserveTheModel
  PROVE  Established' /\ ReadyStarts'
<1>1. /\ pc = "model" /\ program = "check" /\ program' = "check" /\ address' = address
      /\ status["check"] # 0
  <2>1. pc = "model" /\ program = "check" /\ program' = program /\ address' = address
    BY DEF ObserveTheModel, process
  <2> QED
    BY <2>1 DEF ReadyInv, NoStatus
<1>2. UNCHANGED <<Final!Usable, Final!ANumber, Final!Mode, Final!SettingsAddress, Final!Daemons>>
  BY FinalReadingStays
<1>3. Mode = Final!Mode
  BY <1>1, ReadWhole, SameReading
<1>4. CASE Mode = "fixture"
  <2>1. pc' = "room" /\ status' = status /\ machine' = machine
    BY <1>4 DEF ObserveTheModel, Goes
  <2> QED
    BY <1>1, <1>2, <1>3, <1>4, <2>1 DEF ReadyInv, Established, CheckIsPast, ReadyStarts
<1>5. CASE Mode # "fixture"
  <2>1. PICK endpoint \in Endpoints :
          /\ Finds("endpoint", endpoint, Endpoints)
          /\ IF endpoint.listing = "garbled" THEN Ends(1) /\ UNCHANGED failed
             ELSE Goes("room") /\ failed' = (failed \/ endpoint.listing # "with it")
    BY <1>5 DEF ObserveTheModel
  <2>2. machine'["endpoint"] = {endpoint} /\ machine'["daemon"] = machine["daemon"]
    BY <2>1, FoundNow DEF Parts
  <2>3. CASE endpoint.listing = "garbled"
    <3>1. pc' = "over" /\ status'["check"] # 0
      BY <1>1, <2>1, <2>3 DEF Ends, ReadyInv, Programs
    <3> QED
      BY <1>1, <3>1, NothingEstablished DEF ReadyStarts
  <2>4. CASE endpoint.listing # "garbled"
    <3>1. pc' = "room" /\ status' = status /\ (~failed' => endpoint.listing = "with it")
      BY <2>1, <2>4 DEF Goes
    <3> QED
      BY <1>1, <1>2, <2>2, <3>1 DEF ReadyInv, Established, CheckIsPast, ReadyStarts
  <2> QED
    BY <2>3, <2>4
<1> QED
  BY <1>4, <1>5

LEMMA RoomEstablishes ==
  ASSUME ReadyInv, UNCHANGED FinalEnv, ObserveTheRoom
  PROVE  Established' /\ ReadyStarts'
<1>1. PICK room \in Room : Finds("room", room, Room) /\ failed' = (failed \/ room # "clean")
  BY DEF ObserveTheRoom
<1>2. /\ pc = "room" /\ program = "check" /\ program' = "check" /\ address' = address
      /\ pc' = "over" /\ status'["check"] = IF failed' THEN 1 ELSE 0
  BY DEF ObserveTheRoom, process, Ends, ReadyInv, Programs
<1>3. UNCHANGED <<Final!Usable, Final!ANumber, Final!Mode, Final!SettingsAddress, Final!Daemons>>
  BY FinalReadingStays
<1>4. machine'["daemon"] = machine["daemon"] /\ machine'["endpoint"] = machine["endpoint"]
  BY <1>1, FoundNow DEF Parts
<1>5. status'["check"] = 0 => ~failed
  <2>1. CASE failed
    <3>1. failed'
      BY <1>1, <2>1, Zenon
    <3>2. status'["check"] = 1
      BY <1>2, <3>1
    <3> QED
      BY <3>2
  <2> QED
    BY <2>1
<1> QED
  BY <1>2, <1>3, <1>4, <1>5 DEF ReadyInv, Established, CheckIsPast, ReadyStarts

LEMMA BuildingEstablishes ==
  ASSUME ReadInv, ReadyInv, UNCHANGED FinalEnv, BuildModel
  PROVE  Established' /\ ReadyStarts'
<1>1. /\ pc = "model" /\ program = "run" /\ program' = "run" /\ address' = address
  BY DEF BuildModel, process
<1>2. Mode = Final!Mode
  BY <1>1, ReadWhole, SameReading
<1>3. CASE Mode = "fixture"
  <2>1. pc' = "over" /\ status' = [status EXCEPT !["run"] = 0] /\ machine' = machine
    BY <1>1, <1>3 DEF BuildModel, Ends
  <2>2. status'["check"] = status["check"] /\ status'["run"] = 0
    BY <2>1 DEF ReadyInv, Programs
  <2> QED
    BY <1>1, <2>1, <2>2, EstablishedStays DEF ReadyStarts
<1>4. CASE Mode # "fixture"
  <2>1. PICK endpoint \in Endpoints :
          /\ Finds("endpoint", endpoint, Endpoints)
          /\ IF Answers(endpoint) THEN Ends(0) ELSE Ends(7)
    BY <1>4 DEF BuildModel
  <2>2. /\ pc' = "over" /\ status'["check"] = status["check"]
        /\ Answers(endpoint) => status'["run"] = 0
    BY <1>1, <2>1 DEF Ends, ReadyInv, Programs
  <2>3. ASSUME status["check"] = 0
        PROVE  /\ endpoint.listing = "with it" /\ machine' = machine
               /\ machine'["endpoint"] = {endpoint}
    <3>1. PICK e : machine["endpoint"] = {e} /\ e.listing = "with it"
      BY <1>2, <1>4, <2>3 DEF ReadyInv, Established
    <3>2. endpoint = e /\ machine' = machine
      BY <2>1, <3>1, FoundAgain DEF Parts
    <3> QED
      BY <3>1, <3>2
  <2>4. Keyed' = Keyed
    BY DEF BuildModel, process, Keyed, Stripped
  <2>5. ReadyStarts'
    <3>1. status["check"] = 0 /\ ~Answers(endpoint) => Keyed /\ ~endpoint.takesTheKey
      BY <2>3 DEF Answers
    <3> QED
      BY <2>2, <2>3, <2>4, <3>1 DEF ReadyStarts
  <2> QED
    BY <1>1, <2>2, <2>3, <2>5, EstablishedStays
<1> QED
  BY <1>3, <1>4

LEMMA ReadyStep == ReadInv /\ ReadyInv /\ [Next]_vars => ReadyInv'
<1> SUFFICES ASSUME ReadInv, ReadyInv, [Next]_vars PROVE ReadyInv'
  OBVIOUS
<1>1. Shape' /\ UNCHANGED FinalEnv
  BY ShapeStep, FinalStays
<1>2. CASE UNCHANGED vars
  <2>1. UNCHANGED <<Final!Usable, Final!ANumber, Final!Mode, Final!SettingsAddress, Final!Daemons>>
    BY <1>1, FinalReadingStays
  <2>2. Established' /\ ReadyStarts'
    BY <1>2, <2>1 DEF vars, process, ReadyInv, Established, CheckIsPast, ReadyStarts, Padded, Keyed, Stripped
  <2> QED
    BY <1>1, <2>2 DEF Shape, ReadyInv
<1>3. CASE Next
  <2>1. Established' /\ ReadyStarts'
    BY <1>1, <1>3, ReadingEstablishes, RequiringEstablishes, ScriptEstablishes, SettingsEstablish,
       PlaneEstablishes, ModelEstablishes, RoomEstablishes, BuildingEstablishes DEF Next
  <2> QED
    BY <1>1, <2>1 DEF Shape, ReadyInv
<1> QED
  BY <1>2, <1>3

(* What check-demo.sh calls READY starts: the daemon, the settings and the
   endpoint it found are those the run meets, if the boundary is installed, the
   socket's name has no blanks and the endpoint takes the key it is given,
   which is not what the check asked it.                                     *)
THEOREM ReadyMeansReady == Spec => []ReadyStarts
<1>1. Init => ReadyInv
  BY DEF Init, ReadyInv, Established, CheckIsPast, ReadyStarts, NoStatus, Programs
<1>2. ReadyInv => ReadyStarts
  BY DEF ReadyInv
<1> QED
  BY InitRead, ReadStep, ReadyStep, <1>1, <1>2, PTL DEF Spec

-----------------------------------------------------------------------------
(***************************************************************************)
(* Types. A part of the machine is found once: it is nothing yet, or the   *)
(* one thing a program saw there.                                          *)
(***************************************************************************)
Found(findings) == findings = {} \/ \E finding : findings = {finding}

TypeInv ==
  /\ program \in Programs
  /\ pc \in {"read", "require", "script", "settings", "observe", "model", "room", "over"}
  /\ failed \in BOOLEAN /\ engine \in {"none", "transcript", "model"}
  /\ status \in [Programs -> {NoStatus, 0, 1, 4, 7}]
  /\ machine = [part \in Parts |-> machine[part]]
  /\ \A part \in Parts : Found(machine[part])

LEMMA LookingFinds ==
  ASSUME TypeInv, NEW part \in Parts, NEW finding, NEW findings, Finds(part, finding, findings)
  PROVE  /\ machine' = [p \in Parts |-> machine'[p]]
         /\ \A p \in Parts : Found(machine'[p])
BY DEF TypeInv, Finds, Found

LEMMA EndingTypes ==
  ASSUME TypeInv, NEW code \in {0, 1, 4, 7}, Ends(code)
  PROVE  pc' = "over" /\ status' \in [Programs -> {NoStatus, 0, 1, 4, 7}]
BY DEF TypeInv, Ends

LEMMA TypeStep == TypeInv /\ [Next]_vars => TypeInv'
<1> SUFFICES ASSUME TypeInv, [Next]_vars PROVE TypeInv'
  OBVIOUS
<1>1. machine' = machine \/ /\ machine' = [p \in Parts |-> machine'[p]]
                            /\ \A p \in Parts : Found(machine'[p])
  BY LookingFinds DEF Next, vars, Parts, ReadLine, EndOfFile, Require, Script, LoadSettings,
     ObserveThePlane, ObserveTheModel, ObserveTheRoom, BuildModel, RunNext
<1>2. program' \in Programs
  BY DEF TypeInv, Programs, Next, vars, process, ReadLine, EndOfFile, Require, Script, LoadSettings,
     ObserveThePlane, ObserveTheModel, ObserveTheRoom, BuildModel, RunNext
<1>3. /\ pc' \in {"read", "require", "script", "settings", "observe", "model", "room", "over"}
      /\ status' \in [Programs -> {NoStatus, 0, 1, 4, 7}]
  <2>1. CASE \E code \in {0, 1, 4, 7} : Ends(code)
    BY <2>1, EndingTypes
  <2>2. CASE \E step \in {"require", "script", "settings", "observe", "model", "room"} : Goes(step)
    BY <2>2 DEF Goes, TypeInv
  <2>3. CASE UNCHANGED <<pc, status>>
    BY <2>3 DEF TypeInv
  <2>4. CASE RunNext
    BY <2>4 DEF RunNext, TypeInv
  <2>5. CASE ReadLine \/ EndOfFile
    BY <2>2, <2>3, <2>5 DEF ReadLine, EndOfFile
  <2>6. CASE Require
    BY <2>1, <2>2, <2>6 DEF Require
  <2>7. CASE Script
    BY <2>1, <2>2, <2>7 DEF Script
  <2>8. CASE LoadSettings
    BY <2>1, <2>2, <2>8 DEF LoadSettings
  <2>9. CASE ObserveThePlane
    BY <2>1, <2>2, <2>9 DEF ObserveThePlane
  <2>10. CASE ObserveTheModel
    BY <2>1, <2>2, <2>10 DEF ObserveTheModel
  <2>11. CASE ObserveTheRoom
    BY <2>1, <2>11 DEF ObserveTheRoom
  <2>12. CASE BuildModel
    BY <2>1, <2>12 DEF BuildModel
  <2>13. CASE UNCHANGED vars
    BY <2>3, <2>13 DEF vars
  <2> QED
    BY <2>4, <2>5, <2>6, <2>7, <2>8, <2>9, <2>10, <2>11, <2>12, <2>13 DEF Next
<1>4. failed' \in BOOLEAN
  <2>1. CASE ObserveThePlane
    BY <2>1 DEF ObserveThePlane, TypeInv
  <2>2. CASE ObserveTheModel
    BY <2>2 DEF ObserveTheModel, TypeInv
  <2>3. CASE ObserveTheRoom
    BY <2>3 DEF ObserveTheRoom, TypeInv
  <2>4. CASE UNCHANGED failed
    BY <2>4 DEF TypeInv
  <2> QED
    BY <2>1, <2>2, <2>3, <2>4 DEF Next, vars, ReadLine, EndOfFile, Require, Script, LoadSettings,
       BuildModel, RunNext
<1>5. engine' \in {"none", "transcript", "model"}
  BY DEF TypeInv, Next, vars, ReadLine, EndOfFile, Require, Script, LoadSettings,
     ObserveThePlane, ObserveTheModel, ObserveTheRoom, BuildModel, RunNext
<1> QED
  BY <1>1, <1>2, <1>3, <1>4, <1>5 DEF TypeInv

(* Every variable keeps to its values, and a part of the machine has been
   looked at and found the same by whoever looked.                           *)
THEOREM StartupTypes == Spec => []TypeOK
<1>1. Init => TypeInv
  BY DEF Init, TypeInv, Found, Programs
<1>2. ReadInv /\ TypeInv => TypeOK
  <2> SUFFICES ASSUME ReadInv, TypeInv PROVE TypeOK
    OBVIOUS
  <2>1. \A n \in Names : env[n] \in Values[n] \cup {Unset}
    <3> SUFFICES ASSUME NEW n \in Names PROVE env[n] \in Values[n] \cup {Unset}
      OBVIOUS
    <3>1. SubSeq(file, 1, line) \in Seq(Line)
      BY SubSeqProperties DEF ReadInv
    <3> QED
      BY <3>1, FirstIsAValue DEF ReadInv, CallerThenFirstLine
  <2>2. assigned \subseteq Names
    BY DEF ReadInv
  <2>3. \A part \in Parts : Cardinality(machine[part]) <= 1
    BY FS_EmptySet, FS_Singleton DEF TypeInv, Found
  <2> QED
    BY <2>1, <2>2, <2>3 DEF TypeOK, TypeInv, ReadInv
<1> QED
  BY InitRead, ReadStep, TypeStep, <1>1, <1>2, PTL DEF Spec
=============================================================================
