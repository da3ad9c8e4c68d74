# The governed agent demonstration, specified

TLA+ specifications of the demonstration in this repository: an agent whose tools run only under a
decision of a control plane, with a person in the loop for what leaves the organisation. The modules
are translated from `src/src/sayfirst_governed_agent_demo/`, `demo-policy.toml` and `scripts/`. TLC
checks them on small instances; TLAPS proves the theorems listed below for every value of the
constants. The control plane, the boundary library, the package installer and the model endpoint are
not in this repository: they are modelled from how the code here uses them, and marked external where
a definition stands for nothing else.

## The system

| part | state it keeps | operations | talks to |
|---|---|---|---|
| reasoning node (`graph.py`) | transcript, `draft`, `draft_requested`, `report_text`, `nudge(s)`, `sequence`, `pending` in the graph state | one model turn: propose an act, correct, answer, reject an unknown tool | the model; routes to one governed node |
| binding projections (`state.py`) | none | `resolve_act`, `bind_*` | read by the governed node and by its body |
| governed node (`boundary_setup.py`) | the open block | bind, ask, record the stamp, run the body, or interrupt the graph | the control plane, the stamp, the body |
| tools (`tools.py`) | corpus, reports and outbox directories | four acts | the filesystem |
| stamp (`governance_stamp.py`) | last decision per capability, process-wide | `record`, `last_authorisation` | written by the node, read by the body |
| driver (`agent.py`) | the graph's thread and its in-memory checkpoint | `start`, `resume`, `wait_for_a_person` | the graph, the control plane |
| application (`app.py`) | the last verdict | the report / wait / resume loop, the exit code | a person, through the terminal |
| control plane (external) | approvals, decisions, evidence | ask, read an approval, approve, reject | every take; a person |
| run directory (`start-control-plane.sh`, `reset-demo.sh`) | `daemon.pid`, `daemon.sock`, configuration, evidence | start, stop and remove | the daemon's process |
| outcome log, event stream (`boundary_setup.py`, `demo_events.py`) | a bounded log, two sinks in order, the list of events, the file it is written to | record, flush at the end of an invocation, close and dump at the end of `main` | the governed node, the driver, the application |
| environment file reader, run and check scripts (`scripts/lib/environment.sh`, `run-demo.sh`, `check-demo.sh`), settings (`settings.py`) | the environment of a process, the names its file has assigned | read a line, require, resolve | a caller, a `.env` file; the program they start |
| health check (`healthcheck.py`), construction of the model (`model.py`) | the observations made so far; none | observe, probe | the plane, the endpoint, the outbox, the corpus |
| model client (`model.py`), transcripts (`transcripts.py`) | none | one turn; a fixed list of replies | the endpoint |
| gate (`gate.sh`) and bootstrap | two environments, a route record in each | build, install, reduce, report | the package index, checkouts |

What is hard in it:

* a suspended node is not continued, it is **executed again from its top**, after a pause in which a
  person answered, the wait lapsed, or somebody merged other state into the graph;
* the answer to an ask may be **lost after the plane gave it**, and the process may die at any point
  with its checkpoint, while the plane's waits and decisions survive;
* **takes share** the plane, the outbox and the corpus, and can put the same question;
* the validation loop reads flags **several turns after they were set**;
* the scripts decide what is running from **files that outlive the process** that wrote them;
* the account of what a take did is **bounded, handed over late**, and loses records when it is full
  or when a line cannot be printed;
* the gate decides what to keep and what to remove from **a record of an earlier run**, which may have
  been interrupted anywhere, and both routes install the same version numbers;
* one address and one mode are **read three times by two languages** (shell and Python), each with its
  own idea of an empty or blank value.

What makes each part correct: an act runs only on a fresh decision about exactly that act
(governed node, projections); one approval lets one act out (boundary, driver); an artefact names
its decision (stamp, tools); "nothing ran" is true when printed (driver); the re-ask is the ask
(reasoning node); the text that is asked about is the text saved and sent (reasoning node,
projections); a run ends (validation loop, poll); what a take leaves behind accounts for every act or
says how many are missing (outcome log, event stream); a reset that reports a removal has kept no
decision, and orphans nobody (run directory scripts); a run of the gate reports about what it delivered, borrows nothing and takes
nothing away (gate); what is checked is what is run, and nothing is substituted (settings, check).

## The modules

| module | models | kind |
|---|---|---|
| `Acts` | `state.py`, the refusals of `tools.py`, `demo-policy.toml` | pure operators |
| `Authority` | what the demonstration promises of protected acts | abstract specification |
| `Governance` | takes (reasoning node abstracted), governed node, tools, stamp, driver, application, plane, person, corpus | composition; refines `Authority` |
| `ReasonLoop` | the reasoning node and the validation loop | component |
| `WholeTake` | `Governance` with the reasoning node of each take in full | composition; `EXTENDS Governance`, refines it and `ReasonLoop` |
| `OutcomeLog` | the bounded log and what a flush hands over | operators on a log |
| `Stream` | `Governance` with the log, the sinks, the stream and its file added to every step | composition; `EXTENDS Governance, OutcomeLog` |
| `RunDirectory` | the two scripts and the daemon's process | component |
| `GateRoutes` | the gate's two environments and their route records, run after run | component |
| `Startup` | the environment file, the scripts' refusals, the settings, the health check, the construction of the model: a check, then a run | component |
| `GovernanceProofs`, `TakeProofs`, `WholeTakeProofs`, `StreamProofs`, `ReasonLoopProofs`, `RunDirectoryProofs`, `GateRoutesProofs`, `StartupProofs` | theorems | proofs |
| `MCGovernance`, `MCWholeTake`, `MCStream`, `MCReasonLoop`, `MCRunDirectory`, `MCGateRoutes`, `MCStartup` | instances for TLC | model checking |

Operators whose comment begins with **Slip** are deliberate mistakes, each one a bug that could
plausibly be made at that place. Nothing uses them. Putting a slip in place of the definition that
follows it must make the property it is listed with in `PROJECT.json` fail: that is how each
property is known to be able to fail.

### Acts

A graph state is a record of the members the bindings read. `Resolve` is `resolve_act`: it
dispatches on the tool the *state* names, whatever node is asking. `Bound` lists the arguments each
`bind_*` projects, `Question` is what reaches the plane, `Performed` is what the body does.
The digests of the code are modelled by the values they digest, so two questions are equal when
the mappings are; file names and the subject, fixed naming the scenarios never vary, are left out,
and with them the refusal of an unsafe file name.

### Governance

A *take* is a process. `pc` says where it is, `at` is the graph's next task.

| code | action |
|---|---|
| `reason()` returning a pending act; nothing pending and a nudge; nothing pending and none; an exception | `Propose`, `Correct`, `Finish`, `ReasonRaises` |
| `governed_node.node` up to the answer | `AskUnreachable`, `AskRefused`, `AskAllowed`, `AskDenied`, `AskOpensWait`, `AskFindsPending`, `AskFindsApproved`, `AskFindsRejected`, `NothingToBind` |
| entering the block, `governance_stamp.record` | `Enter`, part of the allowing asks |
| `_node` and the tool function; an exception in it; its return into the state | `Execute`, `BodyRaises`, `Return` |
| `main`'s loop, `wait_for_a_person` | `Exit`, `StartWaiting`, `Resume`; of the poll, `Answered`, `ReadsNothing`, `GiveUp`, `PollAgain` |
| `GovernedRun.resume(update=...)` by a program | `CallerResumes` with `Mergeable` |
| the process dies, with `InMemorySaver` | `Crash` |
| the plane, a person, the directory | `Approve`, `Reject`, `Lapse`, `PlaneGoesOrReturns`, `CorpusChanges` |

Every allowing answer has two outcomes, entering the body or the answer being lost
(`CouldNotAsk`); a lost answer has spent the approval. `Callers` are takes driven by a program that
resumes whatever came back and merges any state into it: any value of any member, several at once, as
long as a pending act has its tool's shape. `Reporters` run a scenario that stops at a suspension. A
turn of the poll is two steps, the read and the look at the clock, and anything may happen in between:
a person who approves there is not seen. The framework's step limit ends an invocation before any task
but the one a resume starts at (`ReasonRaises`). Capabilities and tools are in one-to-one correspondence and share names.

What is assumed of the plane: one question has at most one open wait; an approval is used up by the
first ask it allows; references are never reused; a lapsed wait answers nothing.

### ReasonLoop

One action per `return` of `reason()`. A reply is a tool call or none, long prose or not; prose is
told apart only by whether the last message shown was the request for the report (`asked`), which is
history the code does not keep, used only to state what the code's comment claims. `sentBack` (the
corrections made) is history as well. The governed nodes are one action, `ToolReturns`.

### WholeTake

`Governance` lets a turn leave any draft it may leave and go on, be corrected or finish as it likes.
`WholeTake` keeps everything else of it and replaces the turn: beside the members the acts are made of
(`pending`, `sequence`, `draft`, `report_text` in `g`), each take has in `loop` those its node goes by.

| code | action |
|---|---|
| `reason()`: a known tool, an unknown one, a correction, an answer; `route` out of each | `TurnProposes`, `TurnCallsUnknown`, `TurnCorrected`, `TurnAnswers` |
| a reply's long prose, and whether it is the draft | `Taken`, `DraftOf` |
| the correction that asks for the report | `Asks` |
| everything a process does between its turns | `Onward`, the steps of `Governance` |

So one node meets the plane, a suspension, a person and other takes. `Node(t)` is `ReasonLoop` as the
node of take `t` sees it: where the graph stands, or how it left; of every text, only what it answered
(`drafted`). Takes of `main` only: what a program merges into a run is no turn of a node, and such
takes stay `Governance`'s.

### RunDirectory

Each invocation of a script is a process; the start script *becomes* the daemon (`exec`), so the
process id it records is the daemon's. `habit` is how the operator behaves: `careful` (one script
at a time, never two control planes), `turns` (one script at a time), `any`. Process ids are not
reused. The removal takes the directory's members one at a time (`Unlink`), those included that others
write meanwhile; it may fail on any of them, and then `set -e` ends the script there (`RemovalFails`).
Only a removal that found the directory empty reports (`Removed`); `cleared` is history, who had served
when a reset reported. The redirection that writes `daemon.pid` empties it first, so an
interrupted start leaves a file that names no process.

### OutcomeLog and Stream

A log is a value: the records held, how many were made, how many were lost. `Stream` adds a log, two
sinks and a file to `Governance`; each of its actions is one of `Governance`'s with what the code does
to the account, so that nothing about acts is modelled twice.

| code | action |
|---|---|
| `grant.record_outcome` in `governed_node`, after the body returned or refused | `RecordOutcome` |
| `_drive`'s `flush` on every way out of an invocation | `EndInvocation`, with `Flush` and `FanOut` |
| `events.record_human(answer)` | `HearAnswer` |
| the end of `main`: `close`, `dump` | `Leave` |
| everything else, and a process that dies | `Silent` |

`FanOut` hands every record to `RECORDS` first and to the stream second. The stream keeps the line and
then prints it, so a print that raises (`raised`, any subset of the records) is counted by the log as
a drop although both sinks have the record: the account errs on the side of declaring a loss.

### GateRoutes

One action per step of `gate.sh` that changes an environment or decides what the next may.

| code | action |
|---|---|
| the request and the mode it starts in | `Begin` |
| building the wheels; the client's environment filled first, or removed | `Build` |
| reading and removing a record; what the installer will have to put in place | `Drop` |
| the installer resolving, then replacing one package after another | `Resolve`, `Place`, `Placed` |
| an install that fails: uncaught; refused with the record put back; reduced; without the client | `InstallFails`, `Refuse`, `NotDelivered`, `ClientNotDelivered` |
| the agent's own dependencies | `Others` |
| the reduction and what it erases | `Uninstall`, `Erase` |
| the end | `Report`, `Interrupted` |

The same bracket serves both environments; `env` says which it is open on. `filled` is history: the
route that *completely* filled an environment, forgotten when an install, a removal or a run stopped
inside one touches it. An install may fail before touching anything or halfway, leaving one package
missing (`Broken`). The pins move between runs, never during one; one gate runs at a time.

### Startup

Two programs on one machine, the check and then a take. Each begins again from the caller's
environment. A value is a word, or none, with or without blanks after it: that is what tells the
shell's `${NAME:-...}` from `settings.py`, which strips.

| code | action |
|---|---|
| `read_environment_file` | `ReadLine`, `EndOfFile` |
| the refusals of `environment.sh` | `Require` |
| the socket `run-demo.sh` looks at and exports | `Script` |
| `load_settings` and its two ways to fail | `LoadSettings` |
| `run_checks`: the socket and the plane, the model, the outbox and the corpus; `main`'s status | `ObserveThePlane`, `ObserveTheModel`, `ObserveTheRoom` |
| `build_model` with its probe | `BuildModel` |
| the second program | `RunNext` |

What each finds on the machine is chosen when it is first looked at and stays (`Finds`): between the
check and the run nothing is installed, started or stopped. That is the condition under which READY
can be worth anything. An endpoint has two answers, and they are found together: what it lists to
somebody without a key, which is what the check asks (`healthcheck.py:147`), and whether it takes the
key, which is what the run's probe sends where `MODEL_API_KEY` names one (`Answers`, `model.py:112`).

## What the runs check

| run | instance | checks |
|---|---|---|
| `Governance_takes` | 2 takes, same question; 2 waits, 2 decisions; lapses, crashes, plane up and down | `OneApprovalOneExecution`, `NothingRan`; `EntersOnlyOnAFreshAnswer`; `KeepsThePromise` (refinement of `Authority`) |
| `Stream_run` | 1 take, 3 acts, 2 texts, 2 recipients, 2 corpora, a log of 2 records | `StreamTypeOK`, `ReaskIsTheSameAsk`, `SendDeliversTheSavedReport`, `ArtefactNamesItsDecision`, `NothingOwed`, `GapsAreDeclared`, `FileAccountsForEveryAct` |
| `Governance_caller` | 1 caller, any state merged on every resume; 1 wait that may lapse, 1 decision, 2 texts, 2 corpora | `GovernanceInv` (inductive invariant, `TypeOK` in it), `ExecutedAsApproved`, `EntersOnlyOnAFreshAnswer` |
| `WholeTake_fair` | 1 take with its node, 3 acts, 2 texts, the whole task, 2 corrections, 4 tool calls, 4 waits that may lapse, under fairness of the process | `OneReport`, `ReportFollowsTheWork`; `RunsTheLoop` (refinement of `ReasonLoop`); `EveryTakeEnds`, `ApprovalReachesTheTake` |
| `ReasonLoop_full` | the whole task, 6 corrections, 6 tool calls | `TypeOK`, `RequestedInItsWindow`, `SavedReportIsTheDraft`, `UnfinishedWasCorrected`; `DraftIsWrittenOnce`, `RunEnds` |
| `RunDirectory_habits` | 3 invocations, careful and any | `TypeOK`, `CarefulOrphansNothing`, `ResetKeepsNothing`; `RemovesOnlyOverTheDead`, `ResetEnds` |
| `GateRoutes_runs` | 4 runs of the gate, 2 distributions and the client, 2 releases | `GateInv` (inductive invariant, `TypeOK` in it), `IndexRecordIsTrue`, `FullRunNamesItsRoute`, `FindsOnlyWhatItDelivered`; `CheckoutsSurviveAPlainRun` |
| `Startup_check_then_run` | up to 2 names set by the caller, a file of up to 2 lines, 8 names | `TypeOK`, `CallerThenFirstLine`, `OneAddress`, `ReadyStarts`, `NothingIsSubstituted` |

Runs that expect a violation, because the repository says one thing and the code does another:

| run | what is said | what happens |
|---|---|---|
| `Governance_read` | the body runs on the resolution that was digested | the read lists the corpus again and ignores the list it was handed |
| `ReasonLoop_remark` | only prose that answers the request is the report | the request stays open across a tool call, a later remark is taken |
| `RunDirectory_turns` | the recorded process *and* the socket decide | a stale process id decides alone; a second start makes it stale while the first daemon serves |
| `GateRoutes_plain` | no plain run removes what an earlier run installed by either route | offline, after the pins moved, what came from the index is removed |

Smaller disagreements seen while reading, not run:

* Exit status 1 is documented as *denied or rejected* (`README.md:75`, `environment.sh:103`); an
  exception the driver does not name (`agent.py:125`), an uncaught one of the reasoning node or a
  `MODEL_TEMPERATURE` that is no number ends with 1 too.
* An unknown tool after a correction leads the model back without counting (`graph.py:299`), so
  `MAX_NUDGES` is not what bounds that loop (`graph.py:118`); the framework's step limit is. On the
  first turn an unknown tool ends the run as completed with nothing attempted.
* `graph.py:220` says three corrections where `MAX_NUDGES` is six (and `docs/ARCHITECTURE.md` says
  six); `graph.py:106` calls the draft the *latest* prose where it is written once (proved); the guard
  on `report_text` in `answering_draft_request` never decides (a saved report implies a closed
  request, part of the proved invariant).
* `record_human` is called for a wait that lapsed as well (`app.py:213`): the stream says that a
  person answered when nobody did.
* An approval given after the poll's last read and before its deadline is tested (`agent.py:188-192`),
  or while a read fails, is not looked at again: the program says that nobody answered inside the wait,
  and the approval is left for whoever asks the same question next. `ApprovalReachesTheTake` speaks of
  what a read has seen.
* The loop that waits and resumes (`app.py:198-214`) has no bound of its own: a wait that lapses, or is
  spent by another take, under the poll is asked about anew, and each resume is an invocation with a
  step limit of its own.
* A print that raises is counted as a drop although both sinks kept the record. An act whose body
  raised after its file existed has no outcome record and is not counted as lost: a process of `main`
  ends there, but a program that resumes such a run carries an act nothing accounts for, so
  `NothingOwed` speaks of takes of `main`.
* The gate: the record removed before an install that is interrupted or fails is lost, so a later
  offline plain run takes a checkouts run's copies for nobody's and removes them (which is why
  `CheckoutsSurviveAPlainRun` says *unless a run was stopped*). After an index install that failed
  halfway with everything still importable, the record `checkouts` is put back, "measured rather than
  assumed" (`gate.sh:368`): importable is measured, untouched is not. A checkouts run's client is
  removed by a plain offline run that is reduced.
* READY does not look at the boundary library, which the run requires, and asks the endpoint without the
  key the run names: an endpoint that lists its models to anybody and refuses the key gives READY, and
  then a run that ends with 7. These are two of the three exceptions `ReadyStarts` names; the third is
  a padded `SAYFIRST_SOCKET`, which the scripts take as it is and the settings strip. A
  `SAYFIRST_DEMO_RUN` with blanks sends the check elsewhere than the scripts. An endpoint that lists
  nothing without a key is never READY, although a run with the key starts. A listing that is not JSON
  ends the check by an exception.
* A `rm -rf` that fails in `reset-demo.sh` (line 104) ends the script with its status and without a word
  of its own, and leaves what it had not come to: `ResetKeepsNothing` speaks of the resets that report.
* `reset-demo.sh` clears `runtime/outbox` whatever `DEMO_OUTBOX` names.
* `_unwrap` (`model.py:69`) promises never to unwrap a parameter called `arguments`; a tool whose only
  parameter has that name would lose it. No tool here has.

### Bounds

`Takes`, `ApprovalRefs`, `DecisionRefs`, `MaxActs`, `Scripts` and `MaxCalls` bound the instances and
are constants. Two takes are enough for every property about sharing, since each relates two effects
or two waits; two decisions and two waits allow an approval to be used, lost, lapsed and asked for
again. In `Stream_run` three acts make read, write and send possible in one run, in every order, and
`Capacity` is 2, so that a record is dropped: the code's 1024 is more than a run makes, and what is
checked is the rule, not the number; each of the three acts may find another's stamp in the record.
`Governance_caller` is about merges: a draft and a saved text each absent or one of two, every pending
act and every number, all merged at once on every resume, and a corpus that changes under an open
block. It has one wait and one decision, since the question is what may ride on them; what a wait
that lapsed under the poll and the one opened after it do to each other is in `Governance_takes`.
When a bound on references is reached, the asks that need one are not taken, only refused. A
reference bounds how often a wait can lapse and be opened again, which the code does not: that is why
`EveryTakeEnds` does not count an end that comes after the last reference is used.
In `WholeTake_fair` three acts are a read, a write and a send, or a send asked about twice;
`ApprovalRefs` is one more than the acts, so that each may wait, one more may lapse, and the take
still has to end with a reference to spare; `MaxCalls` is one more than the acts, so that an unknown
tool can be called beside them, and two corrections can be used up with a turn of any kind between
them. In `ReasonLoop_full`
`MaxCalls` equals `MAX_NUDGES`, so that calls can be interleaved with every correction. Three invocations of the scripts give start, start, reset and
start, reset, start. Four runs of the gate give every pair of routes with a failing run between them
and one after; two distributions make an install that fails halfway different from one that fails.
In `Startup` two names of the caller's and two lines of a file cover a name set by both, by the file
twice, names that interact, and a model with a key, which takes four; every value has a plain and, where the two readings differ, a
padded and an empty variant. `Governance_takes` uses the symmetry of its takes (safety only).

`CHECK_DEADLOCK FALSE` stands only where the system stops: a run of the validation loop that ended,
scripts that are all over, the two programs of `Startup` when both have ended, and violation runs.

### Fairness

`WholeFairSpec` gives each take weak fairness of its own steps, a turn or whatever comes between turns:
every wait in the code has a timeout (180 s on the model, 10 s on an ask, a deadline on the poll), so a
process that is not killed takes its next step. The poll has strong fairness of giving up: it comes
back to the look at the clock again and again, the clock goes on, and so one look finds the deadline
passed; weak fairness would let it read for ever. Nothing is assumed of people, of the plane, of the
corpus or of crashes.
`ReasonLoop!FairSpec` is the same for the one process, which goes on (`Proceed`) and never has to
leave. `RunDirectory!FairSpec` gives each
script its own steps: its waits are counted loops.

`EveryTakeEnds` and `RunEnds` hold with the bounds `MaxActs` and `MaxCalls` standing for the
framework's step limit within one invocation, which is what ends a model that proposes acts for ever.
Across invocations there is no limit: a take is resumed as often as a poll comes back with an answer,
a lapse included. So `EveryTakeEnds` says that a take ends or goes through every reference there is;
with references to spare it ends. What it checks of this code is the poll and the resume of a wait
that was answered; `RunEnds` checks the bound on corrections.

## What is proved

`GovernanceProofs`, for any sets of takes, callers, references, texts, recipients and corpora:

* `InvariantHolds`: `Spec => []GovernanceInv`
* `TypeCorrect`, `SendsAreApproved`, `ApprovalsAreUsedOnce`, `ArtefactsAreTraceable`: the invariants
  `TypeOK`, `ExecutedAsApproved`, `OneApprovalOneExecution`, `ArtefactNamesItsDecision`
* `ResumingGrantsNothing`: the action property `EntersOnlyOnAFreshAnswer`, from the same invariant
* `NothingRanWhenItSaysSo`: `NothingRan`, from a second invariant, `Numbering` (acts are numbered as
  they are proposed, so what a take has done bears a number already given out, and never the number
  of the act it has stopped short of)

The assumptions are the ones the modules name: `ActsAssumption` (the absent value is no real value,
malformed recipients are recipients, the empty corpus is a corpus) and `TakesAssumption`.

None of the three safety invariants is inductive: an effect appears in one step from a decision
issued in an earlier one, so the state of the *open block* has to be described. `GovernanceInv` adds
`Grants` (references are never reused; a decision made from a wait has spent it and is about its
question; a send is never allowed without one), `Blocks` (an open block holds a decision of its own,
which no effect has used, about what its node will do, and the stamp's record agrees with it) and
`Ledger` (an effect has a decision about it that no other effect used). The proof has one lemma per
kind of step: `QuietStep` for the steps that touch neither plane nor effects, `OpenWaitStep` and
`OpeningStep` for waits, `IssuingStep` for the allowing asks, `ActingStep` for bodies; and one per
group of actions for types. `PerformedIsTheQuestion` is where the projections matter: off the read,
what a body does is what the question said, because both come from one resolution.

`TakeProofs`, about what carries from one step to a later one:

* `ReasksAreTheSame` (`ReaskIsTheSameAsk`): while a take names a wait it stands at the send it asked
  about, and the question it would put is the wait's (`Matches`), because a wait that was opened keeps
  its question and a send's question does not depend on the corpus;
* `SendsTheSavedReport` (`SendDeliversTheSavedReport`): a text once saved stays what the state calls
  the report, and a send performed later than the write it was saved by carried it;
* `PromiseKept` (`KeepsThePromise`): `Governance` implements `Authority`. Initial states map to initial
  states (`PromiseStarts`); for the steps there is one lemma per kind, each saying which step of the
  promise it is or that it is none. Beside `GovernanceInv` it needs that a wait is only ever open for
  a capability the policy suspends (`WaitsAreForSuspended`);
* `OnlyWhatThePolicySays`: a decision has an approval behind it exactly where the policy suspends, and
  there is none where it denies (`DecidedByThePolicy`); with `Ledger`, whatever ran was decided so, and
  off the read about exactly that act. The violation of `Governance_read` is therefore about reads and
  nothing else.

`WholeTakeProofs`, for any number of takes, any list of required acts and any bounds
(`WholeAssumption`):

* `TurnsAreGoverned` (`WholeSpec => Spec`): a turn of the node is a `Propose`, `Correct` or `Finish`
  (`TurnIsAStep`), so every theorem about `Governance` holds of takes with their node in full;
* `EachNodeIsALoop` (`WholeSpec => Node(t)!Spec` for every take of `main`) and `LoopsRun`
  (`RunsTheLoop`, all of them together): a turn is the loop's turn (`TurnMaps`), the return of a body is
  `ToolReturns`, an exception, a denial, an exit or a crash is `Leave`, and asking, suspending,
  waiting and resuming are nothing to the node (`OnwardMaps`). What other takes, the plane and a person
  do leaves it alone;
* `OneReportOnly` (`OneReport`) and `WorkBeforeTheReport` (`ReportFollowsTheWork`);
* `CompletedMeansDoneOrLetOff`: a take reported as completed attempted every required act, or was sent
  back `MAX_NUDGES` times, or called an unknown tool with no correction outstanding; and a model is
  sent back at most once per correction and once per call.

They rest on `WholeInvariant` (`WholeInv`): the node's members keep their values, and for each take of
`main` the run is over for the node exactly when the invocation is completed (`Settled`); inside a
governed node an act is pending, and a write that happened had a text (`InsideANode`); a request is
open only while there is no draft, and both come after the work the report is about (`Window`); and
every text saved or sent is the draft (`CarriesTheDraft`). The last is what makes one report of
several acts, and is inductive only with `Saving` of `TakeProofs`, which says that what the state calls
the report is the draft. Takes disturb each other's nodes in no step (`OthersStay`, `NodeUntouched`).

`StreamProofs`, for a log of any capacity, any number of acts and any failures of the printer
(`CapacityAssumption`: the log holds at least one record):

* `AccountingIsInvisible` (`StreamSpec => Spec`): every step of the account is a step of the takes, so
  every theorem above holds of the takes with their account;
* `StreamTypes` (`StreamTypeOK`) and `GapsDeclared` (`GapsAreDeclared`): the records held are the last
  ones made, numbered without a gap (`LogInv`), a sink holds only older ones, and what is missing from
  it altogether, the records gone from the log less the lines of evidence, is at most what the log has
  counted (`SinkInv`). The lemmas say what keeping, flushing and hearing an answer do to the three;
* `NothingIsOwed` (`NothingOwed`) and `TheFileAccounts` (`FileAccountsForEveryAct`): an act is *lost* to
  a sink when no line, no record held and no open block has its decision (`Lost`). What is lost is at
  most what the log counts, and when the log is empty some line of the stream says as much
  (`Settled`): a record that makes another one go is still held itself, so the next flush has a line
  that declares the loss. That one decision stands for one act is `Ledger` of `GovernanceInv`.

`ReasonLoopProofs`, for any list of required acts and any bounds (`ReasonLoopAssumption`):

* `SavedIsDraft` (`SavedReportIsTheDraft`), `DraftNeverChanges` (`DraftIsWrittenOnce`): from the
  invariant that a request for the report is open only while there is no draft and nothing saved;
* `UnfinishedAnswersWereCorrected` (`UnfinishedWasCorrected`): from the invariant that corrections
  are counted when they are made;
* `LoopTypes` (`TypeOK`) and `RequestsAreInTheirWindow` (`RequestedInItsWindow`): the first of the acts
  still missing is the write, and everything listed before it has been attempted.

`RunDirectoryProofs`, for any number of invocations (`RunDirectoryAssumption`):

* `DirectoryTypes` (`TypeOK`), `CarefulOperators` (`CarefulOrphansNothing`), `NothingIsKept`
  (`ResetKeepsNothing`), and the action property `RemovalsAreOverTheDead` (`RemovesOnlyOverTheDead`).
  Three facts carry the reading of the record through every step of the removal: a reset that removes
  read a process that runs no more (`Stopped`); who has served never serves again, so that what is
  gone from the store when a reset reports does not come back (`Served`); and for a careful operator
  one script runs at a time and the record names the daemon that serves (`Careful`). That a report is
  made only of a directory that was found empty is the code's order under `set -e`, and what
  `NothingIsKept` turns on.

`GateRoutesProofs`, for any distributions, any client, any releases and any number of runs
(`GateAssumption`: the client is no distribution, and *not installed* is no copy):

* `GateInvariant` (`GateInv`), `GateTypes` (`TypeOK`), `RecordsAreTrue` (`IndexRecordIsTrue`),
  `RoutesAreNamed` (`FullRunNamesItsRoute`), `NothingIsBorrowed` (`FindsOnlyWhatItDelivered`)
* `CheckoutsAreKept`: the action property `CheckoutsSurviveAPlainRun`
* `UpToDateIsKept`: a plain run removes nothing of what the index installed while that is what the
  project pins and the record of it stands. The violation of `GateRoutes_plain` needs one of the two
  to fail.

That a record is true is not inductive: it is written after an install that took many steps, of which
some packages were skipped because an *earlier* record said they were the index's. `GateInv` adds
`Stages` (where a run is and what it may have become), `Bracket` (while an install is open there is no
record, and what is not still to do is as asked for), `Behind` (what the finished part of a run has put
in place) and `Kept` (what checkouts completely filled is on record, or has just been read off it).
The step lemmas follow the bracket: opening it, working inside, closing it, failing in it.

`StartupProofs`, for any names, any values, any caller and any file, of any length
(`StartupAssumption`: the five names the addresses, the mode and the key depend on are read, a value is
a word with or without blanks, and *unset* is no value, stripped or not):

* `CallerWins` (`CallerThenFirstLine`): the invariant `ReadInv` adds that the names assigned are those
  of the lines read, which is what a look back at the file would find. `First` chooses the least line
  that assigns a name, so the lemmas `LeastLine`, `FirstIsLeast` and `OneMoreLine` say what the choice
  is and what one more line changes.
* `AddressesAgree` (`OneAddress`): the address a process reaches depends only on what its file makes
  of the caller's environment (`Destination`), which is the same for both processes.
* `NoFallback` (`NothingIsSubstituted`): an engine is chosen last, from settings that were usable.
* `ReadyMeansReady` (`ReadyStarts`): the operators a program computes from its environment once it is
  read are the same for both programs (`Final`, the module instantiated with the environment read to
  its end). `Established` says what each stage of a check without a negative observation has made
  certain about the settings, the daemon and the endpoint's open listing, with one lemma per stage;
  `SameSocket` says that an unpadded name leads both to one socket. Of the key the check establishes
  nothing, which is the third exception (`BuildingEstablishes`).
* `StartupTypes` (`TypeOK`).

Only model-checked: the liveness properties `EveryTakeEnds`, `ApprovalReachesTheTake`, `RunEnds` and
`ResetEnds`, which are out of the prover's reach. Every safety invariant and every action property of
a passing run is proved. `Node(t)!Spec`, a temporal formula per take, is proved but not given to TLC,
which takes none with a parameter; `RunsTheLoop` says the same of the steps of all takes and is both
checked and proved. What `ReasonLoopProofs` proves of the loop is not quoted for `Node(t)`: the prover
cannot cite a theorem of an instance with a parameter, so `CompletedMeansDoneOrLetOff` is proved
of the takes themselves.

## What is not modelled

* *Transcripts* are single behaviours of `ReasonLoop`, which admits every list of replies.
* *The shapes of a tool call's arguments* (`_parse_arguments`, `_unwrap`): pure parsing. A turn that
  fails to parse is `ReasonRaises`; what an act's arguments are is arbitrary.
* *Settings*: display names, scope, principal and paths; *app*: argument parsing and every line
  printed; *stream*: the lines that are neither evidence nor a person's answer.
* *Gate*: the tests it then runs, two gates at once; *bootstrap*: the writing of `.env`.
* *Start script*: the syntax of a principal and the rendering of the policy. *Process ids* are never
  reused, so a recorded id that another program has been given since is out of the model.
* *Release, contribution and documentation checks*: text checks over the repository, with no state.
* File names and their refusal, the JSON of an artefact, colours and layout throughout.

## Plan

1. *(done)* `Acts`, `Authority`, `Governance`: the promise and its implementation.
2. *(done)* `ReasonLoop`; `RunDirectory`.
3. *(done)* `GateRoutes` and the theorems about its records.
4. *(done)* `OutcomeLog`, `Stream`.
5. *(done)* `Startup` and the theorems about what is read and where it leads.
6. *(done)* Proofs of every safety property, of the refinement of `Authority` and of the account.
7. *(done)* `WholeTake`: the reasoning node in full inside the takes, with its refinements of
   `Governance` and of `ReasonLoop`.
8. *(left)* What the promise entails by itself, as invariants of `Authority`, proved there and carried
   over to the takes; `Stream` over `WholeTake`.
