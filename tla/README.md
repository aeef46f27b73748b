# Pixelle in TLA+

Pixelle is a coding agent for the terminal: a model/tool loop that edits a
workspace, verifies what it did, repairs it, and takes it back when the run
fails. Everything runs in one Node process on one event loop, so its
concurrency is that of `await`: whatever is awaited may throw, hang, or settle
late, and other callbacks run meanwhile. The modules here follow the source
from one `await` to the next.

Paths below are relative to `src/src/` unless they begin with `tests/` or
`docs/` (which are `src/tests/` and `src/docs/`).

## 1. Inventory

| Component | State it keeps | Operations | Talks to |
| --- | --- | --- | --- |
| Agent run (`agent/agent.ts`, `agent/runtime/run-state.ts`, `observer.ts`) | iteration, stop reason, task status, finalization report, registry of active runs | `runInternal`, `executeRun`, `finalizeRun` | everything below, by awaited calls; events to the bus |
| Verification and repair (`agent/runtime/verification-pipeline.ts`, `runtime/verification/verifier.ts`) | repair attempt, results of the round; per command a process, timer and listener | `verifyAndRepair`, `Verifier.verify`, `runCommand` | command policy, child processes, the model/tool loop (repair) |
| Change tracking (`runtime/change-tracker.ts`, `agent/runtime/change-runtime.ts`) | map of tracked files, dirty flag | `writeFile`, `checkpoint`, `rollbackAll` | file system, checkpoint store |
| Tool execution (`tool/tool-runner.ts`, `agent/runtime/tool-runtime.ts`) | per call: timer, abort listener, settled result | `ToolRunner.run`, stream callback | the tool's promise, the run's signal |
| Tools (`tool/bash`, `tool/fs`, `tool/web`) | per call: child process, timer, listener; the cached answer whether ripgrep is there | `execute` of seven tools | child processes, the network, the file writer |
| Event bus (`events/event-bus.ts`) | listener sets, bounded history | `on`, `once`, `off`, `emit`, `clear`, `replay` | listeners, synchronously |
| Event stream of a run (`Agent.stream`) | queue, waiters, generator | `push`, `next()`, `return()` | a run and its consumer |
| Model request (`llm/request.ts`, `llm/provider/*`, `agent/runtime/model-runtime.ts`) | attempt, timer, streamed content | request, retry, time out, stream, fall back | the provider |
| Interactive CLI (`cli/local/run-local-cli.ts`, `config/local-cli-config.ts`) | `config`, `agent`, `running`, `pendingEdit` | user input, `/workspace`, `/config`, `/edit`, runs | agent, config.json, setup dialogue |
| CLI view state (`cli/state`, `cli/runtime-events.ts`) | messages, tools, timeline | a reducer over events | bus |
| Context building (`context/budget`, `context/transcript`, `context/context-pipeline.ts`) | budgets, transcript | project, compact, truncate, check the limit | model request |
| Context collection (`context/collector`) | results of providers | run providers with timeouts | providers |
| Command policy (`runtime/policy`) | none; decides per command line | `parseCommand`, `classifyCommand`, the ordered rules, `canRun` | asked by the bash tool and the verifier |
| Prompts, terminal UI | none that outlives a call, or rendering only | | |

`PROJECT.json` lists all of them with what is modelled of each.

What is hard in this code, and which property is about it, is the `hazards`
list of `PROJECT.json`. The themes:

* **Giving up is not stopping.** A tool or a request that loses its race
  against a timer or an abort goes on executing (`tool-runner.ts:139`,
  `request.ts:112`) and may write, stream or answer later.
* **A signal is a level, looked at in places.** It fires between any two
  awaits; the loop head, the tool runner and the verifier look at it, other
  code does not.
* **Finalization may fail as well**: rollback, memory, middleware and
  listeners throw, and still the run owes one terminal event sequence.
* **Check, then await, then act**: rollback reads a file's hash and then
  writes it; `/workspace` looks at `running` and then awaits three times.
* **Listeners are programs** that call the bus from inside its loops.
* **The user is a concurrent process**: edits files, types commands.
* **A window is arithmetic over many parts**: what is reserved, budgeted, cut
  and finally counted is computed in different files, and each turn anew from
  the whole transcript.

## 2. Modules

| Module | Models | Status |
| --- | --- | --- |
| `RunContract` | abstract: what `Agent.run()` promises its caller | checked, refined |
| `AgentRun` | the run with verification, repair, tools, rollback, finalization | checked, safety proved |
| `AgentRunProofs` | theorems about `AgentRun` | proved |
| `ChangeTracker`, `MCChangeTracker` | writes, checkpoints and rollback, step by step | checked, safety proved |
| `ChangeTrackerProofs` | theorems about `ChangeTracker` | proved |
| `ToolRunner` | the calls of one model response | through `Tools` |
| `Tools` | the bodies of the built-in tools, under the runner and beside each other | through `Verifier` |
| `CommandPolicy` | parser, classifier and rules that decide whether a command line may run | through `Verifier` |
| `Verifier`, `MCVerifier` | a round of a run: the calls of a response, then the verification with its processes | checked, safety proved |
| `VerifierProofs` | theorems about a round: what goes on after the runner gave up, what it reports, the command policy, the verification | proved |
| `EventBus`, `MCEventBus` | the bus and its re-entrant listeners | checked, safety proved |
| `EventBusProofs` | theorems about `EventBus` | proved |
| `RunStream` | `Agent.stream` between a run and its consumer | through `CliView`, safety proved |
| `CliView` | what the terminal shows of a run, behind its stream | checked, safety proved |
| `CliViewProofs` | theorems about `RunStream` and `CliView` | proved |
| `ModelCall` | one model request with retries, timeouts, streaming and fallback | checked, safety proved |
| `ModelCallProofs` | theorems about `ModelCall` | proved |
| `LocalCli`, `MCLocalCli` | the start of the interactive CLI, its closure, and the death of its process | checked, safety proved |
| `LocalCliProofs` | theorems about `LocalCli` | proved |
| `ContextWindow` | the algorithms that fit a request into the token window | through `ContextBuild`, proved about |
| `ContextBuild`, `MCContextBuild` | collection of context, and one build per turn over a growing transcript | checked, safety proved |
| `ContextBuildProofs` | theorems about `ContextWindow` and `ContextBuild` | proved |

The components meet where they call each other, and each module treats its
neighbour by the neighbour's verified interface:

* `AgentRun` takes a tool call as "settles, perhaps leaving its execution
  behind" -- that a call always settles is `EveryCallReturns` of `Tools`, that
  what is left behind has been told to stop is `GivenUpIsStopped`, and that it
  begins no new write is `NothingBegunAfterGivingUp`. The write it had begun is
  the abandoned writer of `ChangeTracker`.
* `AgentRun` takes a rollback as "restores, or reports what it could not
  restore" -- what `ChangeTracker` shows file by file. Where `ChangeTracker`
  shows that a write cannot be undone (a file the run created is written
  twice; a write fails half way), `AgentRun` has the disk state `"lossy"`.
* `RunStream` takes the run as a source of events that ends -- `EndsUnlessHung`
  of `AgentRun`; that it closes only when the run is over (`StreamIsTheRun`) is
  what `LocalCli` relies on when it sets `running` to false after its loop over the stream.
* `ModelCall` is the await `"model"` of `AgentRun`.
* `ContextBuild` is the preparation of `AgentRun` (`ContextPrepared`) and what
  precedes each of its model requests (`RequestBuilt`); a refused build is one
  of the exceptions `Throws` stands for.

### AgentRun

`pc` names the await the run is suspended at; an action is the code from that
await to the next, with all the synchronous calls in between. `Start` to
`ContextPrepared` are the preparation; `RequestBuilt`, `ModelAnswers`,
`ModelRequestsTools`, `BeforeToolReturns`, `ToolSettles`, `AfterToolReturns`,
`CheckpointReturns` the loop, which with `stage = "repair"` is also a repair
attempt; `CommandExits` a verification command; `RollbackReturns`,
`RollbackThrows`, `SaveSettles`, `AfterRunSettles` finalization; `Throws` an
exception out of any awaited call, caught by `runInternal`. The environment
may abort, and tools the runner gave up on may write (`LateWrite`) and end.
The decisions of the code (`CanContinue`, `LoopReason`, `VerdictReason`,
`NeedsRollback`, `FinalStatus`, `FailReason`) are operators of their own.

Abstracted: contents of messages, context, memory, and of files (the disk is
`"original"`, `"changed"` or `"lossy"`); a late write counts when it ends;
events other than the terminal ones; issues the observer collects. Tools run
one after the other, as in the code.

### ChangeTracker

`writeFile` in its four steps (`BeginWrite`, `ReadOld`, `WriteDisk`,
`RecordWrite`, or `WriteFails`), `checkpoint` (`StartCheckpoint`,
`SaveReturns`, `SaveThrows`) and `rollbackAll` (`StartRollback`, per file
`RestoreCheck` then `RestoreWrite` or `RestoreFails`, `FinishRollback`), with
abandoned writers and `UserEdit` between any two. Contents stand for their
SHA-256 hashes, taken to be injective. The history variables (`original`,
`touched`, `edited`, `raced`, ...) are read by properties only.

### ToolRunner

Per call: `phase` (where `run` is), `exec` (the tool's own promise), `timer`,
the abort listener, the controller's signal. A tool may win with any ending,
may react synchronously to the signal, or ignore it; the runner closes the
call once. Codes and terminal events are those of `toTerminalEvent`.

### Tools

`body` is where each call's tool is: `at` names its await, `child` the process
it holds, `timer` its own timer, `listens` whether an abort will kill the
process. `Starts` is the runner's dispatch together with what `execute` does up
to its first await; `ShellExits`, `ProbeExits`, `SearchExits`, `ListExits` are
the "close" or "error" of a process, `WalkReturns` and `ScanReturns` the
fallbacks of glob and grep in Node, `ResponseArrives`, `TextArrives` and
`FetchFails` web_fetch, `FileRead` and `FileWritten` the file tools.
`TimesOut` and `Aborts` are the runner's steps with the abort event of the
call's signal in them. A body goes on after its call was closed, and the next
call of the response runs beside it; they share `available`, the cached answer
of the ripgrep probe. A killed process need not exit: the code kills the shell,
not what the shell started. A cached probe is awaited for microtasks only and
is no step. `does` is what the command of a bash call would do: the call spawns
only what the policy lets run (`MayDo`, `MayDeny`). Contents, matches, texts, limits of
output and resolved paths are left out.

### CommandPolicy and Verifier

`CommandPolicy` is a library of operators: `Segments` and the `Has...` tests are
`parseCommand`, `Category` is `classifyCommand`, `Decision` the ordered rules, of
which the first that matches decides. A line is the sequence of its words. The
parser looks for control operators in the whole text, in quotes or not, so a
quoted text that holds one is a word of its own kind. `Rulings` is what may be
asked to run, with what the shell does for it. `Does` says this per command; it
is an input of the model and not derived from the policy, so that the two can
disagree. Joins are of two kinds. `SeenRulings` has those the parser looks for,
with the effects of both commands. `UnseenRulings` has those only the shell
knows, which spawns the line with `shell: true`: a single `&`, which is one more
word to the parser; a newline, which is a blank, so that the words of both
commands become one command; and `>` without a blank before it, which glues two
words into one (the pattern of `command-parser.ts:16` needs the blank). What such
a line does behind the join is the effect `"unseen"`. `Flags` are the words that
begin with a dash, by which the classifier finds git's subcommand.

`Verifier` puts `Verifier.verify` beside the calls of `Tools`. `Verify` selects
the commands (those of the caller or of the workspace, `SelectedCommands`), and
passes over the rejected ones to the first that is spawned (`Continues`, the
loop from one await to the next); `CommandCloses`, `CommandErrors` and
`CommandTimesOut` are the events of the process and of its timer, and `AbortsBoth`
the abort of the run, which both listen to. A listener that is added after the
abort is never called: `listens` is then `FALSE` from the beginning. A process
that was told to stop may still close with any exit code.

### EventBus

The state is a stack of suspended loops. `Deliver` is one turn of the loops of
`emit` (typed listeners, then wildcard), `ReturnToReplay` one of `replay`; the
code on top of the stack may take any action of the bus, or `Throw`. Iteration
over a JavaScript `Set` visits entries in insertion order, including entries
added meanwhile: `NextEntry`. Middleware is a choice of type, or a drop.
`replay()` without arguments iterates the live history, with a filter a copy.

### RunStream

The queue, the waiter and the suspension points of the generator (`gen`), the
consumer's queued requests, and the run as a source of numbered events.
`Closes` is the `finally` that awaits `runPromise`.

### CliView

`CliView` puts the reducer of `cli-state.ts` behind `RunStream`. An event of the
run is stamped when the bus publishes it (`Publish`) and reduced when the
consumer gets it (`EventArrives`); notices, errors and `/clear` of the CLI
(`CliEmits`) are stamped and reduced at once and overtake what is still queued.
`Reduce` is the reducer followed by `compactCliState`, one operator per kind of
event. `Before` is the comparison by which `timeline.ts` sorts the rows of the
`Lists`; an order that no two rows tie in has one sorting, so the property is about
the comparison and the sorting is not computed. Texts are sequences
of the numbers of the deltas they come from, so that a gap, a repetition or a
cut shows. The order in which a run publishes events (`MayPublish`) is that of
the observer's calls in the agent.

Left out: help and debug toggles, `lastError`, image previews, details of a row
that are only rendered, and `runtime-events.ts`. Events of the run are a tick of
the clock apart; one of the CLI may share the tick of the event before it. An
event whose bus listener throws never reaches the stream, and is not modelled.

### ModelCall

`at` is the await; `Send`, `ProviderAnswers`, `ProviderFails`, `TimerFires`,
`BackoffEnds` are `requestWithRetry` over `requestWithTimeout`; `ContentDelta`,
`ToolCallDelta`, `ReadFails`, `ReadEnds` the loop over the stream; `ModeThrows`
the fallback from `stream()` to `generate()`. One tool call stands for those of
an answer. The run's abort signal is not passed to the model by the code, so
there is no abort here. Retries inside the provider SDKs are external.

### LocalCli

One action per stretch between two awaits of `/workspace` (`SetWorkspace`,
`WorkspaceExists`, `Opens`, `WorkspaceSaved`, `WorkspaceSet`), of `/config`
(`Reconfigure`, `SetupReturns`, `Opens`, `ConfigSaved`, `ConfigSet`,
`ReconfigureFails`), and of input (`AskForEdit`, `AnswerYes`, `AnswerNo`,
`Prompt`), with the run ending at any time. Handlers are not awaited, so
several are in flight at once. `config.json` is written in place: opening it
leaves it `Empty`, and two saves that overlap may leave a mixture (`Torn`).

The process may die at any point (`Dies`), the middle of a save included. All
that the next start has is the file: `Starts`, `StartsWithSetup`, `StartSaves`
and `StartSaved` are `ensureConfig`, `StartFails` the start that finds a file it
cannot parse. `told`, `overlapped`, `saveFailed` and `cut` are history variables
that say in which behaviours a promise holds; a start forgets those of earlier
processes.

### ContextWindow and ContextBuild

`ContextWindow` is the pipeline of `src/context` as operators: `Projected` and
`Archived` (transcript projection), `Registered` (registry), `HardInputLimit`,
`Available` and `FixedOverflow` (budget), `Compacted` (transcript budgeter),
`Compressed`, `Truncated`, and `Build`, which composes them in the order of
`ContextPipeline.build`. Budget arithmetic keeps the source's constants: the
reserve for the answer, the margin, the thresholds, the overheads. A message or
a section is a record with its token count, and counts of joined texts add up
(a tokenizer may merge tokens where texts meet; the named counts `HeadingTok`,
`SepTok`, `SummaryHeadTok`, `MarkerTok` stand for the fixed texts). What a cut
leaves of a text depends on its line breaks: `Shares` are the extremes and any
build may meet any of them, as may the summary's text. What is kept of a
list, and in which order, is said by its places: `Filtered` takes a set of places,
as `Kept` is, and `Arranged` puts what is at them in the order in which the
sets of the places up to each grow. There is neither sorting nor recursion in
it, so that it can be reasoned about; only `Tokens` is a recursive function.

`ContextBuild` runs it. `ProviderSettles` and `ProviderTimesOut` are the races
of the provider executor, `Prepare` the merge of what they gave,
`BuildModelRequest` a turn of the agent's or the repair's loop, and the other
actions the growth of the transcript. A value that a caller or a provider gives
has the priority it names, one of `Priorities`, or that of its source. Once
prepared, a race is `"collected"`: nothing looks at it again. Nothing a build compacted is remembered:
the next one starts from the whole transcript, as in the code. Diagnostics are
left out, and the memory blocks are among the user sections.

## 3. Runs

| Run | Question | Bounds |
| --- | --- | --- |
| `agent_run` | Do outcome, terminal events, rollback and verification of a run agree, does it implement `RunContract`, does it end? | 3 iterations, 2 repair attempts, 2 tool calls per response, 2 verification commands |
| `agent_run_abort` | *violation*: an abort during verification is not a cancellation | as small as shows it |
| `change_tracker` | Does rollback restore the run's work, and only that? | 2 files, 2 contents, 2 writers, 3 writes, 1 edit; symmetric |
| `change_tracker_rewrite` | *violation*: a file created and written again is not removed | 1 file, 1 writer, 2 writes |
| `round` | One terminal event, the right code and cause per call; is what runs on told to stop, and does it begin nothing more; does every call return; is what the policy looks at of a line that runs harmless; is a verdict earned? | 2 calls, each any of 8 tools, 2 stream events, 2 commands to verify with, 30 command lines and their joins in pairs, 16 workspaces |
| `event_bus` | Are subscribers, `once`, history and replay right under re-entrancy and listeners that throw? | 2 types, 2 subscriptions, 4 emits, history of 2, depth 2; symmetric |
| `cli_view` | Is the stream a reliable queue that ends with its run; does the view tell what the run said, in the order in which it happened? | 6 events, 2 requests ahead, 1 call id, 1 event of the CLI, lists of 2 rows, texts of 1 delta |
| `model_call` | Is the answer that of the last attempt, and what was shown what was answered? | 3 retries |
| `local_cli` | Do agent, memory and config.json agree, and what does the next start find wherever the process dies; is every edit confirmed? | 2 workspaces, 2 models, 3 handlers, 2 edit requests; symmetric |
| `local_cli_running` | *violation*: the workspace changes under a run | 1 handler |
| `context_build` | Do requests keep exchanges whole, the task, and the failure to repair; does a build that reports no loss have none but those that are so by design? | 3 windows (5600, 8000, 20000 tokens), 2 providers, values without a priority or with one of 1000, 3 histories (one with a system message), 2 calls per response, 3 turns |
| `context_refused` | *violation*: a request is refused that fits when cut more | the same |

**Why the bounds are enough.** In `AgentRun` a third iteration is one that is
neither first nor last, a second repair attempt follows a failed first one, and
a second tool call or command lets an abort fall between two. Two files make
one rollback both succeed and conflict; three writes are a file written twice
and another in between, two writers an abandoned write beside an awaited one. A
history of 2 overflows with the third of 4 events, twice; depth 2 is a listener
inside a listener. Of two calls of a response the first is given up while the
second runs beside it, or an abort falls between them. In `CliView` two rows
make a third fall off its list, one kept delta makes a second be cut, and the
one call id is used again by a second call; the bounds `MaxRows` and `MaxText`
stand for 40, 80 and 24,000 in the source. With three handlers of `LocalCli` one may be
overtaken by two. A second command to verify with may follow one that passed,
failed, was killed or was rejected. The command lines of `MCVerifier` have one
for each pattern, category and rule of the policy, and joined in pairs they
stand before and behind each operator, and each join of the shell that the
parser does not know. One priority other than the source's own, that of the
failure itself, is enough for a value to come before the failure. The three windows of `ContextBuild`
are one that compacts the transcript and has no room for sections, one that
cuts sections, and one that fits everything; with three turns there is an
exchange that is old, one that is the newest, and a repair after them; small
and large messages decide between cut and whole. One provider has a timeout and
one has none. Equal call ids in two turns shadow each other's archived results.
The proofs in section 5 remove the bounds for every safety property of
`AgentRun`, `RunStream`, `CliView`, `LocalCli`, `ChangeTracker`, `ModelCall`,
`EventBus`, `ContextBuild` and a round (`Tools`, `Verifier`), but for the violated ones.

**Symmetry** is used with invariants only.

**Deadlock** is checked in every run but `cli_view`, where the consumer may
stop asking for ever, and those of `ContextBuild`, where a run ends.

### Fairness

* `AgentRun`: `Start` awaits nothing; a tool settles because `ToolRunner` bounds
  it by a timer. No other await is bounded by the code (a hook, the provider, a
  verification command whose children hold its pipes), so none is fair and
  `EndsUnlessHung` excepts a run that stays at one of them for ever: what it
  shows is that the loops end, together, and that no tool hangs a run.
* `Tools` and `Verifier`: the runner's own steps and timers. No step of a tool is fair, nor is
  its own timer. `Return` is, since the event callback it waits for is synchronous in this
  program (`ToolRuntime.handleRunnerEvent`).
* `ModelCall`: timers and the steps after them; the provider is not fair.
  Reading a stream has no timer, and `EndsUnlessStreamHangs` excepts it.
* `ContextBuild`: the timers of the providers that have one, and the step after
  the last race. A provider without one is not fair, and
  `CollectedUnlessProviderHangs` excepts it.

## 4. What the violated runs show

The four runs marked *violation* are counterexamples to a sentence of the
repository; `PROJECT.json` quotes the sentences under `findings`.

1. A signal that fires during verification or repair ends the loop, but the
   stop reason is computed without it: the run reports `error` or `completed`.
2. `writeFile` takes `existing?.beforeContent ?? <content on disk>`; for a file
   the run created `beforeContent` is `undefined`, so its second write records
   the first write as the old content.
3. `/workspace` replaces config and agent although a run started meanwhile.
4. A section is cut to the room the budget leaves, but the heading the sections
   are put under was not counted: the request is over the limit by the heading,
   and refused, although it would fit with less of that section.

The passing properties name the other exceptions of the code where they occur:
edits between a rollback's check and its write (`raced`), writes recorded
during a save (`lateMark`), writes that an abandoned tool makes after the
rollback has passed its file (`abandonedOnce`), writes that fail half way (`damaged`, `"lossy"`), a
configuration save that throws (`saveFailed`), a search that grep or glob spawns
after its call was aborted during the probe, and leaves to its own timer
(`GivenUpIsStopped`), the answer of a failed run, whose row stays marked as
streaming (`NothingGoesOn`), a call id used again, whose row replaces the
earlier one (`ToolsShown`), listeners that throw (they end
the emit for those after them, and `SubscribersHear` speaks only of those whose
turn had come), a save of config.json that is cut off by the end of the process
(the file is empty, and every later start throws, `/config` included: `NextStartFinds`),
tool arguments that are cut off and executed as
`{}` (`AnswerIsCurrent`), call ids used twice, whose older results a build
drops without a report, system messages of a caller, which the projector
ignores (`tests/transcript-projector.test.ts:9`), and the middle of a result that
the compressor finds too long for a section (all three: `UnreportedLossless`),
a context value whose caller or provider gave it the priority of the failure or
a greater one, and which may come first (`RepairSeesFailure`), and a replay over the live history, which can
pass over an event when its listener emits.

`OnlyHarmlessCommandsRun` is about what the policy looks at. Three things that it
does not look for are in the model, as effects with names of their own, and run
unasked: a branch that `git branch` makes of a name (`"branches"`); an option
that the classifier does not list, given to a reading or to a script, such as
the one that names an output file for `git diff` (`"option"`); and what stands
behind a single `&`, a newline or a glued `>` (`"unseen"`). No doc of the
repository promises otherwise: `parseCommand` says that it extracts "enough shell
structure for safety decisions without attempting to emulate a real shell
parser" (`command-parser.ts:6`).

## 5. Proofs

`AgentRunProofs` proves, from `BoundsAssumption` (the bounds are natural
numbers) alone, for every number of iterations, repair attempts, tool calls and
commands:

| Theorem | States |
| --- | --- |
| `Invariance` | `Spec => []IInv` |
| `TypeCorrect` | `[]TypeOK` |
| `TerminalCorrect` | `[]OneConsistentTerminal` |
| `LeftoversReported` | `[]FailedRunLeavesNothing` |
| `SuccessEarned` | `[]SuccessIsEarned` |
| `AbortCorrect` | `[]CancellationIsAborted` |
| `AbortStopsWork` | `NothingStartsAfterAbort` |
| `Refinement` | `ImplementsContract` |

None of the invariants is inductive by itself: that the terminal event agrees
with the status at the end needs to know what was decided before, and that
needs to know that nothing had been decided while the run worked. `IInv` is
`TypeOK` with

* `CountersInv`: a counter about to be decremented is positive;
* `PendingInv`: nothing of the outcome is decided while the run works;
* `OutcomeInv`: what `finalizeRun` has established at each of its awaits;
* `AbortInv`: the cause of an abort, and what became of it;
* `ChangesInv`: changes on disk are tracked until undone or reported;
* `VerifiedInv`: the round that decides saw every awaited write.

The code returns to the loop, to a verification command or to finalization from
many places; the proof first shows that all of them are one of three
continuations (`Repeats`, `Verifies`, `Stops`) and then, once, that each
continuation keeps the invariant (`ContinuationKeeps`). `SuccessEarned`
adds `AnsweredInv`, inductive relative to `IInv`. The refinement maps each step
to a step of `RunContract` or to a stutter.

`CliViewProofs` proves, from `StreamAssumption` (the bounds are natural numbers,
and at least one request may be made) and `ViewAssumption` (the bounds of the
lists and texts, and the special values), for every number of events, requests,
call ids, rows, deltas, and events of the CLI:

| Theorem | States |
| --- | --- |
| `StreamInvariance` | `Spec => []IInv`, of `RunStream` |
| `StreamCorrect` | `[]StreamIsTheRun`, of `RunStream` |
| `ViewStream` | `[]StreamIsTheRun`, under the view |
| `ViewTypes` | `[]ViewTypeOK` |
| `TimelineOrdered` | `[]TimelineInOrder` |
| `ViewTold` | `[]ViewTellsTheRun` |

*The stream.* That the consumer got the first events in order says nothing of
those it has yet to get. `QueueInv` says that the queue continues what was
received, with the end behind the last event, and `CountInv` that nothing is
missing between them. From the two it follows that a generator which finds its
queue empty has a run that still goes on (`SleepKeeps`), so that no wakeup is
lost, and that the end is taken only when nothing is left (`TakeKeeps`).

*The view* moves by one of six kinds of steps (`StepsAre`): nothing of it moves,
the run says something that waits or is seen at once, the next event in the
queue is seen, the CLI shows an event, or a notice that begins and ends in one
call. Each kind is shown once to keep each of two invariants.

`ViewInv` is about the order of time. A row's place among the others is its
time and then the count of events when it came. The invariant (`Timed`) says
that places are distinct across all lists, that what happened later has the
later time, and how the rows compare with the events that are said but not yet
seen (`RowsAgainst`): those of the run lie before them all, those of the CLI may
not. It rests on what a reduced event does to a list (`Moved`): rows keep their
stamps, or move to the one new place; compaction only drops the oldest.

`TellInv` is about what the rows say, with `Told` in three parts. `AnswerTold`:
the row of the answer quotes the deltas seen so far (`Quotes`) in order and
without a gap, from the first unless rows were forgotten, and to the last unless
the text is cut. `Stilled`: only the answer's row streams, and not after "done".
`ToolsTold`: each call's row has the status and the latest output that the
events since its latest start give it, and every call has a row unless rows
were forgotten. None of this is inductive without knowing what a run may say
(`Orderly`): an output or an end of a call follows its start, with no end of
it in between, and "done" comes with no call open. And the property says
"nothing goes on" after the *stream* has ended, so the invariant has `EndsInv`: a
stream ends behind the last event of a run, and that one is a terminal event.

`LocalCliProofs` proves, from `CliAssumption` (there is a workspace and a model,
and the number of requests is a natural number) and the distinctness of the
special values, for every set of handlers, workspaces and models:

| Theorem | States |
| --- | --- |
| `TypeCorrect` | `[]TypeOK` |
| `EditsConfirmed` | `[]EveryEditIsConfirmed` |
| `ConfigurationAgrees` | `[]OneConfiguration` |

That configurations agree when nothing is in flight says nothing of the
commands that are, so the invariant follows a command on its way: `ProcessInv`
says what a process that is not up has not begun, `LocalsInv` what each handler
keeps in its locals at each await, `AgentInv` when agent and configuration may
differ, `SoloInv` that a handler which has been alone saves what it assigned,
and `FileInv` what is in the file at each point of a save.

`ChangeTrackerProofs` proves, for every set of files, contents and writers and
every number of writes and edits, from the assumptions that name these sets:

| Theorem | States |
| --- | --- |
| `TypeCorrect` | `[]TypeOK` |
| `RollbackRestores` | `[]RestoresFiles` |
| `ConflictsAreReal` | `[]NoFalseConflict` |
| `EditsSurvive` | `[]UserWorkSurvives` |
| `CheckpointsComplete` | `[]CleanIsSaved` |

The properties speak of the end of a rollback; the invariant must say what is
true while writers and the rollback are between two of their awaits.
`WritersInv` says what a writer knows at each step, `RollbackInv` which files
the rollback has yet to visit, `OwnInv` what the disk, the tracked entry and the
file's history have to do with each other before a file is restored and after
it, `EditInv` where an edit of the user can be, and `CleanInv` which marks a save
in progress may clear.

`ModelCallProofs` proves, from `RetriesAssumption` (the number of retries is
natural) and the distinctness of the value that stands for no answer:

| Theorem | States |
| --- | --- |
| `TypeCorrect` | `[]TypeOK` |
| `AnswerCorrect` | `[]AnswerIsCurrent` |
| `ShownCorrect` | `[]ShownIsAnswered` |

`BudgetInv` bounds the requests sent so far by the attempts used, `RaceInv` says
which request the call waits for and that abandoned ones are older, and
`ShownInv` and `AnswerInv` tie what was shown and what is returned to it.

The first part of `VerifierProofs` proves of the calls of a round, for every
number of calls, stream events and commands, every set of tools and whatever the
policy permits:

| Theorem | States |
| --- | --- |
| `GivenUpStopped` | `[]GivenUpIsStopped` |
| `NothingBegun` | `NothingBegunAfterGivingUp` |
| `CallsReported` | `[]CallsAreReported` |

The runner and the body of a tool agree on whether the tool executes
(`CallOK`), and a process that lives is either a command whose listener is
installed and whose call's signal has not fired, or a search with its own timer
armed (`BodyOK`). The proof reduces every step to one of three: a body moves
(`MoveKeeps`), a body ends (`EndKeeps`), or signals fire and are heard
(`SignalKeeps`), so that each tool has only to be shown to take such steps.

For the reports of the calls, `TurnInv` says that one call is under way at a time, so that whatever the runner
appends is about the call whose turn it is. `EventInv` follows the events of
each call through its phases (`StartedOnce`, `ClosedOnce`). `CauseInv` says that
a call still in its race has a signal that has not fired -- a tool that answers
"aborted" then would be wrong -- and that a result once fixed keeps its cause
(`CauseOf`), whatever its tool goes on to do.

Its second part proves of the policy and the verification, for any number of
calls and commands:

| Theorem | States |
| --- | --- |
| `HarmlessOnly` | `[]OnlyHarmlessCommandsRun` |
| `VerdictEarned` | `[]VerdictIsEarned` |
| `RoundTypes` | `[]VerifierTypeOK` |

`HarmlessOnly` is about any table of commands, of which `NamesAssumption` says only
what the policy takes for granted as well: a git command whose subcommand is one
of those for reading and which has no listed flag reads, and a script called
"test", "build" and so on verifies, unless it is given an option that is not
listed (`"option"`) or is a `git branch` that makes one (`"branches"`).
`FlagsAssumption` says which words begin with a dash. Neither says what the
policy lets through. The theorem is that, of all a line does, the part before a
join the parser does not know is one of these: reading, verifying, making a
branch, or what an unlisted option makes of the first two. What is behind such a
join is `"unseen"`, and of it nothing is shown: the policy does not look at it.
The
argument: of the ordered rules the first that matches decides (`FirstOfIs`), and
for a line that is not empty and not dangerous that is the rule of its category
(`RuleOrder`); a line with an operator of the parser in it has several segments or
is a composition, whatever the operator joins (`JoinedIsComposed`); so what is let
run is one command to the parser, and its own words make it a reading or a
verification (`AllowedAlone`). Both places
that spawn a command line ask first, so it holds of all that runs.
`VerdictEarned` needs an invariant (`VerdictInv`) of what a verification has in
hand between two commands and while one runs: a process that is told to stop had
its time up or its run aborted, and the result of the command will say so however
the process closes. The commands selected from the scripts of a workspace are
among those the policy lets run (`ScriptRuns`).

`EventBusProofs` proves, from `BusAssumption` (the special values differ, the
history has room for an event), for all types and functions and any number of
emits, subscriptions and loops inside each other:

| Theorem | States |
| --- | --- |
| `BusType` | `[]TypeOK` |
| `SubscribersAreCalled` | `[]SubscribersHear` |
| `HistoryIsInOrder` | `[]HistoryInOrder` |

Both properties speak of one loop; the invariant is about every loop on the
stack, at any depth, while others run above it. `Reached` says of a suspended
`emit` that it has called whoever of its audience it has come to, so that a
throw leaves nobody out (`ThrowKeeps`), and neither does the end of the loop,
since an entry not reached is a candidate (`UnreachedIsCandidate`) and a set of
candidates has an earliest (`NextExists`). `Ascending` says of a suspended
`replay` that what lies ahead of its position is newer than all it gave. That
holds although the buffer moves under it: storing an event shifts the others
towards the front (`StoredShift`), so that a loop can pass over an event but
never meet one again. Whatever a listener does, the loops below keep their
invariant (`FrameKeeps`).

`ContextBuildProofs` proves, for every window, any providers, histories, sections
and turns, and texts of any size:

| Theorem | States |
| --- | --- |
| `BuildInvariant` | `Spec => []BuildInv` |
| `BuildTypeCorrect` | `[]TypeOK` |
| `ExchangesAlwaysWhole` | `[]ExchangesStayWhole` |
| `TaskAlwaysSurvives` | `[]TaskSurvives` |
| `UnreportedAlwaysLossless` | `[]UnreportedLossless` |
| `RepairAlwaysSeesFailure` | `[]RepairSeesFailure` |

It assumes of the constants

* `SizesAssumption`, `TextsAssumption`, `TurnsAssumption`: sizes are natural
  numbers, and a message counts at least the tokens of its role
  (`token-estimator.ts:38`);
* `PrioritiesAssumption`: the priorities callers and providers choose are
  integers, of any size;
* `CallsAssumption`: a response has finitely many calls, and the key of a tool
  result is none of the other keys, which holds because it has a prefix of its
  own (`transcript-projector.ts:109`);
* `HistoriesAssumption`: the messages a caller passes hold whole exchanges only.
  This is a duty of the caller that the code does not check: of a history that is
  cut inside an exchange, the projection would pass on the unanswered calls
  (`transcript-projector.ts:45`). The messages of a run that ended by itself are
  such a history; those of a run that threw inside a hook of a tool are not, for
  they end with a call that nothing answers.

Most of the module is about the algorithms, for any list of messages and any
sections, and each step of `ContextPipeline.build` has its lemmas. *Lists*: what
`Filtered` and `Registered` make holds just what was kept, in order
(`FilteredIs`, `RegisteredIs`), and what was adjacent stays so (`PlacesFollow`).
*Projection*: two exchanges do not overlap (`ExchangesApart`), so the projection
of a whole transcript is whole, and has at most one exchange
(`ProjectedWhole`). *Compaction*: the protected part begins at or before the
last message of the user and at or before every call that is left
(`ProtectedIs`), so whatever number of messages is summarised, the cut leaves
the exchange whole (`BegunWhole`) and the task in (`BegunKeeps`). *Sections*:
the result that is shadowed shares its key with a later one that shadows it
(`KeyIsKept`), compression changes nothing but what is too long (`CompressedIs`),
and where nothing is dropped every section registered is in the request
(`TruncatedShows`); together a build that reports nothing has lost nothing but by
design (`NothingLost`, `BuildKeeps`). What is shown are the first sections of a
registry in which nothing comes before what is more urgent (`RegisteredIs`), and
the failure is not compressed: what is shown and less urgent has the whole
failure before it (`FailureFirst`).

None of the properties speaks of how the transcript came to be, and all of them
need to know that it is whole. `BuildInv` is `TypeOK` with

* `Settled`: what kinds of values transcript and sections hold, that messages
  are numbered, that no collected section has a key, and that there is a message of the user once the run is
  prepared;
* `Answered`: the transcript is whole but while tools execute, and then it is
  whole up to its last message, the calls they are executing. A response
  without calls, and calls with all their results, keep it so (`WholeExtends`);
* `Fresh`: while the model is asked, the request is what `Build` makes of what
  the run holds at that time, and of the failure in a repair;
* `ExchangesStayWhole`, which speaks of the request when it is no longer fresh.

The sum of a list of tokens is recursive, and nothing is known of its value but
what a least counterexample gives: it is a natural number, and 0 of an empty list
(`TokensAre`). The proofs need no more of it.

Only model-checked: liveness (`EndsUnlessHung`, `EveryCallReturns`,
`EndsUnlessStreamHangs`, `CollectedUnlessProviderHangs`), which needs fairness
and `ENABLED` and is outside this prover's reach. The four properties that are
violated are, of course, not theorems.

## 6. Plan

What would come next:

1. **Diagnostics of the view**: how repeated truncation nests the markers of
   tool payloads (`cli-state.ts:582-603`), which `CliView` does not have.
2. **Composition** of `RunStream`, `LocalCli` and the contract of the run:
   the CLI's `running` flag covers the run, though agents are replaced.
3. **Proofs**: that the truncated sections never exceed the room the budget
   leaves them, which needs the sum of a part of a list; and `RunStream` as an
   implementation of a reliable queue.

Abstract specifications worth stating: a reliable queue for `RunStream`, and a
one-shot answer with bounded attempts for `ModelCall`.

## 7. Not modelled

Prompts and the Ink components (text and rendering), the workspace scanner and
git summary (reads only), the wire formats of the providers. Of the command
policy, `CommandPolicy` has the rules and the patterns they look for, over words;
how a shell would quote or expand a line is external, as is what it does behind
a join the parser does not know (`"unseen"`); patterns within a word (an option
spelled in another way) are one word each. Of the context, call ids used twice
within one response are left out (the calls of a message are a set), and so is
a summary of old messages shorter than half its room, which no property tells
apart from a longer one.

A crash of the process loses everything but checkpoints, traces and
config.json, and no code reads checkpoints back. What the next start makes of
config.json is in `LocalCli`.
