# TLA+ models of wshdbg

`wshdbg` is a debugger for Windows Script Host scripts. It loads a script engine
in its own process, connects itself to the Process Debug Manager (PDM) as the
application's debugger, and lets a user at a prompt inspect and resume the script
each time it stops. This directory holds TLA+ models of the program, the TLC
instances that check them, and the theorems about them that TLAPS proves. Paths
below are relative to `src/`, the repository.

## 1. The system

### Components

| component | source | state | operations |
|---|---|---|---|
| `DebugControl` | `src/windows/debug_control.cpp` | three cookies of the Global Interface Table (GIT), `stack_`, `variables_`, `paused_`, `completed_`, under one mutex with a condition variable | `capture`, `set_stack`, `set_variables`, `complete` (worker); `wait`, `paused`, `stack`, `variables`, `evaluate`, `execute`, `resume` (controller) |
| `ApplicationDebugger` | `src/windows/application_debugger.cpp` | the paused thread and application, under a mutex of its own | the PDM's callbacks `onHandleBreakPoint`, `onClose`; `resume`, `paused` (no caller) |
| command line | `src/cli/main.cpp` | the options, `finished`, the worker thread | reading the arguments, the launch; the loop: wait, prompt, evaluate, resume |
| `DebugSession` | `src/core/session.cpp` | `state_`, `last_stop_`, `handlers_`, the breakpoint store | `subscribe`, `transition`, `stopped`, `output`, `debugger_event` |
| `ActiveScriptHost`, `ScriptSite` | `src/windows/active_script_host.cpp` | locals of `run`, `failed_` | `run`; the engine's callbacks `OnStateChange`, `OnScriptError`, `OnScriptErrorDebug` |
| `ActiveDebugServices`, `DebugApplication` | `src/windows/active_debug_services.cpp`, `debug_application.cpp` | manager, application, its cookie, `debugger_connected_` | `initialize`, `connect_debugger`, `disconnect_debugger`, `shutdown` |
| `DebugDocumentHelper` | `src/windows/debug_document_helper.cpp` | helper, source context | `register_document`, `unregister_document`, `create_context` |
| `DebugDocument` | `src/windows/debug_document.cpp` | text and line offsets | line/column to offset and back |
| `BreakpointStore`, `BreakpointBinder` | `src/core/breakpoint_store.cpp`, `src/windows/breakpoint_binder.cpp` | the breakpoints and their states | `add`, `remove`, `set_state`, `for_file`; `bind` |
| `ActiveScriptDebugSite`, `DebugSiteBridge` | `src/windows/active_script_debug_site.cpp`, `debug_site.cpp` | none | callbacks turned into `DebugEvent`s |
| `Logger` | `src/core/logging.cpp` | level, file | `set_level`, `set_file`, `write` |
| code context, COM runtime, inspection types, diagnostics, `src/ui` | | no behaviour worth a model | |

### How they interact

`wmain` reads its arguments and, when anything asks for debugging, starts a worker
thread that calls `ActiveScriptHost::run` and stores `finished` when it returns. The
engine and the PDM call back on the worker: `onHandleBreakPoint` captures the stop into
`DebugControl` and then tells the session, and the script stays held by the PDM after
the callback has returned. The main thread waits on `DebugControl`, reads the
inspection data, evaluates expressions, and resumes: it copies the cookies under the
mutex, fetches the interfaces from the GIT and calls `ResumeFromBreakPoint` without it,
and takes the mutex again to clear the pause. The session is only touched by the worker;
it calls its handlers synchronously, inside the call that made the event. `run` binds
the store's breakpoints before it starts the script: the binder asks the document for
offsets, the engine for a place to break, and publishes each success to the session.

### What is hard

- Two threads share `DebugControl`, and every operation of both is several steps
  with the mutex released in between: cookies are used after the lock under which
  they were read, and the pause of one stop is cleared after the script has been let
  go, when the next stop may have been published already.
- Any COM call may fail half-way through `capture`, `resume`, `initialize` or
  `register_document`; what was registered must be taken back, and what is stored must
  stay usable.
- `run` has a dozen ways out and relies on the order of destruction of its locals,
  while the other thread may be at its prompt.
- The session is told of stops but never of resumes, hears of one script error up to
  three times, and may be called back by its own handlers. The prompt may be offered
  a stop before the session is told of it.
- An expression runs in the debuggee, on a thread that is not the controller's, and may
  complete at the moment in which the controller gives up.
- The binder goes over copies of breakpoints while handlers may edit the originals.
- Offsets are 32-bit sums of what the user typed.

### What makes each component correct

- **DebugControl**: a command given at one stop never takes effect at another; no
  cookie is revoked while it is to be used and none leaks; what can be read at the
  prompt is of the stop at hand; no pause outlives its stop; a stop that was told of
  can be released; no expression outlives its command.
- **DebugSession**: terminal states are final; a stop is published while it lasts;
  listeners agree on the state.
- **ActiveScriptHost**: the result agrees with the session on every way out; the
  teardown is orderly; breakpoints are decided before the script runs; a held script
  is a paused session; `run` returns.
- **BreakpointStore/Binder**: a result goes to the breakpoint it is of; every one of the
  file is decided, no other; the engine breaks where the store says.
- **DebugDocument**: lines are indexed exactly; a breakpoint is reported where it was
  set and can be set where a stop is reported, at 32-bit width.
- **Services and document helper**: what they remember is what the manager has
  registered, wherever a call fails; nothing is left behind.
- **Command line**: what the usage text allows is run for what it says; a mistake
  anywhere on the line is refused before anything is run.
- **The whole**: prompts meet live sessions; what the session says of a held script is
  what the prompt is about; the exit finds everything taken down; the session ends.

## 2. The modules

| module | what it is |
|---|---|
| `DebugControl` | `DebugControl::Impl` with the worker that publishes stops and the controllers that use them |
| `PauseProtocol` | abstract: what `DebugControl` promises its user: stop, tell, release |
| `DebugControlRefinement` | the refinement mapping from `DebugControl` to `PauseProtocol` |
| `ExpressionEvaluation` | `evaluate` and `execute` with `wait_expression`, beside the debuggee |
| `SessionCore` | the session's lifecycle as operators: transition table, `transition`, `stopped`, `debugger_event` |
| `SessionContract` | abstract: the session as its callers see it, each operation one step |
| `DebugSession` | the session with handlers that may call it back |
| `ActiveScriptHost` | `run` with its setup, callbacks and teardown; uses `SessionCore` for the session |
| `DebuggerSystem` | composes `ActiveScriptHost` (worker) and `DebugControl` (worker and prompt), as `wmain` does |
| `BreakpointBinding` | the store, the loop of `run` that binds, and front ends that edit meanwhile |
| `DebugDocument` | the index of lines and both lookups |
| `DebugServices` | `ActiveDebugServices` and `DebugDocumentHelper`, call by call |
| `DebugRegistration` | abstract: what is registered with the manager, each operation one step that does all or leaves nothing |
| `CommandLine` | `wmain`'s arguments, launch and exit status |
| `MC*` | per module, the values of its constants for TLC |
| `*Proofs` | per module, its theorems; `DebuggerSystemProofs` uses those of the two parts, `CommandProofs` is about `CommandLine` and `ExpressionEvaluation` |

### DebugControl and PauseProtocol

`cookie`, `stack`, `variables`, `paused` and `completed` are the fields under
`mutex_`. Stops are numbered, and the number stands for all that is captured at the
stop: cookie 2 is "the interface registered at stop 2", 0 is none. `git` holds, for
each kind of interface, the stops whose interface is registered. Each block under the
mutex and each COM call outside it is one action, for the other thread can run
between any two of them:

- worker: `Break` (the PDM stops the script and calls `onHandleBreakPoint`),
  `RegisterApplication`, `RegisterThread` (with its roll-back), `RegisterFrame`
  (optional in the code too), `Publish` (`clear_locked`, the new cookies,
  `paused_ = true`), `SetStack`, `SetVariables`, `Report`, then `Leave` when a resume
  has been accepted; `Finish`, `Complete` (`onClose`, if the PDM delivers it) and
  `StoreFinished`. `Report` stands for the session's events, which do not touch
  `DebugControl`.
- controller: `WaitPaused`, `BeginEvaluate`/`EndEvaluate` (for `evaluate` and
  `execute` alike), `BeginResume`, `FetchInterfaces`, `ResumeFromBreakPoint`,
  `ClearPause`, `LeaveLoop`. Timeouts of `wait` and commands that change nothing are
  stuttering.

`Faults` says which COM calls may fail; each failing call takes the code's error path.
The three step actions resume like `Continue`: what tells them apart is where the
script stops next, which is open here anyway. `Resumable` (the PDM accepts one resume
per stop), `Leave`, `Finish` and `InBreak` model the PDM and the engine from how the
code uses them. `seen` and `unrevoked` are history variables: the stop for which `wait()` returned
`Paused`, and the interfaces that a failing `clear_locked` gave up: it forgets the
cookies whether they could be revoked or not, so that these stay registered for good.

### ExpressionEvaluation

What is one step in `DebugControl` (`EndEvaluate`) here is `Parse`, `Start`, the rounds
`Poll`/`Sleep` of `wait_expression`, `GiveUp` with its `Abort`, and `GetResult`. The
debuggee's `Complete` may come between any two of them, or never. Commands are numbered;
the script has one variable, to which a statement assigns its number, so that a value
shown too early or too late is visible. `abandoned` is a history variable: expressions
whose query failed, on which the code returns without `Abort`.

### SessionCore and DebugSession

`SessionCore` has the table of `can_transition` and what each operation does when no
handler calls back. `DebugSession` is about those that do: `publish` calls the handlers
one by one, and a handler may call any operation, which runs to its end first. The
call stack is the sequence `agenda` of what is left to do, innermost first; `view` is
what each handler was last told. `stopped` is two steps when the session was not
paused, because the pause is published before `last_stop_` is set. `SettledAs` is the
session with the stop that is still to be recorded; seen through it, `DebugSession` is a
`SessionContract`, which has a step per operation and no handlers. This is what
`ActiveScriptHost` takes the session for.

### ActiveScriptHost

`phase` follows `run` line by line; each phase either does its work (`SetUp`) or fails
(`FailPhase`) where `Faults` admits it, and every failure is the same two statements,
`transition(Failed)` and `return false`. The callbacks happen in phase `script`.
`Resume` is all that is seen of the controller. `unwind` to `returned` is the reverse
destruction of the locals. `BindBreakpoint` treats the breakpoints in any order and
lets nobody edit them: that is in `BreakpointBinding`.

### DebuggerSystem

The variables are those of `DebugControl` and of `ActiveScriptHost`, and each action is
an action of one of them or, where the two meet, of both at once: the script stops
(`Stop`, `StopOnError`), the callback captures (`Capture`) and then reports (`Report`,
which reports an error a second time), the script is let go (`Leave`) and ends
(`Finish`), `run` winds up (`WindUp`, `Shutdown` with the manager's `onClose`, which
completes the control and ends the session in one call) and returns (`StoreFinished`).
`Prompt` is the loop of `wmain`, which never touches the session. The module leaves
out runs that do not debug: `wmain` makes no control and no second thread then (`Launch`
of `CommandLine`).

### BreakpointBinding

The store is a function on the identifiers it holds. `BeginBinding` takes the copies
(`for_file`), `Bind` and `BindFails` are one call of `bind` each, in the order of the
store, and after a `Bind` the handlers run (phase `told`) and may `Add`, `Remove` or
`Disable`. `Files` are spellings of paths, `NormalForm` is `lexically_normal`.
`enabled` is what the engine was asked to break at. `withdrawn`, `issued` and `present`
are history variables.

### DebugDocument

The text is its length and the set of its newlines. `IndexCharacter` is one round of
`build_line_index`; the lookups are operators, in arithmetic modulo `Modulus` (2^32 in
the code). `upper_bound` is a `CHOOSE` of the line that contains the offset, which the
proofs show to exist and to be unique.

### DebugServices

The two objects and what the manager has registered (`pdm`). `initialize` and
`register_document` are a call per step, each of which does its work or takes the
failure path; between them the owner may call the other operations in any order.
`ActiveScriptHost` uses the same operations in the one order of `run`, where each is a
single phase: what it assumes of them is `DebugRegistration` (all is done or nothing is,
and nothing is connected or defined without an application), which both modules
implement.

### CommandLine

`Init` chooses one of `CommandLines`; the actions are the branches of the loop of `wmain`,
and `Launch` what follows it: the logger is told its level and file, the breakpoints are
added and `run` is called. The usage text (`src/cli/main.cpp:21`) is stated apart from the
loop, as what it says and not as what `wmain` reads. `Sentence`: a command, options of that
command with values that the text shows, and a script at the end. `Mistaken`: no command,
no value or none of the kind, no script, or two words that are neither options nor values.
Both are about a set of heads, the words that are not the value of the word before, which
no order of reading is needed to define. Options are taken to come in any order and more
than once, and the last level or file counts. Between the two are the lines that the text
does not allow and `wmain` runs all the same: `--break` and `--break-on-entry` with `run`,
options behind the script, `errors` as a level, `--break -1` (the last line of 32 bits), an
empty word before the script. The model has them; no property says whether they should be
accepted.

## 3. The runs

| run | instance | what it shows |
|---|---|---|
| `control_sole` | 1 controller, 3 stops, every COM call may fail | `CookiesAreRegistered`, `NothingLeaks`, `CommandsReachSeenStop`, `NoStaleInspection`, `NoPhantomPause`, `ImplementsProtocol` |
| `control_lost` | 1 controller, 2 stops, nothing fails | violates `StopReachesController` |
| `control_early` | 1 controller, 1 stop, nothing fails | violates `StackReadyAtPrompt` |
| `evaluation_commands` | 4 commands, 3 rounds of waiting, every call may fail, fair controller | `NothingLeftRunning`, `ShownIsCurrent`, `CommandsReturn` |
| `session_nested` | 2 handlers, 4 calls, the last handler calls back | `MirrorsAgree`, `StopsAreCurrent`, `TerminalIsFinal`, `CallsAreAtomic` |
| `host_runs` | 3 breakpoints (2 in the file), held 3 times, every request, every failure, fair | `OutcomeIsReported`, `OrderlyTeardown`, `BreakpointsAreDecided`, `HeldIsPaused`, `RunReturns` |
| `host_nopdm` | only `initialize` may fail | violates `PdmIsOptional` |
| `system_debug` | 1 prompt, 2 stops, 1 breakpoint, `run` fails anywhere, `capture` and the revocation fail, fair | `HeldStopIsReported`, `CommandsMeetLiveSession`, `ExitIsClean`, `ImplementsHost`, `SeenStopIsReleased`, `SystemEnds`, `TypeOK` |
| `binding_edits` | 3 spellings of 2 files, 2 lines, 3 breakpoints added | `EngineAgrees`, `OthersUntouched`, `AllDecided`, `IdsAreNew` |
| `document_texts` | every text of up to 7 characters, numbers below 12 | `IndexIsExact`, `BreakpointIsReportedWhereSet`, `StopCanBeFound`, `WrappedOffsetStaysInText` |
| `services_any` | 4 applications, 4 documents, every call may fail | `ApplicationAgrees`, `DebuggerAgrees`, `DocumentAgrees`, `ImplementsRegistration` |
| `command_lines` | every line of up to 4 words out of 16, every line of a command, 3 of 9 phrases and one of 3 endings, lines below 8 | `AcceptsSentences`, `RefusesMistakes` |

**Bounds.** `MaxStops`: a race is between a stop and the next, so two stops show each
of them and three show that nothing is carried over two. `MaxHandlers`: a handler before
the one that calls back, and that one. `MaxCalls`: four calls lead from `Created` to a
stop, its end, and one more; nested calls count too. `MaxBreaks`: two stops of
different reasons and an error. `Timeout` (5000 in the code): three rounds are a first,
one between and a last. `MaxCommands`: a statement, an evaluation, and two more, with
resumes in between. `MaxIds`: a breakpoint that is withdrawn, one that is bound, and one
added by a handler; two of the three spellings are the same file. `MaxSize`: seven
characters hold three lines with an empty one and a final newline; with `Modulus` 12
there are columns whose sum wraps to each offset, at, before and behind its line.
`MaxApplications`, `MaxDocuments`: one that was given up, one that is in use, and more.
`CommandLines`: four words are a command, an option with its value, which may be another
option or missing, and a script; the sixteen words have each option, good and bad values of
each, an empty word, and numbers below, in and beyond the range. Three phrases before the
script are two breakpoints in either order and a level or a file said twice, with good
values and bad. `MaxLine` is 7 for 2^32 - 1. The theorems hold for every value of these
bounds.

**Deadlock.** `CHECK_DEADLOCK FALSE` in every cfg: a debug session, a run, the bounded
calls and commands, an indexed document and an exited `wmain` all end, and the states
they end in have no successor. In `DebugControl` and `DebuggerSystem` the program may
also really stand still (a failed capture, the lost stop); `SystemEnds` and
`control_lost` are about that.

**Fairness.** In `DebuggerSystem` the worker thread is never idle at a step of its own
(`WF(WorkerStep)`; `OnStateChange` is left out, since an engine need not call it), and
a script ends or stops. The main thread finishes what it has begun: its calls do not
block (`wait_expression` is bounded, which `CommandsReturn` and the theorem
`CommandsTakeBoundedSteps` show, and the mutex is held
for short blocks only), and it tests `finished` after each command, so that `LeaveLoop`
is strongly fair. A user may evaluate as long as he likes but not for ever: at the
end of its input `wmain` reads `quit`, which is a resume, so `BeginResume` is strongly
fair (evaluations disable it again and again). In `ActiveScriptHost`
only the steps of `run` itself are fair (`RunStep`: setup, closing the engine, teardown):
neither that the script goes on nor that anybody resumes it is assumed. In `ExpressionEvaluation`
only the controller's thread is fair; an expression may loop for ever. Fairness holds
for actions as a whole: a call that may fail is not assumed to succeed. Therefore
`system_debug` lets no call of `resume` fail (one that fails for ever leaves the
prompt where it is).

**Scope of some properties.**

- `CommandsReachSeenStop`, `ReleaseTargetsSeenStop`, `NoStaleInspection`,
  `NoPhantomPause`, `CommandsMeetLiveSession`, `ExitIsClean` and the refinement of
  `PauseProtocol` are of a sole controller, as `wmain` is: a second one may release the
  stop that the first was told of.
- `MirrorsAgree` needs that only the handler that subscribed last calls back;
  `StopsAreCurrent` and `CallsAreAtomic` are of calls in which none has yet.
- `NothingLeaks`, `NoPhantomPause` and `ExitIsClean` except the interfaces in `unrevoked`,
  those whose revocation failed: the code gives them up. The calls do fail in the runs.
- `RunReturns` says that `run` returns unless from some point on it is for ever the
  script's turn or its user's; a held script is its user's turn when there is a control,
  or when `debug` was said. So it does not say that a script that is held is ever resumed,
  which the code cannot guarantee (`control_lost`, a failed `capture`, a plain `debug`
  without a control); it says that nothing else keeps `run`, and that no breakpoint holds
  a script that nobody could resume. `SystemEnds` is conditional on every held stop being offered to the
  prompt, which `control_lost` shows the code not to guarantee, nor does a failed
  `capture`: nothing else keeps the session from ending.
- `EngineAgrees` excepts the lines of breakpoints that a front end has removed or
  disabled: the engine is not told of that. `wmain` only adds.
- `NothingLeftRunning` and `ShownIsCurrent` except expressions whose query failed, on
  which `wait_expression` returns without `Abort`. `locals` shows the variables of the stop
  and is not covered.
- `DebuggerAgrees` admits a connection without flag when `DisconnectDebugger` may fail.
- `WrappedOffsetStaysInText` does not say that the offset lies in the line that was asked
  for: a column behind its line, or a sum that wraps into an earlier line, is accepted by
  the code. `wmain` only sets column 1.

### What the violated runs say

- `control_lost`: `resume` accepts, the script runs to its next stop and publishes it,
  and `resume` then clears that. The controller waits, the debuggee is held: the
  integration test's and `wmain`'s assumption that each stop is offered fails.
- `control_early`: the pause is published before the stack, which the integration
  test reads at once.
- `host_nopdm`: `docs/architecture.md` calls the PDM optional; a debug run fails
  without it.

A disagreement that has no run: `docs/debug-console.md:19` gives the example
`wshdbg --log-level debug script.vbs`, which `wmain` refuses with status 2, for the
first argument must be `run` or `debug` (`src/cli/main.cpp:100`). The example stands under
"Planned modes" and is no line of the usage text; here it is `Mistaken`, and
`RefusesMistakes` has it refused.

## 4. The proofs

All of `*Proofs.tla` is checked by TLAPS (SMT, Zenon, and LS4 for the temporal steps).
The assumptions are those on the constants (`ControlAssumption`, `SessionAssumption`,
`HostAssumption`, `SystemAssumption`, `BindingAssumption`, `DocumentAssumption`,
`ServicesAssumption`, `EvaluationAssumption`, `CommandLineAssumption`) and, where the theorem
says so, that there is one controller, that only the last handler calls back, or that
none does.

**DebugControl.** `TypeOK` is inductive, proved in two halves because its flags and its
data need different provers. `CookiesAreRegistered` and `NothingLeaks` are not
inductive: `clear_locked` could revoke what a capture has just registered if a
stored cookie could name the same stop. `CaptureInv` excludes this: while the worker
captures, every stored cookie is older than the stop, and the worker's place tells
which interfaces it holds. These are proved for any number of controllers.

The other theorems are of a sole controller, and rest on
`SoleInv == PauseIsCurrent /\ TalkIsCurrent /\ Quiet`: the pause that is
published is that of the stop at hand or about to be cleared; a controller
that prompts, evaluates or resumes (before `ClearPause`) is talking to an unreleased
stop with cookies of that stop; and without a pause no cookie is stored. From it
follow the four properties and `SoleImplementsProtocol`: each step maps to a step of
`PauseProtocol` or to none.

**ExpressionEvaluation.** What runs is the expression of the last command, between its
start and its end, or one whose query failed; from the former and the rule that an
evaluation does not assign follows that the outcome is still the value when it is shown.
That a command returns is liveness, but its safety part is proved:
`CommandsTakeBoundedSteps` gives a measure, `StepsLeft`, of at most `2 * Timeout + 4`, that
every step of the controller on a command decreases, whatever the debuggee does. So
`CommandsReturn` asks no more than that the controller's thread runs.

**CommandLine.** `AcceptsSentences` and `RefusesMistakes` compare a loop with formulas
that say "there is a set of heads". The inductive invariant is `Read`: the loop has a set of
heads of what it has read, with the script, the lines, the level and the file that they give,
and `NoOtherHeads`, that the heads of any reading of the whole line begin with these and go
on with the word at `i`. When all is read, there is one reading (`OneReading`), so that what
the loop has is what a sentence says (`ScriptOfSentence`, `BreaksOfSentence`,
`LevelOfSentence`, `DebugOfSentence`) and a line with a mistake would not have come so far
(`NoMistakeRead`). What the loop refuses on the way no sentence begins with: `UsageIsGood`
says that what the usage text shows as a value is accepted, and stands for itself. Command
lines have any length here and words are of any kind; that the empty word, which `wmain`
takes for "no script yet", is not an option is the one fact used of strings.

**DebugSession.** `TerminalStateIsFinal` needs only that the session is a record of its
two fields; its core is the lemma `CallEffect`, what each operation does at once. The
other two are about the call stack. `StopsFit` says of a whole agenda what
`StopsAreCurrent` says of its head: the stops still to be told of are the session's, and
one that is to be recorded is the only one; `EffectFits` shows it of what any call
leaves to do. `Shape` says that the deliveries left are those to the last n handlers,
in order, of the state the session is in; the first handlers know it already
(`Mirrored`). When the last handler calls back, no delivery is left, which is why the
shape survives it, and would not if another did. `CallsAreStepsOfTheContract` goes by
the settled session: `StoppedSettles`, `TransitionSettles` and `DebuggerEventSettles` show
that what a call has done and left to do amounts to its step of `SessionContract`, and
`SettledStep` that what is left then runs without a further step. If no handler calls back at
all, this makes the whole an implementation (`ImplementsContract`).

**ActiveScriptHost.** `SessionInv` (where `run` is tells in which states the session can
be) gives `OutcomeIsReported` and `HeldIsPaused`; `ResourceInv` (where `run` is tells
what is registered) gives `OrderlyTeardown` and `BreakpointsAreDecided`, and that `run`
keeps to the contract of the services (`HostUsesRegistration`).

**DebuggerSystem.** Each action of the composition conjoins one of `DebugControl` or leaves
its variables alone, so that the composition implements it by the way it is written: that
is the lemma `ControlStep` and not listed as a result. `SystemImplementsHost` is proved step
by step (the second report of an error must be shown to leave the session as it is). With
the two the theorems of the parts are theorems of the whole:
`DebuggerSystemProofs` instantiates `DebugControlProofs` and `ActiveScriptHostProofs`
as `ControlProofs` and `HostProofs`, and the lemmas `SameControl` and `SameHost` identify
their actions with those of the composition. What is left is the step of the two
threads, `InStep`: for each place of the worker of `DebugControl`, the places where
`run` can be. The properties of the composition follow from `InStep` and the invariants
of the parts. Since the composition implements `DebugControl` and that implements
`PauseProtocol`, the whole program does, with one prompt (`SoleSystemImplementsProtocol`);
`SystemKeepsHostProperties` and `SystemKeepsControlProperties` carry the invariants of the
parts over in the same way.

**BreakpointBinding.** `CopiesAgree` is the heart: a copy that the loop has not come
to has the line of its original, which is not decided yet, or is gone and its line
withdrawn. This is inductive because identifiers are never given twice.

**DebugDocument.** `IndexInv` says of the loop what `IndexIsExact` says of its end, and
that every offset lies in a line, so that `LineAt` finds one (`LineFound`, `Lookup`). The
sums are reasoned about as natural numbers below `Modulus` and their remainders.

**DebugServices.** `ManagerAgrees` and `DocumentSoFar`: at each call of `initialize` and
`register_document`, what has been done is what is remembered. The failure paths are one
lemma each (`InitializeFails`, `RegisterFails`). `ServicesImplementRegistration` needs
`RegisterSoFar` besides, that the application stays for as long as `register_document` is
under way. `NothingIsLeft` says of the end what the other theorems say between operations:
destroying the two leaves the manager with nothing.

**Only model-checked**: the liveness properties (`SeenStopIsReleased`, `SystemEnds`,
`RunReturns`, `CommandsReturn`), which are outside what TLAPS proves, as are ENABLED and
induction over data. Every other property that a passing run checks is a theorem; the
violated ones are refuted by TLC's counterexamples.

## 5. Not modelled

- `ApplicationDebugger::resume` and `paused`: no caller. `paused_thread_` is only used
  by them.
- `capture` failing: the debuggee is held and nobody is told. The model has this
  behaviour, and `HeldStopIsReported` shows that the session says so; no property is
  stated against the standstill, as no doc or test speaks of it.
- The conditions and diagnostics of breakpoints: nothing evaluates them.
- Texts of 2^32 characters and more: `DocumentAssumption` excludes them (the loop's
  counter would never reach the end).
- A front end on a thread of its own: store and session have no mutex, and no code
  calls them from two threads.
- The engine on the failure paths of `run` after `SetScriptSite`: it is not closed
  there and keeps its site until it is released. What an engine calls then is not in
  this code.
- The line and column of a script error: they come from the engine as they are.
- Reasons `Pause` and `Breakpoint` are one event: `onHandleBreakPoint` reports both with
  `breakpoint_hit`, so the session records a pause as a breakpoint.
- `subscribe` inside a handler (undefined behaviour, no caller), a second `run` on
  the same session (no caller).
- `WScriptObject`, reference counting and `QueryInterface`, the content of stack and
  variables, formatting, printing, and the spelling of the prompt's commands.
- `Logger` (a level and a file under one mutex, nothing to interleave; the unlocked
  `file()` has no caller), the COM runtime (a pair of calls in one object), the code
  context and the inspection types (values), diagnostics (not used), `src/ui` (empty).
