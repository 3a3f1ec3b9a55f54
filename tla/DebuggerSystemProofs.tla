------------------------ MODULE DebuggerSystemProofs ------------------------
(***************************************************************************)
(* What TLAPS proves of DebuggerSystem: that it is a DebugControl and a    *)
(* host at once, for any constants, and what follows from the theorems of  *)
(* the two where they meet.                                                *)
(***************************************************************************)
EXTENDS DebuggerSystem, TLAPS

\* The theorems of the two components, with the system's variables.
ControlProofs == INSTANCE DebugControlProofs WITH Faults <- ControlFaults
HostProofs == INSTANCE ActiveScriptHostProofs
    WITH Faults <- HostFaults, MaxBreaks <- MaxStops

-----------------------------------------------------------------------------
(* The instances of the component modules say what those of their proof    *)
(* modules say: both expand to the same formulas.                          *)

LEMMA ControlAssumptionHolds == ControlProofs!ControlAssumption
  BY SystemAssumption DEF Control!ControlAssumption, Control!AllFaults,
     ControlProofs!ControlAssumption, ControlProofs!AllFaults

LEMMA HostAssumptionHolds == HostProofs!HostAssumption
  BY SystemAssumption DEF Host!HostAssumption, Host!AllRequests, Host!Fallible,
     Host!Setup, HostProofs!HostAssumption, HostProofs!AllRequests,
     HostProofs!Fallible, HostProofs!Setup

LEMMA SameControl ==
    /\ Control!Init => ControlProofs!Init
    /\ [Control!Next]_(Control!vars) => [ControlProofs!Next]_(ControlProofs!vars)
  BY DEF
     Control!Kinds, Control!Actions, Control!shared, Control!manager,
     Control!controller, Control!vars, Control!NoCookies, Control!Init,
     Control!InBreak, Control!ClearLocked, Control!Break,
     Control!RegisterApplication, Control!RegisterThread,
     Control!RegisterFrame, Control!Publish, Control!CapturedStack,
     Control!CapturedVariables, Control!SetStack, Control!SetVariables,
     Control!Report, Control!Leave, Control!Finish, Control!Complete,
     Control!StoreFinished, Control!WaitPaused, Control!LeaveLoop,
     Control!BeginEvaluate, Control!EndEvaluate, Control!BeginResume,
     Control!Fetchable, Control!FetchInterfaces, Control!Resumable,
     Control!ResumeFromBreakPoint, Control!ClearPause, Control!Worker,
     Control!Controller, Control!Next, ControlProofs!Kinds,
     ControlProofs!Actions, ControlProofs!shared, ControlProofs!manager,
     ControlProofs!controller, ControlProofs!vars, ControlProofs!NoCookies,
     ControlProofs!Init, ControlProofs!InBreak, ControlProofs!ClearLocked,
     ControlProofs!Break, ControlProofs!RegisterApplication,
     ControlProofs!RegisterThread, ControlProofs!RegisterFrame,
     ControlProofs!Publish, ControlProofs!CapturedStack,
     ControlProofs!CapturedVariables, ControlProofs!SetStack,
     ControlProofs!SetVariables, ControlProofs!Report, ControlProofs!Leave,
     ControlProofs!Finish, ControlProofs!Complete,
     ControlProofs!StoreFinished, ControlProofs!WaitPaused,
     ControlProofs!LeaveLoop, ControlProofs!BeginEvaluate,
     ControlProofs!EndEvaluate, ControlProofs!BeginResume,
     ControlProofs!Fetchable, ControlProofs!FetchInterfaces,
     ControlProofs!Resumable, ControlProofs!ResumeFromBreakPoint,
     ControlProofs!ClearPause, ControlProofs!Worker, ControlProofs!Controller,
     ControlProofs!Next

LEMMA SameHost ==
    /\ Host!Init => HostProofs!Init
    /\ [Host!Next]_(Host!vars) => [HostProofs!Next]_(HostProofs!vars)
  BY DEF
     Host!NewSession, Host!Transition, Host!StoppedFor, Host!DebuggerEvent,
     Host!CanTransition, Host!Successors, Host!StopAfter, Host!ReasonOf,
     Host!Terminal, Host!NoStop, Host!resources, Host!vars, Host!Init,
     Host!DebugRequested, Host!ControlMissing, Host!Fallible, Host!Setup,
     Host!Fail, Host!FailPhase, Host!FailParse, Host!Launch, Host!SetUp,
     Host!ReadScript, Host!CreateEngine, Host!RequireControl,
     Host!RefuseWithoutControl, Host!InitializeDebugging,
     Host!ConnectDebugger, Host!SetScriptSite, Host!RegisterDocument,
     Host!ParseScript, Host!Undecided, Host!BindBreakpoint, Host!EndBinding,
     Host!CauseBreak, Host!StartScript, Host!OnStateChange,
     Host!OnHandleBreakPoint, Host!OnScriptErrorDebug, Host!Resume,
     Host!OnScriptError, Host!EndScript, Host!CloseEngine,
     Host!DetachDocument, Host!Shutdown, Host!ReleaseEngine, Host!SetupStep,
     Host!Callback, Host!Return, Host!Next, HostProofs!NewSession,
     HostProofs!Transition, HostProofs!StoppedFor, HostProofs!DebuggerEvent,
     HostProofs!CanTransition, HostProofs!Successors, HostProofs!StopAfter,
     HostProofs!ReasonOf, HostProofs!Terminal, HostProofs!NoStop,
     HostProofs!resources, HostProofs!vars, HostProofs!Init,
     HostProofs!DebugRequested, HostProofs!ControlMissing,
     HostProofs!Fallible, HostProofs!Setup, HostProofs!Fail,
     HostProofs!FailPhase, HostProofs!FailParse, HostProofs!Launch,
     HostProofs!SetUp, HostProofs!ReadScript, HostProofs!CreateEngine,
     HostProofs!RequireControl, HostProofs!RefuseWithoutControl,
     HostProofs!InitializeDebugging, HostProofs!ConnectDebugger,
     HostProofs!SetScriptSite, HostProofs!RegisterDocument,
     HostProofs!ParseScript, HostProofs!Undecided, HostProofs!BindBreakpoint,
     HostProofs!EndBinding, HostProofs!CauseBreak, HostProofs!StartScript,
     HostProofs!OnStateChange, HostProofs!OnHandleBreakPoint,
     HostProofs!OnScriptErrorDebug, HostProofs!Resume,
     HostProofs!OnScriptError, HostProofs!EndScript, HostProofs!CloseEngine,
     HostProofs!DetachDocument, HostProofs!Shutdown, HostProofs!ReleaseEngine,
     HostProofs!SetupStep, HostProofs!Callback, HostProofs!Return,
     HostProofs!Next

-----------------------------------------------------------------------------
(* Every step of the system is one of each component, or stutters there. *)

LEMMA ControlStep ==
    ASSUME [Next]_vars
    PROVE  [Control!Next]_(Control!vars)
<1> USE DEF control, Control!vars, Control!shared, Control!manager,
    Control!controller
<1>1. CASE Prepare \/ WindUp \/ OnStateChange
  BY <1>1 DEF Prepare, WindUp, OnStateChange
<1>2. CASE Stop \/ StopOnError \/ Capture \/ Report \/ Leave \/ Finish
             \/ StoreFinished
  BY <1>2 DEF Stop, StopOnError, Capture, Report, Leave, Finish, StoreFinished,
     Control!Next, Control!Worker
<1>3. CASE Shutdown
  BY <1>3 DEF Shutdown, Control!Next, Control!Worker
<1>4. ASSUME NEW c \in Controllers, Prompt(c)
      PROVE  Control!Next
  BY <1>4 DEF Prompt, Control!Next
<1>5. CASE UNCHANGED vars
  BY <1>5 DEF vars
<1> QED
  BY <1>1, <1>2, <1>3, <1>4, <1>5 DEF Next, Worker, WorkerStep

\* The session of an error that is reported once more is as it was.
LEMMA HostReportStep ==
    ASSUME HostProofs!SessionInv, Report
    PROVE  [Host!Next]_(Host!vars)
<1>1. CASE phase = "script" /\ Host!OnHandleBreakPoint
  BY <1>1 DEF Host!Next, Host!Callback
<1>2. CASE phase = "erring"
  <2>1. session = [state |-> "Paused", lastStop |-> "ScriptError"]
    BY <1>2 DEF HostProofs!SessionInv, HostProofs!HeldIsPaused
  <2>2. Host!DebuggerEvent(session, "ScriptError") = session
    BY <2>1 DEF Host!DebuggerEvent, Host!ReasonOf, Host!StoppedFor,
       Host!CanTransition, Host!Successors
  <2> QED
    BY <1>2, <2>2 DEF Report, Host!OnHandleBreakPoint, Host!vars, Host!resources
<1> QED
  BY <1>1, <1>2 DEF Report

LEMMA HostStep ==
    ASSUME HostProofs!SessionInv, [Next]_vars
    PROVE  [Host!Next]_(Host!vars)
<1> USE DEF host, Host!vars, Host!resources
<1>1. CASE Prepare
  BY <1>1 DEF Prepare, Host!Next
<1>2. CASE WindUp \/ Shutdown
  BY <1>2 DEF WindUp, Shutdown, Host!Next, Host!Return, Host!SetupStep
<1>3. CASE OnStateChange \/ StopOnError
  BY <1>3 DEF OnStateChange, StopOnError, Host!Next, Host!Callback
<1>4. CASE Stop \/ Capture \/ StoreFinished
  BY <1>4 DEF Stop, Capture, StoreFinished
<1>5. CASE Report
  BY <1>5, HostReportStep
<1>6. CASE Leave \/ Finish
  BY <1>6 DEF Leave, Finish, Host!Next, Host!Return
<1>7. ASSUME NEW c \in Controllers, Prompt(c)
      PROVE  UNCHANGED Host!vars
  BY <1>7 DEF Prompt
<1>8. CASE UNCHANGED vars
  BY <1>8 DEF vars
<1> QED
  BY <1>1, <1>2, <1>3, <1>4, <1>5, <1>6, <1>7, <1>8 DEF Next, Worker, WorkerStep

\* The session of the composition follows its run.
LEMMA SystemSession == Spec => []HostProofs!SessionInv
<1>1. Init => HostProofs!SessionInv
  BY SameHost, HostAssumptionHolds, HostProofs!SessionInit DEF Init
<1>2. HostProofs!SessionInv /\ [Next]_vars => HostProofs!SessionInv'
  BY HostStep, SameHost, HostAssumptionHolds, HostProofs!SessionStep
<1> QED
  BY <1>1, <1>2, PTL DEF Spec

\* The composition is a host: the prompt resumes its script when and as a host
\* may be resumed, and what is reported twice is reported once.
THEOREM SystemImplementsHost == Spec => ImplementsHost
<1>1. Init => Host!Init
  BY DEF Init
<1> QED
  BY <1>1, HostStep, SystemSession, PTL DEF Spec, ImplementsHost, Host!Spec

-----------------------------------------------------------------------------
(* Where the two threads are, against each other. *)

\* With it, everything proved of the components holds of the system.
LEMMA ComponentSpecs == Spec => ControlProofs!Spec /\ HostProofs!Spec
<1>1. Init => ControlProofs!Init /\ HostProofs!Init
  BY SameControl, SameHost DEF Init
<1> QED
  BY <1>1, ControlStep, HostStep, SameControl, SameHost, SystemSession, PTL
     DEF Spec, ControlProofs!Spec, HostProofs!Spec

Capturing ==
    {"application", "thread", "frame", "publish", "setStack", "setVariables",
     "report"}
Ended == {"ended", "closed", "finished"}

\* Where run is when the worker of DebugControl is at each of its places, and
\* that wmain leaves its loop for the end of run alone.
InStep ==
    /\ request \in Requests
    /\ worker \in Capturing => phase \in {"script", "erring"}
    /\ worker = "held" => phase \in {"held", "erring"}
    /\ worker = "ended" => phase \in {"close"} \cup HostProofs!Unwinding
    /\ worker = "closed" => phase \in {"release", "returned"}
    /\ worker = "finished" => phase = "returned"
    /\ phase \in HostProofs!Unwinding \ {"unwind"} => worker \in Ended
    /\ \A c \in Controllers : pc[c] = "exited" => worker = "finished"

\* The worker's own steps, before and after the script.
LEMMA InStepOutsideScript ==
    ASSUME InStep, Prepare \/ OnStateChange \/ WindUp \/ Shutdown \/ StoreFinished
    PROVE  InStep'
<1> USE DEF InStep, Capturing, Ended, HostProofs!Unwinding, control, host
<1>1. CASE Prepare
  <2>1. request' = request /\ phase' \notin {"shutdown", "release", "returned"}
    BY <1>1 DEF Prepare, Host!SetupStep, Host!Launch, Host!ReadScript,
       Host!CreateEngine, Host!RequireControl, Host!RefuseWithoutControl,
       Host!InitializeDebugging, Host!ConnectDebugger, Host!SetScriptSite,
       Host!RegisterDocument, Host!ParseScript, Host!BindBreakpoint,
       Host!EndBinding, Host!CauseBreak, Host!StartScript, Host!FailPhase,
       Host!FailParse, Host!SetUp, Host!Fail
  <2> QED
    BY <1>1, <2>1 DEF Prepare
<1>2. CASE OnStateChange
  BY <1>2 DEF OnStateChange, Host!OnStateChange
<1>3. CASE WindUp
  BY <1>3 DEF WindUp, Host!CloseEngine, Host!DetachDocument, Host!ReleaseEngine,
     Host!FailPhase, Host!Fail
<1>4. CASE Shutdown
  BY <1>4 DEF Shutdown, Host!Shutdown, Control!Complete, Control!controller
<1>5. CASE StoreFinished
  BY <1>5 DEF StoreFinished, Control!StoreFinished, Control!controller
<1> QED
  BY <1>1, <1>2, <1>3, <1>4, <1>5

\* Those from one stop to the next.
LEMMA InStepInScript ==
    ASSUME InStep, Stop \/ StopOnError \/ Capture \/ Report \/ Leave \/ Finish
    PROVE  InStep'
<1> USE DEF InStep, Capturing, Ended, HostProofs!Unwinding, host,
    Control!controller
<1>1. CASE Stop \/ StopOnError
  BY <1>1 DEF Stop, StopOnError, Control!Break, Host!OnScriptErrorDebug
<1>2. CASE Capture
  BY <1>2 DEF Capture, Control!RegisterApplication, Control!RegisterThread,
     Control!RegisterFrame, Control!Publish, Control!SetStack,
     Control!SetVariables
<1>3. CASE Report
  BY <1>3 DEF Report, Control!Report, Host!OnHandleBreakPoint
<1>4. CASE Leave
  BY <1>4 DEF Leave, Control!Leave, Host!Resume
<1>5. CASE Finish
  BY <1>5 DEF Finish, Control!Finish, Host!EndScript, Host!SetUp,
     Host!OnScriptError
<1> QED
  BY <1>1, <1>2, <1>3, <1>4, <1>5

\* Those of the main thread.
LEMMA InStepPrompt ==
    ASSUME InStep, ControlProofs!TypeOK, NEW c \in Controllers, Prompt(c)
    PROVE  InStep'
<1>1. pc \in [Controllers -> ControlProofs!ControllerStates]
  BY DEF ControlProofs!TypeOK, ControlProofs!DataOK
<1>2. /\ UNCHANGED <<worker, phase, request>>
      /\ \E s : /\ pc' = [pc EXCEPT ![c] = s]
                /\ s = "exited" => worker = "finished"
  BY DEF Prompt, host, Control!Controller, Control!WaitPaused,
     Control!LeaveLoop, Control!BeginEvaluate, Control!EndEvaluate,
     Control!BeginResume, Control!FetchInterfaces,
     Control!ResumeFromBreakPoint, Control!ClearPause
<1> QED
  BY <1>1, <1>2 DEF InStep

LEMMA InStepInvariant == Spec => []InStep
<1>1. Init => InStep
  BY DEF Init, Control!Init, Host!Init, InStep, Capturing, Ended,
     HostProofs!Unwinding
<1>2. ASSUME InStep, ControlProofs!TypeOK, [Next]_vars
      PROVE  InStep'
  <2>1. CASE UNCHANGED vars
    BY <1>2, <2>1 DEF vars, control, host, InStep
  <2> QED
    BY <1>2, <2>1, InStepOutsideScript, InStepInScript, InStepPrompt
       DEF Next, Worker, WorkerStep
<1> QED
  BY <1>1, <1>2, ComponentSpecs, ControlAssumptionHolds,
     ControlProofs!TypeCorrect, PTL DEF Spec

-----------------------------------------------------------------------------
(* What holds where the components meet. *)

\* TypeOK: the variables keep their types, and the threads are in step.
THEOREM TypeCorrect == Spec => []TypeOK
<1>1. ControlProofs!TypeOK => Control!TypeOK
  BY DEF Control!TypeOK, Control!FlagsOK, Control!DataOK, Control!Kinds,
     Control!Stops, Control!WorkerStates, Control!ControllerStates,
     Control!Actions, ControlProofs!TypeOK, ControlProofs!FlagsOK,
     ControlProofs!DataOK, ControlProofs!Kinds, ControlProofs!Stops,
     ControlProofs!WorkerStates, ControlProofs!ControllerStates,
     ControlProofs!Actions
<1>2. HostProofs!TypeOK => Host!TypeOK
  BY DEF Host!TypeOK, Host!AllRequests, Host!Phases, Host!Setup, Host!Running,
     Host!Unwinding, Host!Sessions, Host!States, Host!Reasons, Host!NoStop,
     HostProofs!TypeOK, HostProofs!AllRequests, HostProofs!Phases,
     HostProofs!Setup, HostProofs!Running, HostProofs!Unwinding,
     HostProofs!Sessions, HostProofs!States, HostProofs!Reasons,
     HostProofs!NoStop
<1>3. ASSUME Control!TypeOK, Host!TypeOK, InStep
      PROVE  TypeOK
  BY <1>3 DEF TypeOK, InStep, Capturing, Ended, Control!InBreak,
     Host!Unwinding, HostProofs!Unwinding
<1>4. ControlProofs!Spec => []ControlProofs!TypeOK
  BY ControlAssumptionHolds, ControlProofs!TypeCorrect
<1>5. HostProofs!Spec => []HostProofs!TypeOK
  BY HostAssumptionHolds, HostProofs!TypeCorrect
<1> QED
  BY <1>1, <1>2, <1>3, <1>4, <1>5, ComponentSpecs, InStepInvariant, PTL

\* A stop that the user may be asked about is the one the session records, for
\* any number of controllers and whatever fails.
THEOREM HeldStopsAreReported == Spec => []HeldStopIsReported
<1>1. InStep /\ HostProofs!SessionInv => HeldStopIsReported
  BY DEF InStep, HostProofs!SessionInv, HostProofs!HeldIsPaused,
     HeldStopIsReported
<1> QED
  BY <1>1, InStepInvariant, SystemSession, PTL

\* No command of the sole prompt meets a debugger that is being taken down.
THEOREM SoleCommandsMeetLiveSession ==
    ASSUME NEW cli, Controllers = {cli}
    PROVE  Spec => []CommandsMeetLiveSession
<1>1. ASSUME InStep, HostProofs!SessionInv, HostProofs!ResourceInv,
             ControlProofs!CommandsReachSeenStop,
             NEW c \in Controllers, pc[c] \in {"evaluate", "fetch", "call"}
      PROVE  /\ application /\ connected /\ document
             /\ session.state \notin Host!Terminal
  <2>1. phase \in {"script", "held", "erring"}
    BY <1>1 DEF InStep, Capturing, ControlProofs!CommandsReachSeenStop,
       ControlProofs!Resumable, ControlProofs!InBreak
  <2>2. session.state \notin Host!Terminal
    BY <1>1, <2>1 DEF HostProofs!SessionInv, HostProofs!Setup,
       HostProofs!Running, HostProofs!Live, Host!Terminal
  <2>3. connected
    BY <1>1, <2>1, SystemAssumption DEF InStep, HostProofs!ResourceInv,
       HostProofs!Setup, HostProofs!Running, HostProofs!BeforeDebugger,
       HostProofs!BeforeEngine, HostProofs!DebugRequested
  <2>4. application /\ document
    BY <1>1, <2>1, <2>3 DEF HostProofs!ResourceInv, HostProofs!Running,
       HostProofs!OrderlyTeardown
  <2> QED
    BY <2>2, <2>3, <2>4
<1>2. InStep /\ HostProofs!SessionInv /\ HostProofs!ResourceInv
        /\ ControlProofs!CommandsReachSeenStop => CommandsMeetLiveSession
  BY <1>1 DEF CommandsMeetLiveSession
<1>3. ControlProofs!Spec => []ControlProofs!CommandsReachSeenStop
  BY ControlAssumptionHolds, ControlProofs!SoleCommandsReachSeenStop
<1>4. HostProofs!Spec => []HostProofs!ResourceInv
  BY HostAssumptionHolds, HostProofs!ResourceInvariant
<1> QED
  BY <1>2, <1>3, <1>4, ComponentSpecs, InStepInvariant, SystemSession, PTL

\* When the sole prompt is left, the outcome is known and nothing of wshdbg is
\* left with the debug manager, nor in the interface table but for what could not
\* be revoked.
THEOREM SoleExitIsClean ==
    ASSUME NEW cli, Controllers = {cli}
    PROVE  Spec => []ExitIsClean
<1>1. ASSUME InStep, HostProofs!SessionInv, HostProofs!ResourceInv,
             ControlProofs!NoPhantomPause, pc[cli] = "exited"
      PROVE  /\ phase = "returned" /\ result # "none"
             /\ (result = "false") <=> (session.state = "Failed")
             /\ ~application /\ ~connected /\ ~document /\ engine = "none"
             /\ ~paused
             /\ \A k \in Control!Kinds : git[k] \subseteq unrevoked[k]
  <2>1. worker = "finished" /\ phase = "returned"
    BY <1>1 DEF InStep
  <2>2. result # "none" /\ ((result = "false") <=> (session.state = "Failed"))
    BY <1>1, <2>1 DEF HostProofs!SessionInv, HostProofs!OutcomeIsReported,
       HostProofs!Unwinding
  <2>3. ~application /\ ~connected /\ ~document /\ engine = "none"
    BY <1>1, <2>1 DEF HostProofs!ResourceInv, HostProofs!OrderlyTeardown
  <2>4. ~paused /\ \A k \in Control!Kinds : git[k] \subseteq unrevoked[k]
    BY <1>1, <2>1 DEF ControlProofs!NoPhantomPause, ControlProofs!InBreak,
       ControlProofs!Kinds, Control!Kinds
  <2> QED
    BY <2>1, <2>2, <2>3, <2>4
<1>2. InStep /\ HostProofs!SessionInv /\ HostProofs!ResourceInv
        /\ ControlProofs!NoPhantomPause => ExitIsClean
  BY <1>1 DEF ExitIsClean
<1>3. ControlProofs!Spec => []ControlProofs!NoPhantomPause
  BY ControlAssumptionHolds, ControlProofs!SoleNoPhantomPause
<1>4. HostProofs!Spec => []HostProofs!ResourceInv
  BY HostAssumptionHolds, HostProofs!ResourceInvariant
<1> QED
  BY <1>2, <1>3, <1>4, ComponentSpecs, InStepInvariant, SystemSession, PTL

\* The prompt of the whole debugger gets what PauseProtocol promises: the stops
\* of the script that a host runs are told of, released and made one at a time,
\* in order, and none is released that the user was not told of.
THEOREM SoleSystemImplementsProtocol ==
    ASSUME NEW cli, Controllers = {cli}
    PROVE  Spec => Control!ImplementsProtocol
<1> USE DEF Control!Protocol!vars, ControlProofs!Protocol!vars,
    Control!SoleController, ControlProofs!SoleController, Control!Resumable,
    ControlProofs!Resumable, Control!InBreak, ControlProofs!InBreak
<1>1. ControlProofs!Protocol!Init => Control!Protocol!Init
  BY DEF Control!Protocol!Init, ControlProofs!Protocol!Init
<1>2. [ControlProofs!Protocol!Next]_(ControlProofs!Protocol!vars)
        => [Control!Protocol!Next]_(Control!Protocol!vars)
  BY DEF Control!Protocol!Next, Control!Protocol!Stop, Control!Protocol!Tell,
     Control!Protocol!Release, ControlProofs!Protocol!Next,
     ControlProofs!Protocol!Stop, ControlProofs!Protocol!Tell,
     ControlProofs!Protocol!Release
<1>3. ControlProofs!Spec => ControlProofs!ImplementsProtocol
  BY ControlAssumptionHolds, ControlProofs!SoleImplementsProtocol
<1> QED
  BY <1>1, <1>2, <1>3, ComponentSpecs, PTL
     DEF Control!ImplementsProtocol, Control!Protocol!Spec,
         ControlProofs!ImplementsProtocol, ControlProofs!Protocol!Spec

-----------------------------------------------------------------------------
(* What was shown of the parts, for the whole. *)

\* In the whole program too, what run reports agrees with the session, a held
\* script is a paused session, the teardown is orderly, and breakpoints are
\* decided before the script runs, whatever the prompt does meanwhile.
THEOREM SystemKeepsHostProperties ==
    Spec => [](/\ Host!OutcomeIsReported /\ Host!HeldIsPaused
               /\ Host!OrderlyTeardown /\ Host!BreakpointsAreDecided)
<1>1. HostProofs!Spec => [](/\ HostProofs!OutcomeIsReported /\ HostProofs!HeldIsPaused
                           /\ HostProofs!OrderlyTeardown
                           /\ HostProofs!BreakpointsAreDecided)
  BY HostAssumptionHolds, HostProofs!RunReportsOutcome,
     HostProofs!HeldScriptIsPaused, HostProofs!TeardownIsOrderly,
     HostProofs!BreakpointsDecidedFirst, PTL
<1>2. /\ HostProofs!OutcomeIsReported => Host!OutcomeIsReported
      /\ HostProofs!HeldIsPaused => Host!HeldIsPaused
      /\ HostProofs!OrderlyTeardown => Host!OrderlyTeardown
      /\ HostProofs!BreakpointsAreDecided => Host!BreakpointsAreDecided
  BY DEF HostProofs!OutcomeIsReported, Host!OutcomeIsReported,
     HostProofs!Terminal, Host!Terminal, HostProofs!HeldIsPaused,
     Host!HeldIsPaused, HostProofs!OrderlyTeardown, Host!OrderlyTeardown,
     HostProofs!BreakpointsAreDecided, Host!BreakpointsAreDecided,
     HostProofs!Undecided, Host!Undecided, HostProofs!Running, Host!Running
<1> QED
  BY <1>1, <1>2, ComponentSpecs, PTL

\* And of the interfaces none leaks or is revoked while another thread is to
\* use it; with one prompt, each command reaches the stop it was given for, sees
\* the stack of no other, and no pause outlives its stop, whatever run does
\* meanwhile and wherever it fails.
THEOREM SystemKeepsControlProperties ==
    ASSUME NEW cli, Controllers = {cli}
    PROVE  Spec => [](/\ Control!CookiesAreRegistered /\ Control!NothingLeaks
                      /\ Control!CommandsReachSeenStop /\ Control!NoStaleInspection
                      /\ Control!NoPhantomPause)
<1>1. ControlProofs!Spec => [](/\ ControlProofs!CookiesAreRegistered
                              /\ ControlProofs!NothingLeaks)
  BY ControlAssumptionHolds, ControlProofs!CookiesRegistered,
     ControlProofs!NoInterfaceLeaks, PTL
<1>2. ControlProofs!Spec => [](/\ ControlProofs!CommandsReachSeenStop
                              /\ ControlProofs!NoStaleInspection
                              /\ ControlProofs!NoPhantomPause)
  BY ControlAssumptionHolds, ControlProofs!SoleCommandsReachSeenStop,
     ControlProofs!SoleInspectionIsFresh, ControlProofs!SoleNoPhantomPause, PTL
<1>3. /\ ControlProofs!CookiesAreRegistered => Control!CookiesAreRegistered
      /\ ControlProofs!NothingLeaks => Control!NothingLeaks
  BY DEF ControlProofs!CookiesAreRegistered, Control!CookiesAreRegistered,
     ControlProofs!NothingLeaks, Control!NothingLeaks, ControlProofs!Kinds,
     Control!Kinds
<1>4. /\ ControlProofs!CommandsReachSeenStop => Control!CommandsReachSeenStop
      /\ ControlProofs!NoStaleInspection => Control!NoStaleInspection
      /\ ControlProofs!NoPhantomPause => Control!NoPhantomPause
  BY DEF ControlProofs!CommandsReachSeenStop, Control!CommandsReachSeenStop,
     ControlProofs!NoStaleInspection, Control!NoStaleInspection,
     ControlProofs!NoPhantomPause, Control!NoPhantomPause, ControlProofs!Resumable,
     Control!Resumable, ControlProofs!InBreak, Control!InBreak, ControlProofs!Kinds, Control!Kinds
<1> QED
  BY <1>1, <1>2, <1>3, <1>4, ComponentSpecs, PTL

=============================================================================
