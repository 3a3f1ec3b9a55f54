----------------------- MODULE ActiveScriptHostProofs -----------------------
(***************************************************************************)
(* What TLAPS proves of ActiveScriptHost, for any breakpoints, any number  *)
(* of times the script is held, any requests and any set of faults.        *)
(***************************************************************************)
EXTENDS ActiveScriptHost, TLAPS

\* The states of a session whose run is under way.
Live == {"Launching", "Running", "Paused"}

-----------------------------------------------------------------------------
(* The session operators, on the sessions that run calls them with. *)

\* A session that has not ended fails when run does, and stops when it is told
\* to; launching it works once.
LEMMA EndingSession ==
    ASSUME NEW s, s.state \in Live \cup {"Created"}
    PROVE  /\ Transition(s, "Failed").state = "Failed"
           /\ Transition(s, "Stopped").state = "Stopped"
           /\ s.state = "Created" => Transition(s, "Launching").state = "Launching"
  BY DEF Live, Transition, CanTransition, Successors, StopAfter

\* A live session stays live when the script starts or stops; a stop is recorded.
LEMMA LiveSession ==
    ASSUME NEW s, s.state \in Live
    PROVE  /\ Transition(s, "Running").state \in Live
           /\ \A r : StoppedFor(s, r) = [state |-> "Paused", lastStop |-> r]
           /\ DebuggerEvent(s, "ScriptLoaded") = s
           /\ DebuggerEvent(s, "BreakpointBound") = s
  BY DEF Live, Transition, CanTransition, Successors, StopAfter, StoppedFor,
     DebuggerEvent, ReasonOf

\* The three events that stop a live session record their reason.
LEMMA StopEvents ==
    ASSUME NEW s, s.state \in Live,
           NEW type \in {"BreakpointHit", "StepComplete", "ScriptError"}
    PROVE  DebuggerEvent(s, type) = [state |-> "Paused", lastStop |-> ReasonOf[type]]
<1>1. type \in DOMAIN ReasonOf
  BY DEF ReasonOf
<1>2. DebuggerEvent(s, type) = StoppedFor(s, ReasonOf[type])
  BY <1>1 DEF DebuggerEvent
<1> QED
  BY <1>2, LiveSession

\* The end of the debuggee stops a paused session and no failed or stopped one.
LEMMA ProcessStoppedEvent ==
    ASSUME NEW s
    PROVE  /\ s.state \in Terminal => DebuggerEvent(s, "ProcessStopped") = s
           /\ s.state = "Paused" =>
                 DebuggerEvent(s, "ProcessStopped").state = "Stopped"
  BY DEF DebuggerEvent, ReasonOf, Terminal, Transition, CanTransition,
     Successors, StopAfter

-----------------------------------------------------------------------------
(* The session follows run. *)

SessionInv ==
    /\ phase \in Phases
    /\ phase \in Unwinding <=> result # "none"
    /\ phase = "com" => session.state = "Created"
    /\ phase \in (Setup \cup Running) \ {"com"} => session.state \in Live
    /\ result \in {"none", "true", "false"}
    /\ OutcomeIsReported
    /\ HeldIsPaused
    /\ phase = "erring" => reason = "ScriptError"

\* A failure is reported to the session, in whichever phase it happens.
LEMMA FailStep ==
    ASSUME SessionInv, Fail, phase \in Setup \cup Running
    PROVE  SessionInv'
<1>1. session.state \in Live \cup {"Created"}
  BY DEF SessionInv, Setup, Running
<1>2. session'.state = "Failed"
  BY <1>1, EndingSession DEF Fail
<1> QED
  BY <1>2 DEF Fail, SessionInv, OutcomeIsReported, HeldIsPaused, Phases, Setup,
     Running, Unwinding

\* The steps of setup keep the session in agreement with the phase.
LEMMA SessionSetupStep ==
    ASSUME SessionInv, SetupStep
    PROVE  SessionInv'
<1> USE DEF SessionInv, OutcomeIsReported, HeldIsPaused, Phases, Setup, Running,
    Unwinding, Terminal, Live
<1>1. CASE Launch
  BY <1>1, EndingSession DEF Launch
<1>2. CASE ReadScript \/ CreateEngine \/ RequireControl \/ InitializeDebugging
             \/ ConnectDebugger \/ SetScriptSite \/ RegisterDocument
             \/ EndBinding \/ CauseBreak \/ StartScript
  BY <1>2 DEF ReadScript, CreateEngine, RequireControl, InitializeDebugging,
     ConnectDebugger, SetScriptSite, RegisterDocument, EndBinding, CauseBreak,
     StartScript, SetUp
<1>3. CASE RefuseWithoutControl
  BY <1>3, FailStep DEF RefuseWithoutControl
<1>4. CASE FailPhase
  BY <1>4, FailStep DEF FailPhase, Fallible
<1>5. CASE ParseScript
  BY <1>5, LiveSession DEF ParseScript
<1>6. CASE BindBreakpoint
  BY <1>6, LiveSession DEF BindBreakpoint
<1>7. CASE FailParse
  <2>1. StoppedFor(session, "ScriptError").state \in Live
    BY <1>7, LiveSession DEF FailParse
  <2>2. session'.state = "Failed"
    BY <1>7, <2>1, EndingSession DEF FailParse
  <2> QED
    BY <1>7, <2>2 DEF FailParse
<1> QED
  BY <1>1, <1>2, <1>3, <1>4, <1>5, <1>6, <1>7 DEF SetupStep

\* So do the callbacks that the script makes, and its resumption.
LEMMA SessionCallbackStep ==
    ASSUME SessionInv, Callback \/ Resume
    PROVE  SessionInv'
<1> USE DEF SessionInv, OutcomeIsReported, HeldIsPaused, Phases, Setup, Running,
    Unwinding, Terminal, Live
<1>1. CASE OnStateChange
  BY <1>1, LiveSession DEF OnStateChange
<1>2. CASE OnHandleBreakPoint
  <2>1. PICK type \in {"BreakpointHit", "StepComplete"} :
            /\ session' = DebuggerEvent(session, type)
            /\ reason' = ReasonOf[type]
    BY <1>2 DEF OnHandleBreakPoint
  <2>2. session' = [state |-> "Paused", lastStop |-> reason']
    BY <1>2, <2>1, StopEvents DEF OnHandleBreakPoint
  <2> QED
    BY <1>2, <2>2 DEF OnHandleBreakPoint
<1>3. CASE OnScriptErrorDebug
  <2>1. DebuggerEvent(session, "ScriptError")
          = [state |-> "Paused", lastStop |-> "ScriptError"]
    BY <1>3, StopEvents DEF OnScriptErrorDebug, ReasonOf
  <2>2. session' = [state |-> "Paused", lastStop |-> "ScriptError"]
    BY <1>3, <2>1, StopEvents DEF OnScriptErrorDebug, ReasonOf
  <2> QED
    BY <1>3, <2>2 DEF OnScriptErrorDebug
<1>4. CASE Resume
  BY <1>4 DEF Resume
<1> QED
  BY <1>1, <1>2, <1>3, <1>4, Callback \/ Resume DEF Callback

\* And the end of the script and of run.
LEMMA SessionReturnStep ==
    ASSUME SessionInv, Return
    PROVE  SessionInv'
<1> USE DEF SessionInv, OutcomeIsReported, HeldIsPaused, Phases, Setup, Running,
    Unwinding, Terminal, Live
<1>1. CASE OnScriptError
  BY <1>1, LiveSession DEF OnScriptError
<1>2. CASE EndScript
  BY <1>2 DEF EndScript, SetUp
<1>3. CASE CloseEngine
  <2>1. CASE failed
    BY <1>3, <2>1, FailStep DEF CloseEngine
  <2>2. CASE ~failed
    BY <1>3, <2>2, EndingSession DEF CloseEngine
  <2> QED
    BY <2>1, <2>2
<1>4. CASE DetachDocument \/ ReleaseEngine
  BY <1>4 DEF DetachDocument, ReleaseEngine
<1>5. CASE Shutdown
  BY <1>5, ProcessStoppedEvent DEF Shutdown
<1> QED
  BY <1>1, <1>2, <1>3, <1>4, <1>5 DEF Return

LEMMA SessionInit == Init => SessionInv
  BY DEF Init, SessionInv, OutcomeIsReported, HeldIsPaused, Phases, Setup,
     Running, Unwinding, NewSession, Terminal

LEMMA SessionStep == SessionInv /\ [Next]_vars => SessionInv'
<1>1. SessionInv /\ UNCHANGED vars => SessionInv'
  BY DEF vars, SessionInv, OutcomeIsReported, HeldIsPaused
<1> QED
  BY <1>1, SessionSetupStep, SessionCallbackStep, SessionReturnStep DEF Next

\* The invariant behind the two theorems below.
LEMMA SessionInvariant == Spec => []SessionInv
  BY SessionInit, SessionStep, PTL DEF Spec

\* On every way out, what run returns agrees with the session: false with a
\* failed one, true with one that stopped or was paused last.
THEOREM RunReportsOutcome == Spec => []OutcomeIsReported
<1>1. SessionInv => OutcomeIsReported
  BY DEF SessionInv
<1> QED
  BY <1>1, SessionInvariant, PTL

\* While the script is held, the session is paused at the current stop.
THEOREM HeldScriptIsPaused == Spec => []HeldIsPaused
<1>1. SessionInv => HeldIsPaused
  BY DEF SessionInv
<1> QED
  BY <1>1, SessionInvariant, PTL

-----------------------------------------------------------------------------
(* Resources and breakpoints. *)

\* The phases before there is an engine, and before there is a debugger.
BeforeEngine == {"com", "read", "engine"}
BeforeDebugger == BeforeEngine \cup {"control", "initialize", "connect"}

\* Which resources run holds in which phase, and how far the binding is.
ResourceInv ==
    /\ phase \in Phases
    /\ phase \in BeforeDebugger => ~connected
    /\ phase \in BeforeDebugger \cup {"site", "register"} => ~document
    /\ phase = "connect" => application
    /\ phase \in {"initialize", "connect"} => DebugRequested
    /\ phase \in (Setup \cup Running) \ BeforeEngine => engine # "none"
    /\ phase \in (Setup \cup Running) \ BeforeDebugger => (DebugRequested <=> connected)
    /\ phase \in {"register", "bind"} => connected
    /\ phase \in {"parse", "bind", "entry", "start"} \cup Running =>
          (connected <=> document)
    /\ phase \in {"entry", "start"} \cup Running /\ connected => Undecided = {}
    /\ phase \in {"shutdown", "release", "returned"} => ~document
    /\ phase \in {"release", "returned"} => ~connected /\ ~application
    /\ OrderlyTeardown

\* The steps of setup acquire the resources in order.
LEMMA ResourceSetupStep ==
    ASSUME ResourceInv, SetupStep
    PROVE  ResourceInv'
<1> USE DEF ResourceInv, OrderlyTeardown, Phases, Setup, Running, Unwinding,
    BeforeEngine, BeforeDebugger, resources
<1>1. CASE Launch \/ ReadScript \/ CreateEngine
  BY <1>1 DEF Launch, ReadScript, CreateEngine, SetUp
<1>2. CASE RequireControl
  BY <1>2 DEF RequireControl, SetUp, DebugRequested
<1>3. CASE InitializeDebugging
  BY <1>3 DEF InitializeDebugging, SetUp, DebugRequested
<1>4. CASE ConnectDebugger
  BY <1>4 DEF ConnectDebugger, SetUp, DebugRequested
<1>5. CASE SetScriptSite
  <2>1. CASE connected
    BY <1>5, <2>1 DEF SetScriptSite, SetUp, DebugRequested
  <2>2. CASE ~connected
    BY <1>5, <2>2 DEF SetScriptSite, SetUp, DebugRequested
  <2> QED
    BY <2>1, <2>2
<1>6. CASE RegisterDocument
  BY <1>6 DEF RegisterDocument, SetUp, DebugRequested
<1>7. CASE ParseScript
  BY <1>7 DEF ParseScript, DebugRequested
<1>8. CASE BindBreakpoint
  BY <1>8 DEF BindBreakpoint, DebugRequested
<1>9. CASE EndBinding \/ CauseBreak \/ StartScript
  BY <1>9 DEF EndBinding, CauseBreak, StartScript, SetUp, DebugRequested,
     Undecided
<1>10. CASE RefuseWithoutControl \/ FailPhase \/ FailParse
  BY <1>10 DEF RefuseWithoutControl, FailPhase, FailParse, Fail, Fallible
<1> QED
  BY <1>1, <1>2, <1>3, <1>4, <1>5, <1>6, <1>7, <1>8, <1>9, <1>10
  DEF SetupStep

\* Nothing is acquired or given up while the script runs, and what run holds
\* is given up in the reverse order.
LEMMA ResourceRunStep ==
    ASSUME ResourceInv, Callback \/ Resume \/ Return
    PROVE  ResourceInv'
<1> USE DEF ResourceInv, OrderlyTeardown, Phases, Setup, Running, Unwinding,
    BeforeEngine, BeforeDebugger, resources, DebugRequested, Undecided
<1>1. CASE Callback
  BY <1>1 DEF Callback, OnStateChange, OnHandleBreakPoint, OnScriptErrorDebug
<1>2. CASE Resume
  BY <1>2 DEF Resume
<1>3. CASE OnScriptError \/ EndScript
  BY <1>3 DEF OnScriptError, EndScript, SetUp
<1>4. CASE CloseEngine
  BY <1>4 DEF CloseEngine, Fail
<1>5. CASE DetachDocument
  BY <1>5 DEF DetachDocument
<1>6. CASE Shutdown
  BY <1>6 DEF Shutdown
<1>7. CASE ReleaseEngine
  BY <1>7 DEF ReleaseEngine
<1> QED
  BY <1>1, <1>2, <1>3, <1>4, <1>5, <1>6, <1>7, Callback \/ Resume \/ Return DEF Return

\* The invariant behind the two theorems below.
LEMMA ResourceInvariant == Spec => []ResourceInv
<1>1. Init => ResourceInv
  BY DEF Init, ResourceInv, OrderlyTeardown, Phases, Setup, Running, Unwinding,
     BeforeEngine, BeforeDebugger
<1>2. ResourceInv /\ [Next]_vars => ResourceInv'
  <2>1. ResourceInv /\ UNCHANGED vars => ResourceInv'
    BY DEF vars, resources, ResourceInv, OrderlyTeardown, DebugRequested,
       Undecided
  <2> QED
    BY <2>1, ResourceSetupStep, ResourceRunStep DEF Next
<1> QED
  BY <1>1, <1>2, PTL DEF Spec

\* run uses the registration as its contract (DebugRegistration.tla) has it, the
\* one that DebugServicesProofs shows its calls to implement: it connects a
\* debugger and registers a document for an application that is there, each of
\* its operations counts as one step, and nothing else changes what is registered.
THEOREM HostUsesRegistration == Spec => Registration!Spec
<1>1. Init => Registration!Init
  BY DEF Init, Registration!Init
<1>2. ResourceInv /\ [Next]_vars => [Registration!Next]_(Registration!vars)
  <2> SUFFICES ASSUME ResourceInv, Next
               PROVE  Registration!Next \/ UNCHANGED Registration!vars
    BY DEF vars, resources, Registration!vars
  <2> USE DEF Registration!vars, resources
  <2>1. CASE InitializeDebugging
    <3>1. Registration!Initialize \/ UNCHANGED <<application, connected, document>>
      BY <2>1 DEF InitializeDebugging, SetUp, ResourceInv, Registration!Initialize
    <3> QED
      BY <3>1 DEF Registration!Next
  <2>2. CASE ConnectDebugger
    <3>1. Registration!Connect
      BY <2>2 DEF ConnectDebugger, SetUp, ResourceInv, Registration!Connect
    <3> QED
      BY <3>1 DEF Registration!Next
  <2>3. CASE RegisterDocument
    <3>1. Registration!Register
      BY <2>3 DEF RegisterDocument, SetUp, ResourceInv, OrderlyTeardown,
         Registration!Register
    <3> QED
      BY <3>1 DEF Registration!Next
  <2>4. CASE DetachDocument
    BY <2>4 DEF DetachDocument, Registration!Unregister, Registration!Next
  <2>5. CASE Shutdown
    BY <2>5 DEF Shutdown, Registration!Shutdown, Registration!Next
  <2>6. CASE SetupStep /\ ~(InitializeDebugging \/ ConnectDebugger \/ RegisterDocument)
    BY <2>6 DEF SetupStep, Launch, ReadScript, CreateEngine, RequireControl,
       RefuseWithoutControl, SetScriptSite, ParseScript, BindBreakpoint,
       EndBinding, CauseBreak, StartScript, FailPhase, FailParse, SetUp, Fail
  <2>7. CASE Callback \/ Resume
    BY <2>7 DEF Callback, OnStateChange, OnHandleBreakPoint, OnScriptErrorDebug,
       Resume
  <2>8. CASE Return /\ ~(DetachDocument \/ Shutdown)
    BY <2>8 DEF Return, OnScriptError, EndScript, CloseEngine, ReleaseEngine,
       SetUp
  <2> QED
    BY <2>1, <2>2, <2>3, <2>4, <2>5, <2>6, <2>7, <2>8 DEF Next
<1> QED
  BY <1>1, <1>2, ResourceInvariant, PTL DEF Spec, Registration!Spec

\* Document and debugger go before the application they belong to, and nothing
\* is left when run has returned, by whichever way.
THEOREM TeardownIsOrderly == Spec => []OrderlyTeardown
<1>1. ResourceInv => OrderlyTeardown
  BY DEF ResourceInv
<1> QED
  BY <1>1, ResourceInvariant, PTL

\* A script that has breakpoints runs only with a debugger, a document, and
\* every breakpoint of its file bound or in error.
THEOREM BreakpointsDecidedFirst == Spec => []BreakpointsAreDecided
<1>1. ResourceInv => BreakpointsAreDecided
  BY DEF ResourceInv, BreakpointsAreDecided, DebugRequested, Setup, Running,
     BeforeEngine, BeforeDebugger
<1> QED
  BY <1>1, ResourceInvariant, PTL

-----------------------------------------------------------------------------
(* Type correctness. *)

\* What the session operators make of a session is a session.
LEMMA SessionType ==
    ASSUME NEW s \in Sessions
    PROVE  /\ \A n \in States : Transition(s, n) \in Sessions
           /\ \A r \in Reasons : StoppedFor(s, r) \in Sessions
           /\ \A t \in DebuggerEventTypes : DebuggerEvent(s, t) \in Sessions
<1>1. \A n \in States : Transition(s, n) \in Sessions
  BY DEF Sessions, Transition, StopAfter, NoStop
<1>2. \A r \in Reasons : StoppedFor(s, r) \in Sessions
  BY DEF Sessions, StoppedFor, States
<1>3. ASSUME NEW t \in DebuggerEventTypes
      PROVE  DebuggerEvent(s, t) \in Sessions
  <2>1. CASE t \in DOMAIN ReasonOf
    <3>1. ReasonOf[t] \in Reasons
      BY <2>1 DEF ReasonOf, Reasons
    <3>2. t # "ProcessStopped"
      BY <2>1 DEF ReasonOf
    <3>3. DebuggerEvent(s, t) = StoppedFor(s, ReasonOf[t])
      BY <2>1, <3>2 DEF DebuggerEvent
    <3> QED
      BY <3>1, <3>3, <1>2
  <2>2. CASE t \notin DOMAIN ReasonOf
    <3>1. "Stopped" \in States
      BY DEF States
    <3>2. DebuggerEvent(s, t) \in {Transition(s, "Stopped"), s}
      BY <2>2 DEF DebuggerEvent
    <3> QED
      BY <3>1, <3>2, <1>1
  <2> QED
    BY <2>1, <2>2
<1> QED
  BY <1>1, <1>2, <1>3

LEMMA TypeSetupStep ==
    ASSUME TypeOK, SetupStep
    PROVE  TypeOK'
<1> USE DEF TypeOK, AllRequests, Phases, Setup, Running, Unwinding, resources,
    Fail, SetUp
<1>1. {"Launching", "Failed"} \subseteq States /\ "ScriptError" \in Reasons
        /\ {"ScriptLoaded", "BreakpointBound"} \subseteq DebuggerEventTypes
  BY DEF States, Reasons, DebuggerEventTypes
<1>2. CASE ReadScript \/ RequireControl \/ EndBinding \/ CauseBreak \/ StartScript
  BY <1>2 DEF ReadScript, RequireControl, EndBinding, CauseBreak, StartScript
<1>3. CASE CreateEngine \/ InitializeDebugging \/ ConnectDebugger
             \/ SetScriptSite \/ RegisterDocument
  BY <1>3 DEF CreateEngine, InitializeDebugging, ConnectDebugger, SetScriptSite,
     RegisterDocument
<1>4. CASE Launch \/ RefuseWithoutControl \/ FailPhase \/ ParseScript
  BY <1>4, <1>1, SessionType DEF Launch, RefuseWithoutControl, FailPhase,
     ParseScript
<1>5. CASE FailParse
  <2>1. StoppedFor(session, "ScriptError") \in Sessions
    BY <1>1, SessionType
  <2> QED
    BY <1>5, <1>1, <2>1, SessionType DEF FailParse
<1>6. CASE BindBreakpoint
  <2>1. session' \in Sessions
    BY <1>6, <1>1, SessionType DEF BindBreakpoint
  <2>2. breakpoints' \in [request.breakpoints -> {"Pending", "Bound", "Error"}]
    BY <1>6 DEF BindBreakpoint
  <2> QED
    BY <1>6, <2>1, <2>2 DEF BindBreakpoint
<1> QED
  BY <1>2, <1>3, <1>4, <1>5, <1>6 DEF SetupStep

LEMMA TypeRunStep ==
    ASSUME TypeOK, Callback \/ Resume \/ Return
    PROVE  TypeOK'
<1> USE DEF TypeOK, AllRequests, Phases, Setup, Running, Unwinding, resources,
    Fail, SetUp
<1>1. {"Running", "Stopped", "Failed"} \subseteq States
        /\ {"ScriptError", "Breakpoint", "Step"} \subseteq Reasons
        /\ {"ScriptError", "BreakpointHit", "StepComplete", "ProcessStopped"}
              \subseteq DebuggerEventTypes
  BY DEF States, Reasons, DebuggerEventTypes
<1>2. CASE OnStateChange \/ OnScriptError \/ CloseEngine \/ Shutdown
  BY <1>2, <1>1, SessionType DEF OnStateChange, OnScriptError, CloseEngine,
     Shutdown
<1>3. CASE OnHandleBreakPoint
  <2> PICK type \in {"BreakpointHit", "StepComplete"} :
            /\ session' = DebuggerEvent(session, type)
            /\ reason' = ReasonOf[type]
    BY <1>3 DEF OnHandleBreakPoint
  <2>1. session' \in Sessions
    BY <1>1, SessionType
  <2>2. reason' \in Reasons
    BY <1>1 DEF ReasonOf
  <2>3. breaks' \in 0 .. MaxBreaks
    BY <1>3, HostAssumption DEF OnHandleBreakPoint
  <2> QED
    BY <1>3, <2>1, <2>2, <2>3 DEF OnHandleBreakPoint
<1>4. CASE OnScriptErrorDebug
  <2>1. DebuggerEvent(session, "ScriptError") \in Sessions
    BY <1>1, SessionType
  <2>2. session' \in Sessions
    BY <1>4, <1>1, <2>1, SessionType DEF OnScriptErrorDebug
  <2>3. breaks' \in 0 .. MaxBreaks
    BY <1>4, HostAssumption DEF OnScriptErrorDebug
  <2> QED
    BY <1>4, <1>1, <2>2, <2>3 DEF OnScriptErrorDebug
<1>5. CASE Resume \/ EndScript \/ DetachDocument \/ ReleaseEngine
  BY <1>5 DEF Resume, EndScript, DetachDocument, ReleaseEngine
<1> QED
  BY <1>2, <1>3, <1>4, <1>5 DEF Callback, Return

\* TypeOK: the variables keep their types, whatever run is asked for and
\* wherever it fails.
THEOREM TypeCorrect == Spec => []TypeOK
<1>1. ASSUME Init PROVE TypeOK
  <2>1. request \in AllRequests /\ 0 \in 0 .. MaxBreaks
    BY <1>1, HostAssumption DEF Init
  <2>2. session \in Sessions /\ reason \in Reasons
    BY <1>1 DEF Init, NewSession, Sessions, States, Reasons, NoStop
  <2>3. breakpoints \in [request.breakpoints -> {"Pending", "Bound", "Error"}]
    BY <1>1 DEF Init
  <2> QED
    BY <1>1, <2>1, <2>2, <2>3 DEF Init, TypeOK, Phases, Setup
<1>2. TypeOK /\ [Next]_vars => TypeOK'
  <2>1. TypeOK /\ UNCHANGED vars => TypeOK'
    BY DEF vars, resources, TypeOK
  <2> QED
    BY <2>1, TypeSetupStep, TypeRunStep DEF Next
<1> QED
  BY <1>1, <1>2, PTL DEF Spec

=============================================================================
