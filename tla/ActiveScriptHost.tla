-------------------------- MODULE ActiveScriptHost --------------------------
(***************************************************************************)
(* ActiveScriptHost::run, from the COM check to the destruction of its     *)
(* local objects, with what it drives: the script engine, the registration *)
(* of the debug application and document, the binding of the breakpoints,  *)
(* and the callbacks that the engine and the debug manager make while the  *)
(* script runs and that end in the DebugSession.                           *)
(*                                                                         *)
(* Everything happens on the worker thread; the controller appears only as *)
(* the resume that lets a held script go on (DebugControl.tla is about how *)
(* that resume comes about).                                               *)
(***************************************************************************)
EXTENDS Naturals, FiniteSets, SessionCore

CONSTANTS
    Breakpoints,   \* the breakpoints that the session may hold
    InFile,        \* those of them that for_file finds in the script's file
    MaxBreaks,     \* bound: how often the script is held
    Requests,      \* the requests considered (see AllRequests)
    Faults         \* the phases whose calls may fail in this instance

\* What run is called with: LaunchOptions, the breakpoints of the session, and
\* whether a DebugControl is passed.
AllRequests ==
    [debug : BOOLEAN, entry : BOOLEAN, breakpoints : SUBSET Breakpoints,
     control : BOOLEAN]

\* The phases of run, in order; the script is held in "held" (a breakpoint or
\* a step) or "erring" (a script error), and "unwind" to "returned" is the
\* destruction of run's locals.
Setup == {"com", "read", "engine", "control", "initialize", "connect", "site",
          "register", "parse", "bind", "entry", "start"}
Running == {"script", "held", "erring", "onError", "close"}
Unwinding == {"unwind", "shutdown", "release", "returned"}
Phases == Setup \cup Running \cup Unwinding

\* The phases that call something that can fail and ends run: in "start"
\* SetScriptState fails before the script has run, in "close" afterwards.
Fallible == (Setup \ {"control", "bind"}) \cup {"close"}

ASSUME HostAssumption ==
    /\ InFile \subseteq Breakpoints
    /\ MaxBreaks \in Nat
    /\ Requests \subseteq AllRequests
    /\ Faults \subseteq Fallible \cup {"bind"}

VARIABLES
    request,       \* the arguments of run
    phase,         \* where run is
    session,       \* the DebugSession
    breakpoints,   \* the state of each breakpoint of the request in the store
    engine,        \* "none", "created", "sited", "closed"
    application,   \* the debug application is registered with the manager
    connected,     \* ... and wshdbg is its debugger
    document,      \* the script's text is a document of the application
    failed,        \* ScriptSite::failed_
    result,        \* what run returns: "none", "true" or "false"
    reason,        \* why the script is held
    breaks         \* how often it has been

resources == <<engine, application, connected, document>>
vars == <<request, phase, session, breakpoints, resources, failed, result,
          reason, breaks>>

TypeOK ==
    /\ request \in AllRequests
    /\ phase \in Phases
    /\ session \in Sessions
    /\ breakpoints \in [request.breakpoints -> {"Pending", "Bound", "Error"}]
    /\ engine \in {"none", "created", "sited", "closed"}
    /\ application \in BOOLEAN
    /\ connected \in BOOLEAN
    /\ document \in BOOLEAN
    /\ failed \in BOOLEAN
    /\ result \in {"none", "true", "false"}
    /\ reason \in Reasons
    /\ breaks \in 0 .. MaxBreaks

Init ==
    /\ request \in Requests
    /\ phase = "com"
    /\ session = NewSession
    /\ breakpoints = [b \in request.breakpoints |-> "Pending"]
    /\ engine = "none"
    /\ application = FALSE
    /\ connected = FALSE
    /\ document = FALSE
    /\ failed = FALSE
    /\ result = "none"
    /\ reason = "Breakpoint"
    /\ breaks = 0

\* debug_requested.
DebugRequested == request.debug \/ request.entry \/ request.breakpoints # {}

\* A session that neither a breakpoint nor break-on-entry makes interactive
\* needs no DebugControl.
ControlMissing ==
    (request.entry \/ request.breakpoints # {}) /\ ~request.control

-----------------------------------------------------------------------------
(* Setup. *)

\* Every failure ends alike: the session fails and run returns false.
Fail ==
    /\ session' = Transition(session, "Failed")
    /\ result' = "false"
    /\ phase' = "unwind"

\* Some call of a phase fails.  What the phase had half done it undoes itself
\* (initialize by shutdown, register_document by unregister_document).
FailPhase ==
    /\ phase \in Faults \cap Fallible
    /\ Fail
    /\ UNCHANGED <<request, breakpoints, resources, failed, reason, breaks>>

\* A script that cannot be parsed is reported to the site before
\* ParseScriptText fails.
FailParse ==
    /\ phase = "parse"
    /\ "parse" \in Faults
    /\ session' = Transition(StoppedFor(session, "ScriptError"), "Failed")
    /\ failed' = TRUE
    /\ result' = "false"
    /\ phase' = "unwind"
    /\ UNCHANGED <<request, breakpoints, resources, reason, breaks>>

\* COM is usable: the session is launching.
Launch ==
    /\ phase = "com"
    /\ session' = Transition(session, "Launching")
    /\ phase' = "read"
    /\ UNCHANGED <<request, breakpoints, resources, failed, result, reason,
                   breaks>>

\* A phase of setup that changes only what done says.
SetUp(here, next, done) ==
    /\ phase = here
    /\ phase' = next
    /\ done
    /\ UNCHANGED <<request, session, breakpoints, failed, result, reason,
                   breaks>>

ReadScript == SetUp("read", "engine", UNCHANGED resources)

CreateEngine ==
    SetUp("engine", "control",
          /\ engine' = "created"
          /\ UNCHANGED <<application, connected, document>>)

\* Mutant: nobody asks whether there is somebody to resume the script.
RequireControlNever ==
    SetUp("control", IF DebugRequested THEN "initialize" ELSE "site",
          UNCHANGED resources)

\* Breakpoints and break-on-entry need a DebugControl.
RequireControl ==
    /\ ~ControlMissing
    /\ SetUp("control", IF DebugRequested THEN "initialize" ELSE "site",
             UNCHANGED resources)

RefuseWithoutControl ==
    /\ phase = "control"
    /\ ControlMissing
    /\ Fail
    /\ UNCHANGED <<request, breakpoints, resources, failed, reason, breaks>>

InitializeDebugging ==
    SetUp("initialize", "connect",
          /\ application' = TRUE
          /\ UNCHANGED <<engine, connected, document>>)

ConnectDebugger ==
    SetUp("connect", "site",
          /\ connected' = TRUE
          /\ UNCHANGED <<engine, application, document>>)

\* debug_ready: the debugger was connected.
SetScriptSite ==
    SetUp("site", IF connected THEN "register" ELSE "parse",
          /\ engine' = "sited"
          /\ UNCHANGED <<application, connected, document>>)

RegisterDocument ==
    SetUp("register", "parse",
          /\ document' = TRUE
          /\ UNCHANGED <<engine, application, connected>>)

\* The script is parsed, and script_loaded published.
ParseScript ==
    /\ phase = "parse"
    /\ session' = DebuggerEvent(session, "ScriptLoaded")
    /\ phase' = IF connected THEN "bind" ELSE "start"
    /\ UNCHANGED <<request, breakpoints, resources, failed, result, reason,
                   breaks>>

\* The breakpoints of the script's file that bind has not come to.
Undecided == {b \in request.breakpoints \cap InFile : breakpoints[b] = "Pending"}

\* BreakpointBinder::bind: the breakpoint is bound, which is published, or gets
\* the error that kept it from being.
BindBreakpoint ==
    /\ phase = "bind"
    /\ \E b \in Undecided :
          \/ /\ breakpoints' = [breakpoints EXCEPT ![b] = "Bound"]
             /\ session' = DebuggerEvent(session, "BreakpointBound")
          \/ /\ "bind" \in Faults
             /\ breakpoints' = [breakpoints EXCEPT ![b] = "Error"]
             /\ UNCHANGED session
    /\ UNCHANGED <<request, phase, resources, failed, result, reason, breaks>>

\* Mutant: one breakpoint that is in place ends the loop.
EndBindingEarly ==
    /\ \/ Undecided = {}
       \/ \E b \in request.breakpoints \cap InFile : breakpoints[b] = "Bound"
    /\ SetUp("bind", IF request.entry THEN "entry" ELSE "start",
             UNCHANGED resources)

EndBinding ==
    /\ Undecided = {}
    /\ SetUp("bind", IF request.entry THEN "entry" ELSE "start",
             UNCHANGED resources)

CauseBreak == SetUp("entry", "start", UNCHANGED resources)

StartScript == SetUp("start", "script", UNCHANGED resources)

-----------------------------------------------------------------------------
(* The script runs: callbacks of the engine and of the debug manager. *)

\* OnStateChange(STARTED or CONNECTED): before the script runs, and after it.
OnStateChange ==
    /\ phase \in {"script", "close"}
    /\ session' = Transition(session, "Running")
    /\ UNCHANGED <<request, phase, breakpoints, resources, failed, result,
                   reason, breaks>>

\* Mutant: a step is reported like a script that has been loaded.
OnHandleBreakPointUnreported ==
    /\ phase = "script"
    /\ connected
    /\ breaks < MaxBreaks
    /\ \E type \in {"BreakpointHit", "StepComplete"} :
          /\ session' = DebuggerEvent(session, IF type = "StepComplete"
                                               THEN "ScriptLoaded" ELSE type)
          /\ reason' = ReasonOf[type]
    /\ phase' = "held"
    /\ breaks' = breaks + 1
    /\ UNCHANGED <<request, breakpoints, resources, failed, result>>

\* onHandleBreakPoint: a breakpoint or a pause is a breakpoint for the session.
OnHandleBreakPoint ==
    /\ phase = "script"
    /\ connected
    /\ breaks < MaxBreaks
    /\ \E type \in {"BreakpointHit", "StepComplete"} :
          /\ session' = DebuggerEvent(session, type)
          /\ reason' = ReasonOf[type]
    /\ phase' = "held"
    /\ breaks' = breaks + 1
    /\ UNCHANGED <<request, breakpoints, resources, failed, result>>

\* OnScriptErrorDebug asks for the debugger and reports the error, and
\* onHandleBreakPoint reports it once more.
OnScriptErrorDebug ==
    /\ phase = "script"
    /\ connected
    /\ breaks < MaxBreaks
    /\ session' = DebuggerEvent(DebuggerEvent(session, "ScriptError"), "ScriptError")
    /\ reason' = "ScriptError"
    /\ phase' = "erring"
    /\ breaks' = breaks + 1
    /\ UNCHANGED <<request, breakpoints, resources, failed, result>>

\* A controller resumes the script; only a DebugControl can.  The session is
\* not told.  resume asks for the statement in error to be skipped; the script
\* goes on, or the site hears of the error once more.  An aborted script ends.
Resume ==
    /\ phase \in {"held", "erring"}
    /\ request.control
    /\ \/ phase' \in {"script", "close"}
       \/ /\ phase = "erring"
          /\ phase' = "onError"
    /\ UNCHANGED <<request, session, breakpoints, resources, failed, result,
                   reason, breaks>>

\* OnScriptError: at once without a debugger, after the resume with one.  The
\* script is over.
OnScriptError ==
    /\ phase = "onError" \/ (phase = "script" /\ ~connected)
    /\ session' = StoppedFor(session, "ScriptError")
    /\ failed' = TRUE
    /\ phase' = "close"
    /\ UNCHANGED <<request, breakpoints, resources, result, reason, breaks>>

EndScript == SetUp("script", "close", UNCHANGED resources)

\* Mutant: the outcome of the site is not asked for.
CloseEngineIgnoresError ==
    /\ phase = "close"
    /\ engine' = "closed"
    /\ session' = IF session.state \in {"Failed", "Paused"}
                    THEN session ELSE Transition(session, "Stopped")
    /\ result' = "true"
    /\ phase' = "unwind"
    /\ UNCHANGED <<request, breakpoints, application, connected, document,
                   failed, reason, breaks>>

\* engine->Close(), and what run makes of the outcome.
CloseEngine ==
    /\ phase = "close"
    /\ engine' = "closed"
    /\ IF failed
         THEN Fail
         ELSE /\ session' = IF session.state \in {"Failed", "Paused"}
                              THEN session ELSE Transition(session, "Stopped")
              /\ result' = "true"
              /\ phase' = "unwind"
    /\ UNCHANGED <<request, breakpoints, application, connected, document,
                   failed, reason, breaks>>

-----------------------------------------------------------------------------
(* The locals of run are destroyed, in the reverse order of declaration. *)

\* ~DebugDocumentHelper: unregister_document.
DetachDocument ==
    /\ phase = "unwind"
    /\ document' = FALSE
    /\ phase' = "shutdown"
    /\ UNCHANGED <<request, session, breakpoints, engine, application,
                   connected, failed, result, reason, breaks>>

\* Mutant: the destructor of the services only drops its references.
ShutdownDropsReferences ==
    /\ phase = "shutdown"
    /\ UNCHANGED <<application, connected, session>>
    /\ phase' = "release"
    /\ UNCHANGED <<request, breakpoints, engine, document, failed, result,
                   reason, breaks>>

\* ~ActiveDebugServices: the debugger is disconnected and the application
\* removed, on which the manager may call onClose.
Shutdown ==
    /\ phase = "shutdown"
    /\ application' = FALSE
    /\ connected' = FALSE
    /\ \/ UNCHANGED session
       \/ /\ connected
          /\ session' = DebuggerEvent(session, "ProcessStopped")
    /\ phase' = "release"
    /\ UNCHANGED <<request, breakpoints, engine, document, failed, result,
                   reason, breaks>>

\* The parser and the engine are released last.
ReleaseEngine ==
    /\ phase = "release"
    /\ engine' = "none"
    /\ phase' = "returned"
    /\ UNCHANGED <<request, session, breakpoints, application, connected,
                   document, failed, result, reason, breaks>>

-----------------------------------------------------------------------------
SetupStep ==
    \/ Launch \/ ReadScript \/ CreateEngine \/ RequireControl
    \/ RefuseWithoutControl \/ InitializeDebugging \/ ConnectDebugger
    \/ SetScriptSite \/ RegisterDocument \/ ParseScript \/ BindBreakpoint
    \/ EndBinding \/ CauseBreak \/ StartScript \/ FailPhase \/ FailParse

Callback == OnStateChange \/ OnHandleBreakPoint \/ OnScriptErrorDebug

Return ==
    \/ OnScriptError \/ EndScript \/ CloseEngine
    \/ DetachDocument \/ Shutdown \/ ReleaseEngine

Next == SetupStep \/ Callback \/ Resume \/ Return

Spec == Init /\ [][Next]_vars

\* What run does of itself.  Whether a script ends is up to the script, and
\* whether a held one is resumed is up to the user and to DebugControl.
RunStep ==
    SetupStep \/ CloseEngine \/ DetachDocument \/ Shutdown \/ ReleaseEngine

FairSpec == Spec /\ WF_vars(RunStep)

\* The registration as DebugServices.tla shows it: its variables are here.
Registration == INSTANCE DebugRegistration

-----------------------------------------------------------------------------
(* Properties. *)

\* What run returns agrees with the session it leaves behind: false with a
\* failed session, on each of the many ways out; true with one that stopped or
\* was paused last, and never after the site was told of an error; and the
\* session does not end before run does.
OutcomeIsReported ==
    /\ result = "none" => session.state \notin Terminal
    /\ result = "false" => session.state = "Failed"
    /\ result = "true" => ~failed /\ session.state \in {"Stopped", "Paused"}

\* Whatever the way out, the document is detached and the debugger
\* disconnected while the application they belong to is still registered, and
\* nothing is left when run has returned.
OrderlyTeardown ==
    /\ document \/ connected => application
    /\ document => engine # "none"
    /\ phase = "returned" => engine = "none" /\ ~application

\* No script with breakpoints ever runs without a debugger to stop it, without
\* a document to find them in, or before each one of its file is bound or has
\* an error.
BreakpointsAreDecided ==
    phase \in Running /\ request.breakpoints # {} =>
        connected /\ document /\ Undecided = {}

\* While the script is held, the session is paused, and its last stop is the
\* one the script is held at: it is not the one of an earlier stop, although
\* no resume is ever reported to the session.
HeldIsPaused ==
    phase \in {"held", "erring"} =>
        session = [state |-> "Paused", lastStop |-> reason]

\* It is the script's turn: run waits for it to end.
ScriptsTurn == phase \in {"script", "onError"}

\* It is the user's: the script is held, and there is a DebugControl with which
\* it may be resumed, or debugging was asked for in so many words.
UsersTurn == phase \in {"held", "erring"} /\ (request.control \/ request.debug)

\* run returns, unless from some point on it is the script's or the user's turn
\* for ever: nothing else keeps it, wherever it fails, and no script is held
\* for a breakpoint or a break on entry that nobody could resume.
RunReturns == <>(phase = "returned") \/ <>[](ScriptsTurn \/ UsersTurn)

\* What docs/architecture.md says of the debug manager (an optional path, not a
\* prerequisite), when nothing but its initialisation can fail: run fails only
\* for an error of the script or for want of a DebugControl.
PdmIsOptional == result = "false" => failed \/ ControlMissing

=============================================================================
