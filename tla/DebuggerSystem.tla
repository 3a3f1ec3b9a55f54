--------------------------- MODULE DebuggerSystem ---------------------------
(***************************************************************************)
(* The debugger as wmain runs it: ActiveScriptHost::run on a worker thread *)
(* (ActiveScriptHost.tla) beside the prompt on the main thread, with the   *)
(* DebugControl between them (DebugControl.tla).  Each action is an action *)
(* of one of the two modules or, where they meet, of both at once: where   *)
(* the script stops, is reported, is let go and ends, where the manager    *)
(* closes the application, and where run has returned.                     *)
(***************************************************************************)
EXTENDS Naturals, FiniteSets

CONSTANTS
    Controllers, MaxStops, ControlFaults,        \* of DebugControl
    Breakpoints, InFile, Requests, HostFaults    \* of ActiveScriptHost

VARIABLES
    cookie, stack, variables, paused, completed, worker, captured, git, stops,
    released, aborting, unrevoked, pc, copy, action, seen,
    request, phase, session, breakpoints, engine, application, connected,
    document, failed, result, reason, breaks

Control == INSTANCE DebugControlRefinement WITH Faults <- ControlFaults

Host == INSTANCE ActiveScriptHost WITH Faults <- HostFaults, MaxBreaks <- MaxStops

control == <<cookie, stack, variables, paused, completed, worker, captured, git,
             stops, released, aborting, unrevoked, pc, copy, action, seen>>
host == <<request, phase, session, breakpoints, engine, application, connected,
          document, failed, result, reason, breaks>>
vars == <<control, host>>

\* wmain passes a control exactly when it debugs (CommandLine.tla); without one
\* there is no other thread, and ActiveScriptHost.tla says it all.
ASSUME SystemAssumption ==
    /\ Control!ControlAssumption
    /\ Host!HostAssumption
    /\ \A r \in Requests : r.debug /\ r.control

\* At first the worker of DebugControl stands for a script yet to be started.
Init == Control!Init /\ Host!Init

-----------------------------------------------------------------------------
(* The worker thread, before and after the script. *)

Prepare == worker = "running" /\ Host!SetupStep /\ UNCHANGED control

\* Mutant: run does not wait for the script.
WindUpEarly ==
    /\ Host!CloseEngine \/ Host!DetachDocument \/ Host!ReleaseEngine
       \/ (phase = "close" /\ Host!FailPhase)
    /\ UNCHANGED control

\* run goes on where the script has ended, or has never been started.
WindUp ==
    /\ worker = "ended" \/ (worker = "closed" /\ phase = "release")
    /\ \/ Host!CloseEngine \/ Host!DetachDocument \/ Host!ReleaseEngine
       \/ phase = "close" /\ Host!FailPhase
    /\ UNCHANGED control

\* The services are shut down.  If the manager then calls onClose, that
\* completes the control and ends the session.
Shutdown ==
    /\ worker = "ended"
    /\ Host!Shutdown
    /\ \/ session' = session /\ UNCHANGED control
       \/ /\ connected
          /\ session' = Host!DebuggerEvent(session, "ProcessStopped")
          /\ Control!Complete

\* Mutant: the worker says so before the locals of run are destroyed.
StoreFinishedEarly ==
    /\ result # "none"
    /\ Control!StoreFinished
    /\ UNCHANGED host

\* Mutant: a failed run is not announced.
StoreFinishedIfOk ==
    /\ phase = "returned"
    /\ result = "true"
    /\ Control!StoreFinished
    /\ UNCHANGED host

\* run has returned, and the worker says so.
StoreFinished ==
    /\ phase = "returned"
    /\ Control!StoreFinished
    /\ UNCHANGED host

-----------------------------------------------------------------------------
(* The worker thread in the script. *)

OnStateChange ==
    /\ worker \in {"running", "ended"}
    /\ Host!OnStateChange
    /\ UNCHANGED control

\* The manager stops the script at a breakpoint, after a step or on a request,
\* and calls onHandleBreakPoint.
Stop ==
    /\ phase = "script"
    /\ connected
    /\ Control!Break
    /\ UNCHANGED host

\* The script fails: OnScriptErrorDebug reports the error, and the manager
\* calls onHandleBreakPoint.
StopOnError ==
    /\ Control!Break
    /\ Host!OnScriptErrorDebug

\* capture, set_stack and set_variables.
Capture ==
    /\ \/ Control!RegisterApplication \/ Control!RegisterThread
       \/ Control!RegisterFrame \/ Control!Publish
       \/ Control!SetStack \/ Control!SetVariables
    /\ UNCHANGED host

\* Mutant: a session that is paused already is not told.
ReportUnlessPaused ==
    /\ Control!Report
    /\ \/ phase = "script" /\ session.state # "Paused" /\ Host!OnHandleBreakPoint
       \/ /\ phase = "script"
          /\ session.state = "Paused"
          /\ phase' = "held"
          /\ reason' \in {"Breakpoint", "Step"}
          /\ breaks' = breaks + 1
          /\ UNCHANGED <<request, session, breakpoints, engine, application,
                         connected, document, failed, result>>
       \/ phase = "erring" /\ UNCHANGED host

\* Mutant: an error is a breakpoint for the session, as by default.
ReportErrorAsBreakpoint ==
    /\ Control!Report
    /\ \/ phase = "script" /\ Host!OnHandleBreakPoint
       \/ /\ phase = "erring"
          /\ session' = Host!DebuggerEvent(session, "BreakpointHit")
          /\ UNCHANGED <<request, phase, breakpoints, engine, application,
                         connected, document, failed, result, reason, breaks>>

\* The rest of onHandleBreakPoint: the stop is reported; an error once more.
Report ==
    /\ Control!Report
    /\ \/ phase = "script" /\ Host!OnHandleBreakPoint
       \/ /\ phase = "erring"
          /\ session' = Host!DebuggerEvent(session, "ScriptError")
          /\ UNCHANGED <<request, phase, breakpoints, engine, application,
                         connected, document, failed, result, reason, breaks>>

\* The manager lets the script go on, or ends it if it was aborted.
Leave ==
    /\ Control!Leave
    /\ Host!Resume
    /\ phase' \in {IF aborting THEN "close" ELSE "script", "onError"}

\* The script has ended: by itself, by an error, by the abort; or run failed
\* before it was started.
Finish ==
    /\ Control!Finish
    /\ \/ Host!EndScript
       \/ Host!OnScriptError
       \/ phase \in {"close", "unwind"} /\ UNCHANGED host

\* What the worker does of itself: the engine need not call OnStateChange.
WorkerStep ==
    \/ Prepare \/ Stop \/ StopOnError \/ Capture \/ Report
    \/ Leave \/ Finish \/ WindUp \/ Shutdown \/ StoreFinished

Worker == WorkerStep \/ OnStateChange

-----------------------------------------------------------------------------
(* The main thread: the loop of wmain.  It does not touch the session. *)

Prompt(c) == Control!Controller(c) /\ UNCHANGED host

Next == Worker \/ \E c \in Controllers : Prompt(c)

Spec == Init /\ [][Next]_vars

\* The worker never stands still at a step of its own, and the script it runs
\* ends or stops; the main thread finishes the calls it began (wait_expression
\* is bounded, the mutex is held only for short blocks) and tests finished after
\* each command.  The user may evaluate for as long as he likes, but not for
\* ever: at the end of the input wmain reads "quit", which is a resume.
Fairness ==
    /\ WF_vars(WorkerStep)
    /\ \A c \in Controllers :
        /\ WF_vars(Control!WaitPaused(c) /\ UNCHANGED host)
        /\ SF_vars(Control!LeaveLoop(c) /\ UNCHANGED host)
        /\ WF_vars(Control!EndEvaluate(c) /\ UNCHANGED host)
        /\ SF_vars(Control!BeginResume(c) /\ UNCHANGED host)
        /\ WF_vars(Control!FetchInterfaces(c) /\ UNCHANGED host)
        /\ WF_vars(Control!ResumeFromBreakPoint(c) /\ UNCHANGED host)
        /\ WF_vars(Control!ClearPause(c) /\ UNCHANGED host)

FairSpec == Spec /\ Fairness

-----------------------------------------------------------------------------
(* Properties. *)

\* The two threads are in step: where run is fits where the worker of
\* DebugControl is, in particular nothing is taken down while a stop is being
\* handled.
TypeOK ==
    /\ Control!TypeOK
    /\ Host!TypeOK
    /\ worker \in {"ended", "closed", "finished"} =>
          phase \in {"close"} \cup Host!Unwinding
    /\ phase \in Host!Unwinding \ {"unwind"} =>
          worker \in {"ended", "closed", "finished"}
    /\ Control!InBreak => phase \in {"script", "held", "erring"}

\* A stop that the user is asked about is one that the session knows of: once
\* the callback is over, the session is paused, for the reason the script is
\* held, whether or not capture succeeded and a prompt will ever come.  (Before
\* that, a prompt may be ahead of the report: capture publishes the pause
\* first.)
HeldStopIsReported ==
    worker = "held" => session = [state |-> "Paused", lastStop |-> reason]

\* A command never meets a debugger that is being taken down: while one is
\* under way, the application is registered, wshdbg is connected to it, and the
\* session has not ended.
CommandsMeetLiveSession ==
    \A c \in Controllers :
        pc[c] \in {"evaluate", "fetch", "call"} =>
            /\ application /\ connected /\ document
            /\ session.state \notin Host!Terminal

\* When wmain has left its loop, run's outcome is there to be read and agrees
\* with the session, no pause is left, the debug manager knows nothing of wshdbg
\* any more, and the interface table holds no more of it than what clear_locked
\* could not revoke.
ExitIsClean ==
    (\A c \in Controllers : pc[c] = "exited") =>
        /\ phase = "returned" /\ result # "none"
        /\ (result = "false") <=> (session.state = "Failed")
        /\ ~application /\ ~connected /\ ~document /\ engine = "none"
        /\ ~paused
        /\ \A k \in Control!Kinds : git[k] \subseteq unrevoked[k]

\* The system is a host whose held scripts are resumed as a host allows: a stop
\* whose pause is offered before the session is told, and an error that is
\* reported twice, are no more to the session than one report of one stop.
ImplementsHost == Host!Spec

\* A stop that the user is told of is released in the end, with run failing or
\* the manager closing the application at whatever point it likes.
SeenStopIsReleased == Control!SeenStopIsReleased

\* A debug session ends, with the main thread out of its loop, unless a held
\* stop is not offered to it: because capture has failed, or because the clear
\* of a resume has taken the next stop (StopReachesController).  Nothing else
\* lets main and worker wait for each other.
SystemEnds ==
    []Control!StopReachesController => <>(\A c \in Controllers : pc[c] = "exited")

=============================================================================
