----------------------------- MODULE SessionCore -----------------------------
(***************************************************************************)
(* The lifecycle of a DebugSession: the transition table, and what a call  *)
(* of transition, stopped or debugger_event does to the session when no    *)
(* event handler calls the session back (DebugSession.tla is about those   *)
(* that do).  A session is a record of its state_ and its last_stop_, of   *)
(* which only the reason is kept.                                          *)
(***************************************************************************)

States == {"Created", "Launching", "Running", "Paused", "Stopping", "Stopped",
           "Failed"}
Terminal == {"Stopped", "Failed"}

\* StopReason: those that some caller passes; "none" for an empty last_stop_.
Reasons == {"Breakpoint", "Step", "Pause", "ScriptError"}
NoStop == "none"

Sessions == [state : States, lastStop : Reasons \cup {NoStop}]

NewSession == [state |-> "Created", lastStop |-> NoStop]

\* Mutant: a stopped session may be launched again.
SuccessorsRestart ==
    [Created   |-> {"Launching", "Stopped", "Failed"},
     Launching |-> {"Running", "Paused", "Stopping", "Stopped", "Failed"},
     Running   |-> {"Paused", "Stopping", "Stopped", "Failed"},
     Paused    |-> {"Running", "Stopping", "Stopped", "Failed"},
     Stopping  |-> {"Stopped", "Failed"},
     Stopped   |-> {"Launching"},
     Failed    |-> {}]

\* The states that the table of can_transition lists after each state.
Successors ==
    [Created   |-> {"Launching", "Stopped", "Failed"},
     Launching |-> {"Running", "Paused", "Stopping", "Stopped", "Failed"},
     Running   |-> {"Paused", "Stopping", "Stopped", "Failed"},
     Paused    |-> {"Running", "Stopping", "Stopped", "Failed"},
     Stopping  |-> {"Stopped", "Failed"},
     Stopped   |-> {},
     Failed    |-> {}]

CanTransition(from, to) == from = to \/ to \in Successors[from]

\* last_stop_ after an accepted transition.
StopAfter(next, stop) == IF next = "Running" THEN NoStop ELSE stop

Transition(s, next) ==
    IF CanTransition(s.state, next)
      THEN [state |-> next, lastStop |-> StopAfter(next, s.lastStop)]
      ELSE s

StoppedFor(s, reason) ==
    IF CanTransition(s.state, "Paused")
      THEN [state |-> "Paused", lastStop |-> reason]
      ELSE s

\* debugger_event: what the type of the event does to the session.
DebuggerEventTypes ==
    {"BreakpointHit", "StepComplete", "ScriptError", "ProcessStopped",
     "ScriptLoaded", "BreakpointBound"}

\* The StopReason of the events that stop the session.
ReasonOf ==
    [BreakpointHit |-> "Breakpoint", StepComplete |-> "Step",
     ScriptError |-> "ScriptError"]

DebuggerEvent(s, type) ==
    CASE type \in DOMAIN ReasonOf -> StoppedFor(s, ReasonOf[type])
      [] type = "ProcessStopped" /\ s.state \notin Terminal ->
            Transition(s, "Stopped")
      [] OTHER -> s

=============================================================================
