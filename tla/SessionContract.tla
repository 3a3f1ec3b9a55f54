--------------------------- MODULE SessionContract ---------------------------
(***************************************************************************)
(* What a DebugSession is to those who call it: a record that transition,  *)
(* stopped and debugger_event change at one stroke.  ActiveScriptHost.tla  *)
(* calls it so; DebugSession.tla has the events that it publishes in the   *)
(* middle of its calls.                                                    *)
(***************************************************************************)
EXTENDS SessionCore

VARIABLE session

Init == session = NewSession

MoveTo(next) == session' = Transition(session, next)

StopFor(reason) == session' = StoppedFor(session, reason)

Hear(type) == session' = DebuggerEvent(session, type)

Next ==
    \/ \E next \in States : MoveTo(next)
    \/ \E reason \in Reasons : StopFor(reason)
    \/ \E type \in DebuggerEventTypes : Hear(type)

Spec == Init /\ [][Next]_session

=============================================================================
