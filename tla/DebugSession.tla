---------------------------- MODULE DebugSession ----------------------------
(***************************************************************************)
(* DebugSession as its callers and its event handlers see it.  publish()   *)
(* calls the handlers one after the other, and a handler may call the      *)
(* session back: the call runs to its end, with deliveries of its own,     *)
(* before the publish that was interrupted goes on.  The C++ call stack is *)
(* the sequence agenda of what is left to do, innermost first.             *)
(*                                                                         *)
(* A handler that subscribes another while it is called would invalidate   *)
(* the iterators of publish(): not modelled, subscribe() is called between *)
(* publishes.                                                              *)
(***************************************************************************)
EXTENDS Naturals, Sequences, SessionCore

CONSTANTS
    MaxHandlers,   \* bound: subscriptions
    MaxCalls,      \* bound: calls of the four operations that publish
    Reentrant      \* the handlers, by position, that may call back

ASSUME SessionAssumption ==
    /\ MaxHandlers \in Nat
    /\ MaxCalls \in Nat
    /\ Reentrant \subseteq 1 .. MaxHandlers

VARIABLES
    session,    \* state_ and last_stop_
    handlers,   \* how many handlers have subscribed
    agenda,     \* what is left to do of the calls under way
    view,       \* the state each handler was last told of
    calls,      \* calls so far
    calledBack  \* history: a handler has called back in the call under way

vars == <<session, handlers, agenda, view, calls, calledBack>>

Unknown == "unknown"
Kinds == {"StateChanged", "Stopped", "Output", "Debugger"}
Events == [kind : Kinds, state : States, stop : Reasons \cup {NoStop}]

Calls ==
    [op : {"transition"}, arg : States] \cup
    [op : {"stopped"}, arg : Reasons] \cup
    [op : {"output"}, arg : {"text"}] \cup
    [op : {"debugger_event"}, arg : DebuggerEventTypes]

TypeOK ==
    /\ session \in Sessions
    /\ handlers \in 0 .. MaxHandlers
    /\ view \in [1 .. MaxHandlers -> States \cup {Unknown}]
    /\ calls \in 0 .. MaxCalls
    /\ calledBack \in BOOLEAN
    /\ \A i \in DOMAIN agenda :
          \/ /\ agenda[i].op = "deliver"
             /\ agenda[i].event \in Events
             /\ agenda[i].to \in 1 .. handlers
          \/ /\ agenda[i].op = "record"
             /\ agenda[i].reason \in Reasons
          \/ agenda[i].op = "debugger"

Init ==
    /\ session = NewSession
    /\ handlers = 0
    /\ agenda = <<>>
    /\ view = [i \in 1 .. MaxHandlers |-> Unknown]
    /\ calls = 0
    /\ calledBack = FALSE

-----------------------------------------------------------------------------
\* publish: every handler is called, in the order of subscription, with the
\* event as it was when it was made.
Deliveries(kind, s) ==
    LET event == [kind |-> kind, state |-> s.state,
                  stop |-> IF kind = "Stopped" THEN s.lastStop ELSE NoStop]
    IN  [i \in 1 .. handlers |-> [op |-> "deliver", event |-> event, to |-> i]]

\* What a call does at once (now) and what it leaves to do (later).
Refused == [now |-> session, later |-> <<>>]

\* Mutant: transition publishes before it assigns state_.
TransitionCallEarly(next) ==
    IF CanTransition(session.state, next)
      THEN [now |-> Transition(session, next),
            later |-> Deliveries("StateChanged", session)]
      ELSE Refused

TransitionCall(next) ==
    IF CanTransition(session.state, next)
      THEN LET s == Transition(session, next)
           IN  [now |-> s, later |-> Deliveries("StateChanged", s)]
      ELSE Refused

\* Mutant: stopped does not ask whether the session may pause.
StoppedCallUnchecked(reason) ==
    IF session.state = "Paused"
      THEN LET s == [session EXCEPT !.lastStop = reason]
           IN  [now |-> s, later |-> Deliveries("Stopped", s)]
      ELSE [TransitionCall("Paused") EXCEPT !.later =
               Append(@, [op |-> "record", reason |-> reason])]

\* Already paused, stopped() records the stop and publishes it; otherwise the
\* transition is published first and the stop recorded when it has been.
StoppedCall(reason) ==
    IF session.state = "Paused"
      THEN LET s == [session EXCEPT !.lastStop = reason]
           IN  [now |-> s, later |-> Deliveries("Stopped", s)]
      ELSE LET pause == TransitionCall("Paused")
           IN  IF CanTransition(session.state, "Paused")
                 THEN [pause EXCEPT !.later =
                          Append(@, [op |-> "record", reason |-> reason])]
                 ELSE Refused

OutputCall == [now |-> session, later |-> Deliveries("Output", session)]

\* debugger_event: stop, end, or do nothing with the session; then publish.
DebuggerEventCall(type) ==
    LET first ==
          CASE type \in DOMAIN ReasonOf -> StoppedCall(ReasonOf[type])
            [] type = "ProcessStopped" /\ session.state \notin Terminal ->
                  TransitionCall("Stopped")
            [] OTHER -> Refused
    IN  [first EXCEPT !.later = Append(@, [op |-> "debugger"])]

Effect(call) ==
    CASE call.op = "transition" -> TransitionCall(call.arg)
      [] call.op = "stopped" -> StoppedCall(call.arg)
      [] call.op = "output" -> OutputCall
      [] call.op = "debugger_event" -> DebuggerEventCall(call.arg)

\* A call starts with rest still to be done after it.
Run(rest) ==
    /\ calls < MaxCalls
    /\ calls' = calls + 1
    /\ \E call \in Calls :
          /\ session' = Effect(call).now
          /\ agenda' = Effect(call).later \o rest

-----------------------------------------------------------------------------
Subscribe ==
    /\ agenda = <<>>
    /\ handlers < MaxHandlers
    /\ handlers' = handlers + 1
    /\ UNCHANGED <<session, agenda, view, calls, calledBack>>

\* The host or the debug site calls the session.
Call ==
    /\ agenda = <<>>
    /\ Run(<<>>)
    /\ calledBack' = FALSE
    /\ UNCHANGED <<handlers, view>>

Doing(op) == agenda # <<>> /\ Head(agenda).op = op

\* A handler is told of an event, and may call the session back.
Deliver ==
    /\ Doing("deliver")
    /\ view' = [view EXCEPT ![Head(agenda).to] = Head(agenda).event.state]
    /\ \/ /\ agenda' = Tail(agenda)
          /\ UNCHANGED <<session, calls, calledBack>>
       \/ /\ Head(agenda).to \in Reentrant
          /\ Run(Tail(agenda))
          /\ calledBack' = TRUE
    /\ UNCHANGED handlers

\* Mutant: the stop is published before it is recorded.
RecordStopLate ==
    /\ Doing("record")
    /\ session' = [session EXCEPT !.lastStop = Head(agenda).reason]
    /\ agenda' = Deliveries("Stopped", session) \o Tail(agenda)
    /\ UNCHANGED <<handlers, view, calls, calledBack>>

\* The second half of stopped(): last_stop_ is set and published.
RecordStop ==
    /\ Doing("record")
    /\ session' = [session EXCEPT !.lastStop = Head(agenda).reason]
    /\ agenda' = Deliveries("Stopped", session') \o Tail(agenda)
    /\ UNCHANGED <<handlers, view, calls, calledBack>>

\* The end of debugger_event().
PublishDebuggerEvent ==
    /\ Doing("debugger")
    /\ agenda' = Deliveries("Debugger", session) \o Tail(agenda)
    /\ UNCHANGED <<session, handlers, view, calls, calledBack>>

Next == Subscribe \/ Call \/ Deliver \/ RecordStop \/ PublishDebuggerEvent

Spec == Init /\ [][Next]_vars

-----------------------------------------------------------------------------
(* The session as the call under way will have left it: with the stop that is *)
(* still to be recorded.                                                      *)

Pending(tasks) ==
    {tasks[k].reason : k \in {j \in DOMAIN tasks : tasks[j].op = "record"}}

SettledAs(s, tasks) ==
    IF Pending(tasks) = {} THEN s
    ELSE [s EXCEPT !.lastStop = CHOOSE reason \in Pending(tasks) : TRUE]

Contract == INSTANCE SessionContract WITH session <- SettledAs(session, agenda)

-----------------------------------------------------------------------------
(* Properties. *)

\* Each call is one step of the contract, although stopped() publishes its
\* transition before it records the stop, and the handlers are told of both
\* while the call is under way: as long as none of them calls back, a caller
\* finds the session either as it was or as the call leaves it.
CallsAreAtomic ==
    [][~calledBack' =>
          \/ Contract!Next
          \/ UNCHANGED SettledAs(session, agenda)]_vars

\* The mirrors agree: when no call is under way, every handler that has been
\* told of anything was last told of the state the session is in.  This is
\* what a front end that only listens relies on; it holds as long as only the
\* handler that subscribed last calls back, for the others would be told of
\* the inner event before the outer one.
MirrorsAgree ==
    agenda = <<>> =>
        \A i \in 1 .. handlers : view[i] \in {Unknown, session.state}

\* A session that has stopped or failed stays so, whatever is called on it
\* and by whomever, events that arrive late included.
TerminalIsFinal ==
    [][session.state \in Terminal => session'.state = session.state]_vars

\* A stop is published while it lasts: when a handler is told of a stop, the
\* session is paused and its last_stop() is that stop, whatever happened in
\* earlier calls.  (Unless a handler has called back in this one: one that
\* resumes the session on the pause is told of the stop afterwards.)
StopsAreCurrent ==
    ~calledBack /\ Doing("deliver") /\ Head(agenda).event.kind = "Stopped" =>
        /\ session.state = "Paused"
        /\ session.lastStop = Head(agenda).event.stop

=============================================================================
