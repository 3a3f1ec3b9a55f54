------------------------- MODULE DebugSessionProofs -------------------------
(***************************************************************************)
(* What TLAPS proves of DebugSession, for any number of handlers and       *)
(* calls, whichever handlers call the session back.                        *)
(***************************************************************************)
EXTENDS DebugSession, TLAPS

\* The session has the two fields of its class, and state_ is one of the enum.
SessionRecord ==
    /\ session = [state |-> session.state, lastStop |-> session.lastStop]
    /\ session.state \in States

\* What any call does at once is a record again, and cannot leave a terminal
\* state: can_transition lists nothing for those.
LEMMA CallEffect ==
    ASSUME SessionRecord, NEW call \in Calls
    PROVE  LET s == Effect(call).now
           IN  /\ s = [state |-> s.state, lastStop |-> s.lastStop]
               /\ s.state \in States
               /\ session.state \in Terminal => s.state = session.state
<1> DEFINE Fine(s) ==
        /\ s = [state |-> s.state, lastStop |-> s.lastStop]
        /\ s.state \in States
        /\ session.state \in Terminal => s.state = session.state
<1>1. Fine(session)
  BY DEF SessionRecord
<1>2. ASSUME NEW next \in States
      PROVE  Fine(TransitionCall(next).now)
  <2>1. CASE CanTransition(session.state, next)
    <3>1. session.state \in Terminal => next = session.state
      BY <2>1 DEF CanTransition, Successors, Terminal
    <3>2. TransitionCall(next).now
            = [state |-> next, lastStop |-> StopAfter(next, session.lastStop)]
      BY <2>1 DEF TransitionCall, Transition
    <3> QED
      BY <3>1, <3>2
  <2>2. CASE ~CanTransition(session.state, next)
    BY <1>1, <2>2 DEF TransitionCall, Refused
  <2> QED
    BY <2>1, <2>2
<1>3. ASSUME NEW reason \in Reasons
      PROVE  Fine(StoppedCall(reason).now)
  <2>1. CASE session.state = "Paused"
    <3>1. StoppedCall(reason).now = [session EXCEPT !.lastStop = reason]
      BY <2>1 DEF StoppedCall
    <3>2. StoppedCall(reason).now = [state |-> session.state, lastStop |-> reason]
      BY <3>1 DEF SessionRecord
    <3> QED
      BY <3>2 DEF SessionRecord
  <2>2. CASE session.state # "Paused" /\ CanTransition(session.state, "Paused")
    <3>1. StoppedCall(reason).now = TransitionCall("Paused").now
      BY <2>2 DEF StoppedCall, TransitionCall
    <3> QED
      BY <3>1, <1>2 DEF States
  <2>3. CASE session.state # "Paused" /\ ~CanTransition(session.state, "Paused")
    BY <1>1, <2>3 DEF StoppedCall, Refused
  <2> QED
    BY <2>1, <2>2, <2>3
<1>4. ASSUME NEW type \in DebuggerEventTypes
      PROVE  Fine(DebuggerEventCall(type).now)
  <2> DEFINE first ==
          CASE type \in DOMAIN ReasonOf -> StoppedCall(ReasonOf[type])
            [] type = "ProcessStopped" /\ session.state \notin Terminal ->
                  TransitionCall("Stopped")
            [] OTHER -> Refused
  <2>1. DebuggerEventCall(type).now = first.now
    BY DEF DebuggerEventCall
  <2>2. CASE type \in DOMAIN ReasonOf
    <3>1. ReasonOf[type] \in Reasons
      BY <2>2 DEF ReasonOf, Reasons
    <3>2. first = StoppedCall(ReasonOf[type])
      BY <2>2 DEF ReasonOf
    <3> HIDE DEF first
    <3> QED
      BY <1>3, <2>1, <3>1, <3>2
  <2>3. CASE type = "ProcessStopped" /\ session.state \notin Terminal
    <3>1. first = TransitionCall("Stopped")
      BY <2>3 DEF ReasonOf
    <3> HIDE DEF first
    <3> QED
      BY <1>2, <2>1, <3>1 DEF States
  <2>4. CASE /\ type \notin DOMAIN ReasonOf
             /\ ~(type = "ProcessStopped" /\ session.state \notin Terminal)
    <3>1. first = Refused
      BY <2>4
    <3> HIDE DEF first
    <3> QED
      BY <1>1, <2>1, <3>1 DEF Refused
  <2> QED
    BY <2>2, <2>3, <2>4
<1>5. \/ call.op = "transition" /\ call.arg \in States
      \/ call.op = "stopped" /\ call.arg \in Reasons
      \/ call.op = "output"
      \/ call.op = "debugger_event" /\ call.arg \in DebuggerEventTypes
  BY DEF Calls
<1>6. Fine(Effect(call).now)
  <2>1. CASE call.op = "transition" /\ call.arg \in States
    <3>1. Effect(call) = TransitionCall(call.arg)
      BY <2>1 DEF Effect
    <3> HIDE DEF Fine
    <3> QED
      BY <1>2, <2>1, <3>1
  <2>2. CASE call.op = "stopped" /\ call.arg \in Reasons
    <3>1. Effect(call) = StoppedCall(call.arg)
      BY <2>2 DEF Effect
    <3> HIDE DEF Fine
    <3> QED
      BY <1>3, <2>2, <3>1
  <2>3. CASE call.op = "debugger_event" /\ call.arg \in DebuggerEventTypes
    <3>1. Effect(call) = DebuggerEventCall(call.arg)
      BY <2>3 DEF Effect
    <3> HIDE DEF Fine
    <3> QED
      BY <1>4, <2>3, <3>1
  <2>4. CASE call.op = "output"
    <3>1. Effect(call).now = session
      BY <2>4 DEF Effect, OutputCall
    <3> HIDE DEF Fine
    <3> QED
      BY <1>1, <3>1
  <2> QED
    BY <1>5, <2>1, <2>2, <2>3, <2>4
<1> QED
  BY <1>6

\* A step keeps the session a record and a terminal state final.
LEMMA SessionStep ==
    ASSUME SessionRecord, [Next]_vars
    PROVE  /\ SessionRecord'
           /\ session.state \in Terminal => session'.state = session.state
<1>1. ASSUME NEW rest, Run(rest)
      PROVE  /\ SessionRecord'
             /\ session.state \in Terminal => session'.state = session.state
  <2>1. PICK call \in Calls : session' = Effect(call).now
    BY <1>1 DEF Run
  <2> QED
    BY <2>1, CallEffect DEF SessionRecord
<1>2. CASE UNCHANGED session
  BY <1>2 DEF SessionRecord
<1>3. CASE RecordStop
  <2>1. session' = [session EXCEPT !.lastStop = Head(agenda).reason]
    BY <1>3 DEF RecordStop
  <2>2. session' = [state |-> session.state, lastStop |-> Head(agenda).reason]
    BY <2>1 DEF SessionRecord
  <2> QED
    BY <2>2 DEF SessionRecord
<1>4. CASE Call
  BY <1>1, <1>4 DEF Call
<1>5. CASE Deliver
  BY <1>1, <1>2, <1>5 DEF Deliver
<1> QED
  BY <1>2, <1>3, <1>4, <1>5
  DEF Next, Subscribe, PublishDebuggerEvent, vars

\* A session that has stopped or failed stays so, whatever is called on it, by
\* whichever handlers and in whatever nesting: late events of the debug
\* manager cannot revive it.
THEOREM TerminalStateIsFinal == Spec => TerminalIsFinal
<1>1. Init => SessionRecord
  BY DEF Init, NewSession, SessionRecord, States
<1>2. SessionRecord /\ [Next]_vars =>
        SessionRecord' /\ (session.state \in Terminal => session'.state = session.state)
  BY SessionStep
<1> QED
  BY <1>1, <1>2, PTL DEF Spec, TerminalIsFinal

-----------------------------------------------------------------------------
(* The agenda. *)

Items ==
    [op : {"deliver"}, event : Events, to : Nat] \cup
    [op : {"record"}, reason : Reasons] \cup
    [op : {"debugger"}]

\* The agenda begins with n deliveries, to the last n handlers in order, of
\* events that agree with the session s; no other delivery is under way.
Shape(ag, n, s) ==
    /\ ag \in Seq(Items)
    /\ n \in 0 .. handlers
    /\ n <= Len(ag)
    /\ \A k \in 1 .. n :
          /\ ag[k].op = "deliver"
          /\ ag[k].to = handlers - n + k
          /\ ag[k].event.state = s.state
    /\ \A k \in n + 1 .. Len(ag) : ag[k].op # "deliver"

\* Deliveries are to all the handlers.
LEMMA DeliveriesShape ==
    ASSUME NEW kind \in Kinds, NEW s \in Sessions, handlers \in Nat
    PROVE  Shape(Deliveries(kind, s), handlers, s)
<1> DEFINE event == [kind |-> kind, state |-> s.state,
                     stop |-> IF kind = "Stopped" THEN s.lastStop ELSE NoStop]
           D == [i \in 1 .. handlers |->
                   [op |-> "deliver", event |-> event, to |-> i]]
<1>1. event \in Events /\ event.state = s.state
  BY DEF Events, Sessions
<1>2. Deliveries(kind, s) = D
  BY DEF Deliveries
<1> HIDE DEF event
<1>3. \A i \in 1 .. handlers : [op |-> "deliver", event |-> event, to |-> i] \in Items
  BY <1>1 DEF Items
<1>4. D \in Seq(Items) /\ Len(D) = handlers
  BY <1>3
<1>5. \A k \in 1 .. handlers :
        D[k].op = "deliver" /\ D[k].to = k /\ D[k].event = event
  OBVIOUS
<1> HIDE DEF D
<1> QED
  BY <1>1, <1>2, <1>4, <1>5 DEF Shape

\* What is done first and what is done after it.
LEMMA ConcatFacts ==
    ASSUME NEW ag \in Seq(Items), NEW rest \in Seq(Items)
    PROVE  /\ ag \o rest \in Seq(Items)
           /\ Len(ag \o rest) = Len(ag) + Len(rest)
           /\ Len(ag) \in Nat /\ Len(rest) \in Nat
           /\ \A k \in 1 .. Len(ag) : (ag \o rest)[k] = ag[k]
           /\ \A k \in Len(ag) + 1 .. Len(ag) + Len(rest) :
                 (ag \o rest)[k] = rest[k - Len(ag)]
  OBVIOUS

\* What follows the deliveries may be anything else.
LEMMA ConcatShape ==
    ASSUME NEW ag, NEW rest \in Seq(Items), NEW n, NEW s, handlers \in Nat,
           Shape(ag, n, s), \A k \in 1 .. Len(rest) : rest[k].op # "deliver"
    PROVE  Shape(ag \o rest, n, s)
<1>1. /\ ag \o rest \in Seq(Items)
      /\ Len(ag \o rest) = Len(ag) + Len(rest)
      /\ \A k \in 1 .. Len(ag) : (ag \o rest)[k] = ag[k]
      /\ \A k \in Len(ag) + 1 .. Len(ag) + Len(rest) :
            (ag \o rest)[k] = rest[k - Len(ag)]
  BY ConcatFacts DEF Shape
<1>2. ASSUME NEW k \in n + 1 .. Len(ag) + Len(rest)
      PROVE  (ag \o rest)[k].op # "deliver"
  <2>1. CASE k \in n + 1 .. Len(ag)
    BY <1>1, <2>1 DEF Shape
  <2>2. CASE k \in Len(ag) + 1 .. Len(ag) + Len(rest)
    <3>1. k - Len(ag) \in 1 .. Len(rest)
      BY <2>2 DEF Shape
    <3> QED
      BY <1>1, <2>2, <3>1
  <2> QED
    BY <2>1, <2>2 DEF Shape
<1>3. n <= Len(ag \o rest) /\ \A k \in 1 .. n : k \in 1 .. Len(ag)
  BY <1>1 DEF Shape
<1>4. \A k \in 1 .. n : (ag \o rest)[k] = ag[k]
  BY <1>1, <1>3
<1> QED
  BY <1>1, <1>2, <1>3, <1>4 DEF Shape

LEMMA AppendShape ==
    ASSUME NEW ag, NEW item \in Items, NEW n, NEW s, handlers \in Nat,
           Shape(ag, n, s), item.op # "deliver"
    PROVE  Shape(Append(ag, item), n, s)
<1>1. /\ Append(ag, item) \in Seq(Items)
      /\ Len(Append(ag, item)) = Len(ag) + 1
      /\ \A k \in 1 .. Len(ag) : Append(ag, item)[k] = ag[k]
      /\ Append(ag, item)[Len(ag) + 1] = item
  BY DEF Shape
<1>2. ASSUME NEW k \in n + 1 .. Len(ag) + 1
      PROVE  Append(ag, item)[k].op # "deliver"
  <2>1. CASE k \in n + 1 .. Len(ag)
    BY <1>1, <2>1 DEF Shape
  <2>2. CASE k = Len(ag) + 1
    BY <1>1, <2>2
  <2> QED
    BY <2>1, <2>2 DEF Shape
<1>3. n <= Len(ag) + 1 /\ \A k \in 1 .. n : Append(ag, item)[k] = ag[k]
  BY <1>1 DEF Shape
<1> QED
  BY <1>1, <1>2, <1>3 DEF Shape

\* The stops to be told of are the session's, and one that is to be recorded is
\* the only one.
TellsStop(item) == item.op = "deliver" /\ item.event.kind = "Stopped"

StopsFit(ag, s) ==
    /\ \A k \in 1 .. Len(ag) :
          TellsStop(ag[k]) => s.state = "Paused" /\ s.lastStop = ag[k].event.stop
    /\ \A k \in 1 .. Len(ag) : ag[k].op = "record" =>
          /\ s.state = "Paused"
          /\ \A j \in 1 .. Len(ag) :
                j # k => ~TellsStop(ag[j]) /\ ag[j].op # "record"

\* What a call leaves to do fits the session that it leaves, and a call that
\* tells nobody leaves the state as it is.
Fits(e) ==
    /\ e.now \in Sessions
    /\ StopsFit(e.later, e.now)
    /\ \/ Shape(e.later, handlers, e.now)
       \/ Shape(e.later, 0, e.now) /\ e.now.state = session.state

LEMMA DeliveriesFit ==
    ASSUME NEW kind \in Kinds, NEW s \in Sessions, handlers \in Nat,
           kind = "Stopped" => s.state = "Paused"
    PROVE  /\ Len(Deliveries(kind, s)) = handlers
           /\ \A k \in 1 .. handlers :
                 /\ Deliveries(kind, s)[k].op = "deliver"
                 /\ TellsStop(Deliveries(kind, s)[k]) => kind = "Stopped"
           /\ StopsFit(Deliveries(kind, s), s)
<1>1. Len(Deliveries(kind, s)) = handlers
  BY DEF Deliveries
<1>2. \A k \in 1 .. handlers :
        /\ Deliveries(kind, s)[k].op = "deliver"
        /\ Deliveries(kind, s)[k].event.kind = kind
        /\ kind = "Stopped" => Deliveries(kind, s)[k].event.stop = s.lastStop
  BY DEF Deliveries
<1> QED
  BY <1>1, <1>2 DEF StopsFit, TellsStop

LEMMA QuietFits ==
    ASSUME session \in Sessions, handlers \in Nat
    PROVE  Fits(Refused)
<1>1. Refused.now = session /\ Refused.later = << >>
  BY DEF Refused
<1>2. Shape(<< >>, 0, session) /\ StopsFit(<< >>, session)
  BY DEF Shape, StopsFit
<1> QED
  BY <1>1, <1>2 DEF Fits

LEMMA TransitionFits ==
    ASSUME session \in Sessions, handlers \in Nat, NEW next \in States
    PROVE  /\ Fits(TransitionCall(next))
           /\ CanTransition(session.state, next) =>
                 /\ TransitionCall(next).now.state = next
                 /\ TransitionCall(next).later \in Seq(Items)
                 /\ \A k \in 1 .. Len(TransitionCall(next).later) :
                       /\ TransitionCall(next).later[k].op = "deliver"
                       /\ ~TellsStop(TransitionCall(next).later[k])
<1>1. CASE ~CanTransition(session.state, next)
  BY <1>1, QuietFits DEF TransitionCall
<1>2. CASE CanTransition(session.state, next)
  <2> DEFINE s == Transition(session, next)
  <2>1. s \in Sessions /\ s.state = next
    BY <1>2 DEF Transition, StopAfter, Sessions
  <2> HIDE DEF s
  <2>2. /\ TransitionCall(next).now = s
        /\ TransitionCall(next).later = Deliveries("StateChanged", s)
    BY <1>2 DEF TransitionCall, s
  <2>3. "StateChanged" \in Kinds /\ "StateChanged" # "Stopped"
    BY DEF Kinds
  <2>4. Shape(Deliveries("StateChanged", s), handlers, s)
    BY <2>1, <2>3, DeliveriesShape
  <2>5. /\ StopsFit(Deliveries("StateChanged", s), s)
        /\ Len(Deliveries("StateChanged", s)) = handlers
        /\ \A k \in 1 .. handlers :
              /\ Deliveries("StateChanged", s)[k].op = "deliver"
              /\ ~TellsStop(Deliveries("StateChanged", s)[k])
    BY <2>1, <2>3, DeliveriesFit
  <2> QED
    BY <2>1, <2>2, <2>4, <2>5 DEF Fits, Shape
<1> QED
  BY <1>1, <1>2

LEMMA StoppedFits ==
    ASSUME session \in Sessions, handlers \in Nat, NEW reason \in Reasons
    PROVE  Fits(StoppedCall(reason))
<1>1. CASE session.state = "Paused"
  <2> DEFINE s == [session EXCEPT !.lastStop = reason]
  <2>1. s \in Sessions /\ s.state = "Paused"
    BY <1>1 DEF Sessions
  <2> HIDE DEF s
  <2>2. /\ StoppedCall(reason).now = s
        /\ StoppedCall(reason).later = Deliveries("Stopped", s)
    BY <1>1 DEF StoppedCall, s
  <2>3. "Stopped" \in Kinds
    BY DEF Kinds
  <2> QED
    BY <2>1, <2>2, <2>3, DeliveriesShape, DeliveriesFit DEF Fits
<1>2. CASE session.state # "Paused" /\ CanTransition(session.state, "Paused")
  <2> DEFINE pause == TransitionCall("Paused")
             item == [op |-> "record", reason |-> reason]
  <2>1. /\ Fits(pause) /\ pause.now.state = "Paused" /\ pause.later \in Seq(Items)
        /\ \A k \in 1 .. Len(pause.later) :
              pause.later[k].op = "deliver" /\ ~TellsStop(pause.later[k])
    BY <1>2, TransitionFits DEF States
  <2>2. Shape(pause.later, handlers, pause.now)
    BY <1>2, <2>1 DEF Fits
  <2>3. item \in Items /\ item.op = "record"
    BY DEF Items
  <2>4. /\ StoppedCall(reason).now = pause.now
        /\ StoppedCall(reason).later = Append(pause.later, item)
    BY <1>2 DEF StoppedCall, TransitionCall
  <2> HIDE DEF pause, item
  <2>5. Shape(Append(pause.later, item), handlers, pause.now)
    BY <2>2, <2>3, AppendShape
  <2>6. StopsFit(Append(pause.later, item), pause.now)
    <3>1. /\ Len(Append(pause.later, item)) = Len(pause.later) + 1
          /\ \A k \in 1 .. Len(pause.later) :
                Append(pause.later, item)[k] = pause.later[k]
          /\ Append(pause.later, item)[Len(pause.later) + 1] = item
      BY <2>1
    <3>2. ~TellsStop(item)
      BY <2>3 DEF TellsStop
    <3>3. \A k \in 1 .. Len(pause.later) + 1 :
            /\ ~TellsStop(Append(pause.later, item)[k])
            /\ k # Len(pause.later) + 1 => Append(pause.later, item)[k].op = "deliver"
      BY <2>1, <3>1, <3>2
    <3> QED
      BY <2>1, <3>1, <3>3 DEF StopsFit
  <2> QED
    BY <2>1, <2>4, <2>5, <2>6 DEF Fits
<1>3. CASE session.state # "Paused" /\ ~CanTransition(session.state, "Paused")
  BY <1>3, QuietFits DEF StoppedCall
<1> QED
  BY <1>1, <1>2, <1>3

\* One more thing to do that is neither a delivery nor a stop to be recorded.
LEMMA PublishLastFits ==
    ASSUME NEW e, e = [now |-> e.now, later |-> e.later], Fits(e),
           handlers \in Nat
    PROVE  Fits([e EXCEPT !.later = Append(@, [op |-> "debugger"])])
<1> DEFINE item == [op |-> "debugger"]
           f == [e EXCEPT !.later = Append(@, item)]
<1>1. item \in Items /\ item.op # "deliver" /\ item.op # "record"
        /\ ~TellsStop(item)
  BY DEF Items, TellsStop
<1> HIDE DEF item
<1>2. ASSUME NEW n \in {0, handlers}, Shape(e.later, n, e.now)
      PROVE  Shape(Append(e.later, item), n, e.now)
  BY <1>1, <1>2, AppendShape
<1>3. e.later \in Seq(Items)
  BY DEF Fits, Shape
<1>4. StopsFit(Append(e.later, item), e.now)
  <2>1. /\ Len(Append(e.later, item)) = Len(e.later) + 1
        /\ Len(e.later) \in Nat
        /\ \A k \in 1 .. Len(e.later) : Append(e.later, item)[k] = e.later[k]
        /\ Append(e.later, item)[Len(e.later) + 1] = item
    BY <1>3
  <2>2. ASSUME NEW k \in 1 .. Len(e.later) + 1
        PROVE  k \in 1 .. Len(e.later) \/ Append(e.later, item)[k] = item
    BY <2>1
  <2> QED
    BY <1>1, <2>1, <2>2 DEF Fits, StopsFit
<1>5. f.now = e.now /\ f.later = Append(e.later, item)
  <2>1. f = [now |-> e.now, later |-> Append(e.later, item)]
    OBVIOUS
  <2> QED
    BY <2>1
<1> HIDE DEF f
<1>6. Fits(f)
  BY <1>2, <1>4, <1>5 DEF Fits
<1> QED
  BY <1>6 DEF f, item

LEMMA EffectFits ==
    ASSUME session \in Sessions, handlers \in Nat, NEW call \in Calls
    PROVE  Fits(Effect(call))
<1> DEFINE Pair(e) == e = [now |-> e.now, later |-> e.later]
<1>1. Fits(Refused) /\ Pair(Refused)
  BY QuietFits DEF Refused
<1>2. ASSUME NEW next \in States
      PROVE  Fits(TransitionCall(next)) /\ Pair(TransitionCall(next))
  <2>1. Pair(TransitionCall(next))
    BY DEF TransitionCall, Refused
  <2> QED
    BY <2>1, TransitionFits
<1>3. ASSUME NEW reason \in Reasons
      PROVE  Fits(StoppedCall(reason)) /\ Pair(StoppedCall(reason))
  <2>1. Pair(StoppedCall(reason))
    BY DEF StoppedCall, TransitionCall, Refused
  <2> QED
    BY <2>1, StoppedFits
<1>4. ASSUME NEW type \in DebuggerEventTypes
      PROVE  Fits(DebuggerEventCall(type))
  <2> DEFINE first ==
          CASE type \in DOMAIN ReasonOf -> StoppedCall(ReasonOf[type])
            [] type = "ProcessStopped" /\ session.state \notin Terminal ->
                  TransitionCall("Stopped")
            [] OTHER -> Refused
  <2>1. DebuggerEventCall(type)
          = [first EXCEPT !.later = Append(@, [op |-> "debugger"])]
    BY DEF DebuggerEventCall
  <2>2. Fits(first) /\ Pair(first)
    <3>1. CASE type \in DOMAIN ReasonOf
      <4>1. ReasonOf[type] \in Reasons
        BY <3>1 DEF ReasonOf, Reasons
      <4>2. first = StoppedCall(ReasonOf[type])
        BY <3>1 DEF ReasonOf
      <4> HIDE DEF first
      <4> QED
        BY <1>3, <4>1, <4>2
    <3>2. CASE type = "ProcessStopped" /\ session.state \notin Terminal
      <4>1. first = TransitionCall("Stopped")
        BY <3>2 DEF ReasonOf
      <4> HIDE DEF first
      <4> QED
        BY <1>2, <4>1 DEF States
    <3>3. CASE /\ type \notin DOMAIN ReasonOf
               /\ ~(type = "ProcessStopped" /\ session.state \notin Terminal)
      <4>1. first = Refused
        BY <3>3
      <4> HIDE DEF first
      <4> QED
        BY <1>1, <4>1
    <3> QED
      BY <3>1, <3>2, <3>3
  <2> HIDE DEF first
  <2> QED
    BY <2>1, <2>2, PublishLastFits
<1>5. Fits(OutputCall)
  <2>1. "Output" \in Kinds /\ "Output" # "Stopped"
    BY DEF Kinds
  <2>2. OutputCall.now = session /\ OutputCall.later = Deliveries("Output", session)
    BY DEF OutputCall
  <2> QED
    BY <2>1, <2>2, DeliveriesShape, DeliveriesFit DEF Fits
<1>6. CASE call.op = "transition"
  <2>1. call.arg \in States /\ Effect(call) = TransitionCall(call.arg)
    BY <1>6 DEF Calls, Effect
  <2> QED
    BY <1>2, <2>1
<1>7. CASE call.op = "stopped"
  <2>1. call.arg \in Reasons /\ Effect(call) = StoppedCall(call.arg)
    BY <1>7 DEF Calls, Effect
  <2> QED
    BY <1>3, <2>1
<1>8. CASE call.op = "output"
  <2>1. Effect(call) = OutputCall
    BY <1>8 DEF Effect
  <2> QED
    BY <1>5, <2>1
<1>9. CASE call.op = "debugger_event"
  <2>1. call.arg \in DebuggerEventTypes /\ Effect(call) = DebuggerEventCall(call.arg)
    BY <1>9 DEF Calls, Effect
  <2> QED
    BY <1>4, <2>1
<1> QED
  BY <1>6, <1>7, <1>8, <1>9 DEF Calls

-----------------------------------------------------------------------------
(* Type correctness. *)

Typed ==
    /\ session \in Sessions
    /\ handlers \in 0 .. MaxHandlers
    /\ view \in [1 .. MaxHandlers -> States \cup {Unknown}]
    /\ calls \in 0 .. MaxCalls
    /\ calledBack \in BOOLEAN
    /\ agenda \in Seq(Items)
    /\ \A k \in 1 .. Len(agenda) :
          agenda[k].op = "deliver" => agenda[k].to \in 1 .. handlers

\* A new agenda is typed if its two parts are.
LEMMA ConcatTyped ==
    ASSUME NEW ag \in Seq(Items), NEW rest \in Seq(Items),
           \A k \in 1 .. Len(ag) : ag[k].op = "deliver" => ag[k].to \in 1 .. handlers,
           \A k \in 1 .. Len(rest) :
              rest[k].op = "deliver" => rest[k].to \in 1 .. handlers
    PROVE  /\ ag \o rest \in Seq(Items)
           /\ \A k \in 1 .. Len(ag \o rest) :
                 (ag \o rest)[k].op = "deliver" => (ag \o rest)[k].to \in 1 .. handlers
<1>1. /\ ag \o rest \in Seq(Items)
      /\ Len(ag \o rest) = Len(ag) + Len(rest)
      /\ Len(ag) \in Nat /\ Len(rest) \in Nat
      /\ \A k \in 1 .. Len(ag) : (ag \o rest)[k] = ag[k]
      /\ \A k \in Len(ag) + 1 .. Len(ag) + Len(rest) :
            (ag \o rest)[k] = rest[k - Len(ag)]
  BY ConcatFacts
<1>2. ASSUME NEW k \in 1 .. Len(ag) + Len(rest), (ag \o rest)[k].op = "deliver"
      PROVE  (ag \o rest)[k].to \in 1 .. handlers
  <2>1. CASE k \in 1 .. Len(ag)
    BY <1>1, <1>2, <2>1
  <2>2. CASE k \in Len(ag) + 1 .. Len(ag) + Len(rest)
    <3>1. k - Len(ag) \in 1 .. Len(rest)
      BY <1>1, <2>2
    <3> QED
      BY <1>1, <1>2, <2>2, <3>1
  <2> QED
    BY <1>1, <2>1, <2>2
<1> QED
  BY <1>1, <1>2

\* Deliveries, and what a call leaves to do, are to handlers there are.
LEMMA ShapeTyped ==
    ASSUME NEW ag, NEW s, handlers \in Nat, NEW n \in {0, handlers}, Shape(ag, n, s)
    PROVE  /\ ag \in Seq(Items)
           /\ \A k \in 1 .. Len(ag) : ag[k].op = "deliver" => ag[k].to \in 1 .. handlers
<1>1. ASSUME NEW k \in 1 .. Len(ag), ag[k].op = "deliver"
      PROVE  ag[k].to \in 1 .. handlers
  <2>1. k \in 1 .. n
    BY <1>1 DEF Shape
  <2> QED
    BY <2>1 DEF Shape
<1> QED
  BY <1>1 DEF Shape

\* The head of the agenda has come to its turn, and the tail is left.
LEMMA TailTyped ==
    ASSUME Typed, agenda # << >>
    PROVE  /\ Head(agenda) \in Items /\ Head(agenda) = agenda[1]
           /\ Tail(agenda) \in Seq(Items)
           /\ Len(Tail(agenda)) = Len(agenda) - 1 /\ Len(agenda) \in Nat
           /\ Len(agenda) >= 1
           /\ \A k \in 1 .. Len(agenda) - 1 : Tail(agenda)[k] = agenda[k + 1]
           /\ \A k \in 1 .. Len(Tail(agenda)) :
                 Tail(agenda)[k].op = "deliver" => Tail(agenda)[k].to \in 1 .. handlers
<1>1. /\ Head(agenda) = agenda[1]
      /\ Tail(agenda) \in Seq(Items)
      /\ Len(Tail(agenda)) = Len(agenda) - 1 /\ Len(agenda) \in Nat
      /\ Len(agenda) >= 1
      /\ \A k \in 1 .. Len(agenda) - 1 : Tail(agenda)[k] = agenda[k + 1]
  BY DEF Typed
<1>2. agenda[1] \in Items
  BY <1>1 DEF Typed
<1> QED
  BY <1>1, <1>2 DEF Typed

\* A call that begins with rest left to do after it.
LEMMA RunTyped ==
    ASSUME Typed, NEW rest \in Seq(Items), Run(rest),
           \A k \in 1 .. Len(rest) :
              rest[k].op = "deliver" => rest[k].to \in 1 .. handlers
    PROVE  /\ session' \in Sessions
           /\ calls' \in 0 .. MaxCalls
           /\ agenda' \in Seq(Items)
           /\ \A k \in 1 .. Len(agenda') :
                 agenda'[k].op = "deliver" => agenda'[k].to \in 1 .. handlers
<1>1. session \in Sessions /\ handlers \in Nat
  BY SessionAssumption DEF Typed
<1>2. PICK call \in Calls : /\ session' = Effect(call).now
                            /\ agenda' = Effect(call).later \o rest
  BY DEF Run
<1>3. Fits(Effect(call))
  BY <1>1, EffectFits
<1>4. \E n \in {0, handlers} : Shape(Effect(call).later, n, Effect(call).now)
  BY <1>3 DEF Fits
<1>5. /\ Effect(call).later \in Seq(Items)
      /\ \A k \in 1 .. Len(Effect(call).later) :
            Effect(call).later[k].op = "deliver" =>
                Effect(call).later[k].to \in 1 .. handlers
  BY <1>1, <1>4, ShapeTyped
<1>6. calls' \in 0 .. MaxCalls
  BY SessionAssumption DEF Typed, Run
<1>7. session' \in Sessions
  BY <1>2, <1>3 DEF Fits
<1> HIDE DEF Run
<1> QED
  BY <1>2, <1>5, <1>6, <1>7, ConcatTyped

\* The deliveries of an event of the session as it is now or after the step.
LEMMA DeliveriesTyped ==
    ASSUME NEW kind \in Kinds, NEW s \in Sessions, handlers \in Nat
    PROVE  /\ Deliveries(kind, s) \in Seq(Items)
           /\ \A k \in 1 .. Len(Deliveries(kind, s)) :
                 Deliveries(kind, s)[k].op = "deliver" =>
                     Deliveries(kind, s)[k].to \in 1 .. handlers
  BY DeliveriesShape, ShapeTyped

\* The session after its stop has been recorded.
LEMMA RecordedSession ==
    ASSUME Typed, Doing("record")
    PROVE  LET s == [session EXCEPT !.lastStop = Head(agenda).reason]
           IN  s \in Sessions /\ s.state = session.state
                 /\ s.lastStop = Head(agenda).reason
<1>1. Head(agenda) \in Items /\ Head(agenda).op = "record"
  BY TailTyped DEF Doing
<1>2. Head(agenda).reason \in Reasons
  BY <1>1 DEF Items
<1>3. session \in Sessions
  BY DEF Typed
<1> QED
  BY <1>2, <1>3 DEF Sessions

LEMMA TypedStep == Typed /\ [Next]_vars => Typed'
<1> SUFFICES ASSUME Typed, [Next]_vars PROVE Typed'
  OBVIOUS
<1>1. handlers \in Nat /\ session \in Sessions /\ MaxHandlers \in Nat
  BY SessionAssumption DEF Typed
<1>2. CASE Subscribe
  <2>1. handlers' \in 0 .. MaxHandlers
    BY <1>1, <1>2 DEF Typed, Subscribe
  <2>2. agenda' = << >> /\ << >> \in Seq(Items)
    BY <1>2 DEF Subscribe
  <2> QED
    BY <1>2, <2>1, <2>2 DEF Typed, Subscribe
<1>3. CASE Call
  <2>1. Run(<< >>) /\ << >> \in Seq(Items) /\ UNCHANGED <<handlers, view>>
          /\ calledBack' = FALSE
    BY <1>3 DEF Call
  <2>2. \A k \in 1 .. Len(<< >>) :
            << >>[k].op = "deliver" => << >>[k].to \in 1 .. handlers
    OBVIOUS
  <2>3. /\ session' \in Sessions
        /\ calls' \in 0 .. MaxCalls
        /\ agenda' \in Seq(Items)
        /\ \A k \in 1 .. Len(agenda') :
              agenda'[k].op = "deliver" => agenda'[k].to \in 1 .. handlers
    BY <2>1, <2>2, RunTyped
  <2> QED
    BY <2>1, <2>3 DEF Typed
<1>4. CASE Deliver
  <2>1. agenda # << >> /\ Head(agenda).op = "deliver"
    BY <1>4 DEF Deliver, Doing
  <2>2. Head(agenda).event \in Events
    BY <2>1, TailTyped DEF Items
  <2>3. view' \in [1 .. MaxHandlers -> States \cup {Unknown}]
    BY <1>4, <2>2 DEF Deliver, Typed, Events
  <2>4. CASE agenda' = Tail(agenda) /\ UNCHANGED <<session, calls, calledBack>>
    <3>1. handlers' = handlers
      BY <1>4 DEF Deliver
    <3> QED
      BY <2>1, <2>3, <2>4, <3>1, TailTyped DEF Typed
  <2>5. CASE Run(Tail(agenda)) /\ calledBack' = TRUE
    <3>1. handlers' = handlers
      BY <1>4 DEF Deliver
    <3> QED
      BY <2>1, <2>3, <2>5, <3>1, TailTyped, RunTyped DEF Typed
  <2> QED
    BY <1>4, <2>4, <2>5 DEF Deliver
<1>5. CASE RecordStop
  <2>1. /\ Doing("record") /\ agenda # << >>
        /\ session' = [session EXCEPT !.lastStop = Head(agenda).reason]
        /\ agenda' = Deliveries("Stopped", session') \o Tail(agenda)
        /\ UNCHANGED <<handlers, view, calls, calledBack>>
    BY <1>5 DEF RecordStop, Doing
  <2>2. session' \in Sessions /\ "Stopped" \in Kinds
    BY <2>1, RecordedSession DEF Kinds
  <2> QED
    BY <1>1, <2>1, <2>2, DeliveriesTyped, TailTyped, ConcatTyped DEF Typed
<1>6. CASE PublishDebuggerEvent
  <2>1. /\ agenda # << >>
        /\ agenda' = Deliveries("Debugger", session) \o Tail(agenda)
        /\ UNCHANGED <<session, handlers, view, calls, calledBack>>
    BY <1>6 DEF PublishDebuggerEvent, Doing
  <2>2. "Debugger" \in Kinds
    BY DEF Kinds
  <2> QED
    BY <1>1, <2>1, <2>2, DeliveriesTyped, TailTyped, ConcatTyped DEF Typed
<1>7. CASE UNCHANGED vars
  BY <1>7 DEF vars, Typed
<1> QED
  BY <1>2, <1>3, <1>4, <1>5, <1>6, <1>7 DEF Next

LEMMA TypedInit == Init => Typed
<1> SUFFICES ASSUME Init PROVE Typed
  OBVIOUS
<1>1. session \in Sessions
  BY DEF Init, NewSession, Sessions, States
<1>2. handlers \in 0 .. MaxHandlers /\ calls \in 0 .. MaxCalls
  BY SessionAssumption DEF Init
<1>3. view \in [1 .. MaxHandlers -> States \cup {Unknown}]
  BY DEF Init
<1>4. agenda = << >> /\ << >> \in Seq(Items)
  BY DEF Init
<1>5. calledBack \in BOOLEAN
  BY DEF Init
<1> QED
  BY <1>1, <1>2, <1>3, <1>4, <1>5 DEF Typed

\* TypeOK: the variables keep their types, in particular nothing is ever
\* delivered to a handler that there is not.
THEOREM TypeCorrect == Spec => []TypeOK
<1>1. Typed => TypeOK
  <2> SUFFICES ASSUME Typed, NEW k \in DOMAIN agenda
               PROVE  \/ /\ agenda[k].op = "deliver"
                         /\ agenda[k].event \in Events
                         /\ agenda[k].to \in 1 .. handlers
                      \/ /\ agenda[k].op = "record"
                         /\ agenda[k].reason \in Reasons
                      \/ agenda[k].op = "debugger"
    BY DEF Typed, TypeOK
  <2>1. k \in 1 .. Len(agenda) /\ agenda[k] \in Items
    BY DEF Typed
  <2> QED
    BY <2>1 DEF Typed, Items
<1> QED
  BY <1>1, TypedInit, TypedStep, PTL DEF Spec

-----------------------------------------------------------------------------
(* Stops. *)

StopInv == Typed /\ (~calledBack => StopsFit(agenda, session))

LEMMA StopStep == StopInv /\ [Next]_vars => StopInv'
<1> SUFFICES ASSUME StopInv, [Next]_vars, ~calledBack'
             PROVE  StopsFit(agenda', session')
  BY TypedStep DEF StopInv
<1>1. handlers \in Nat /\ session \in Sessions /\ Typed
  BY SessionAssumption DEF StopInv, Typed
<1>2. CASE Subscribe
  <2>1. agenda' = << >>
    BY <1>2 DEF Subscribe
  <2> QED
    BY <2>1 DEF StopsFit
<1>3. CASE Call
  <2>1. PICK call \in Calls : /\ session' = Effect(call).now
                              /\ agenda' = Effect(call).later \o << >>
    BY <1>3 DEF Call, Run
  <2>2. Fits(Effect(call))
    BY <1>1, EffectFits
  <2>3. Effect(call).later \in Seq(Items)
    BY <2>2 DEF Fits, Shape
  <2>4. agenda' = Effect(call).later
    BY <2>1, <2>3
  <2> QED
    BY <2>1, <2>2, <2>4 DEF Fits
<1>4. CASE Deliver
  <2>1. agenda # << >> /\ agenda' = Tail(agenda) /\ UNCHANGED <<session, calledBack>>
    BY <1>4 DEF Deliver, Doing
  <2>2. StopsFit(agenda, session)
    BY <2>1 DEF StopInv
  <2>3. /\ Len(Tail(agenda)) = Len(agenda) - 1 /\ Len(agenda) \in Nat
        /\ \A k \in 1 .. Len(agenda) - 1 : Tail(agenda)[k] = agenda[k + 1]
    BY <1>1, <2>1, TailTyped
  <2>4. StopsFit(Tail(agenda), session)
    BY <2>2, <2>3 DEF StopsFit
  <2> QED
    BY <2>1, <2>4
<1>5. CASE RecordStop
  <2>1. /\ Doing("record") /\ agenda # << >> /\ Head(agenda).op = "record"
        /\ session' = [session EXCEPT !.lastStop = Head(agenda).reason]
        /\ agenda' = Deliveries("Stopped", session') \o Tail(agenda)
        /\ calledBack' = calledBack
    BY <1>5 DEF RecordStop, Doing
  <2>2. StopsFit(agenda, session)
    BY <2>1 DEF StopInv
  <2>3. /\ Head(agenda) = agenda[1] /\ Len(agenda) \in Nat /\ Len(agenda) >= 1
        /\ Tail(agenda) \in Seq(Items)
        /\ Len(Tail(agenda)) = Len(agenda) - 1
        /\ \A k \in 1 .. Len(agenda) - 1 : Tail(agenda)[k] = agenda[k + 1]
    BY <1>1, <2>1, TailTyped
  <2>4. 1 \in 1 .. Len(agenda) /\ agenda[1].op = "record"
    BY <2>1, <2>3
  <2>5. /\ session.state = "Paused"
        /\ \A j \in 1 .. Len(agenda) :
              j # 1 => ~TellsStop(agenda[j]) /\ agenda[j].op # "record"
    BY <2>2, <2>4 DEF StopsFit
  <2>6. \A k \in 1 .. Len(Tail(agenda)) :
          ~TellsStop(Tail(agenda)[k]) /\ Tail(agenda)[k].op # "record"
    BY <2>3, <2>5
  <2>7. session' \in Sessions /\ session'.state = "Paused" /\ "Stopped" \in Kinds
    BY <1>1, <2>1, <2>5, RecordedSession DEF Kinds
  <2> DEFINE told == Deliveries("Stopped", session')
  <2>8. /\ told \in Seq(Items)
        /\ StopsFit(told, session')
        /\ Len(told) = handlers
        /\ \A k \in 1 .. handlers : told[k].op = "deliver"
    BY <1>1, <2>7, DeliveriesFit, DeliveriesTyped
  <2> HIDE DEF told
  <2>9. StopsFit(told \o Tail(agenda), session')
    <3>1. /\ Len(told \o Tail(agenda)) = Len(told) + Len(Tail(agenda))
          /\ Len(told) \in Nat /\ Len(Tail(agenda)) \in Nat
          /\ \A k \in 1 .. Len(told) : (told \o Tail(agenda))[k] = told[k]
          /\ \A k \in Len(told) + 1 .. Len(told) + Len(Tail(agenda)) :
                (told \o Tail(agenda))[k] = Tail(agenda)[k - Len(told)]
      BY <2>3, <2>8, ConcatFacts
    <3>2. ASSUME NEW k \in 1 .. Len(told) + Len(Tail(agenda))
          PROVE  /\ TellsStop((told \o Tail(agenda))[k]) =>
                      /\ session'.state = "Paused"
                      /\ session'.lastStop = (told \o Tail(agenda))[k].event.stop
                 /\ (told \o Tail(agenda))[k].op # "record"
      <4>1. CASE k \in 1 .. Len(told)
        BY <2>8, <3>1, <4>1 DEF StopsFit
      <4>2. CASE k \in Len(told) + 1 .. Len(told) + Len(Tail(agenda))
        <5>1. k - Len(told) \in 1 .. Len(Tail(agenda))
          BY <3>1, <4>2
        <5> QED
          BY <2>6, <3>1, <4>2, <5>1
      <4> QED
        BY <3>1, <4>1, <4>2
    <3> QED
      BY <3>1, <3>2 DEF StopsFit
  <2> QED
    BY <2>1, <2>9 DEF told
<1>6. CASE PublishDebuggerEvent
  <2>1. /\ agenda # << >> /\ agenda[1].op = "debugger"
        /\ agenda' = Deliveries("Debugger", session) \o Tail(agenda)
        /\ UNCHANGED <<session, calledBack>>
    BY <1>1, <1>6, TailTyped DEF PublishDebuggerEvent, Doing
  <2>2. StopsFit(agenda, session)
    BY <2>1 DEF StopInv
  <2>3. /\ Len(agenda) \in Nat /\ Len(agenda) >= 1
        /\ Tail(agenda) \in Seq(Items)
        /\ Len(Tail(agenda)) = Len(agenda) - 1
        /\ \A k \in 1 .. Len(agenda) - 1 : Tail(agenda)[k] = agenda[k + 1]
    BY <1>1, <2>1, TailTyped
  <2>4. StopsFit(Tail(agenda), session)
    BY <2>2, <2>3 DEF StopsFit
  <2> DEFINE told == Deliveries("Debugger", session)
             rest == Tail(agenda)
  <2>5. "Debugger" \in Kinds /\ "Debugger" # "Stopped"
    BY DEF Kinds
  <2>6. /\ told \in Seq(Items)
        /\ Len(told) = handlers
        /\ \A k \in 1 .. handlers : told[k].op = "deliver" /\ ~TellsStop(told[k])
    BY <1>1, <2>5, DeliveriesFit, DeliveriesTyped
  <2>7. rest \in Seq(Items) /\ StopsFit(rest, session)
    BY <2>3, <2>4
  <2>8. told \o rest = agenda' /\ session' = session
    BY <2>1
  <2> HIDE DEF told, rest
  <2>9. StopsFit(told \o rest, session)
    <3>1. /\ Len(told \o rest) = Len(told) + Len(rest)
          /\ Len(told) \in Nat /\ Len(rest) \in Nat
          /\ \A k \in 1 .. Len(told) : (told \o rest)[k] = told[k]
          /\ \A k \in Len(told) + 1 .. Len(told) + Len(rest) :
                (told \o rest)[k] = rest[k - Len(told)]
      BY <2>6, <2>7, ConcatFacts
    <3>2. ASSUME NEW k \in 1 .. Len(told) + Len(rest),
                 \/ TellsStop((told \o rest)[k])
                 \/ (told \o rest)[k].op = "record"
          PROVE  /\ k - Len(told) \in 1 .. Len(rest)
                 /\ (told \o rest)[k] = rest[k - Len(told)]
      <4>1. k \notin 1 .. Len(told)
        BY <2>6, <3>1, <3>2
      <4>2. k \in Len(told) + 1 .. Len(told) + Len(rest)
        BY <3>1, <4>1
      <4> QED
        BY <3>1, <4>2
    <3>3. ASSUME NEW k \in 1 .. Len(told) + Len(rest),
                 TellsStop((told \o rest)[k])
          PROVE  /\ session.state = "Paused"
                 /\ session.lastStop = (told \o rest)[k].event.stop
      BY <2>7, <3>2, <3>3 DEF StopsFit
    <3>4. ASSUME NEW k \in 1 .. Len(told) + Len(rest),
                 (told \o rest)[k].op = "record",
                 NEW j \in 1 .. Len(told) + Len(rest), j # k
          PROVE  ~TellsStop((told \o rest)[j]) /\ (told \o rest)[j].op # "record"
      <4>1. SUFFICES ASSUME \/ TellsStop((told \o rest)[j])
                            \/ (told \o rest)[j].op = "record"
                     PROVE  FALSE
        OBVIOUS
      <4>2. /\ k - Len(told) \in 1 .. Len(rest) /\ j - Len(told) \in 1 .. Len(rest)
            /\ (told \o rest)[k] = rest[k - Len(told)]
            /\ (told \o rest)[j] = rest[j - Len(told)]
        BY <3>2, <3>4, <4>1
      <4>3. k - Len(told) # j - Len(told)
        BY <3>1, <3>4
      <4> QED
        BY <2>7, <3>4, <4>1, <4>2, <4>3 DEF StopsFit
    <3>5. \A k \in 1 .. Len(told) + Len(rest) :
            (told \o rest)[k].op = "record" => session.state = "Paused"
      BY <2>7, <3>2 DEF StopsFit
    <3> QED
      BY <3>1, <3>3, <3>4, <3>5 DEF StopsFit
  <2> QED
    BY <2>8, <2>9
<1>7. CASE UNCHANGED vars
  BY <1>7 DEF vars, StopInv
<1> QED
  BY <1>2, <1>3, <1>4, <1>5, <1>6, <1>7 DEF Next

LEMMA StopInvariant == Spec => []StopInv
<1>1. Init => StopInv
  <2>1. Init => agenda = << >> /\ ~calledBack
    BY DEF Init
  <2>2. Init => StopsFit(agenda, session)
    BY <2>1 DEF StopsFit
  <2> QED
    BY <2>2, TypedInit DEF StopInv
<1> QED
  BY <1>1, StopStep, PTL DEF Spec

\* StopsAreCurrent: while no handler has called the session back in the call
\* under way, a stop is published to every handler while the session is paused
\* by it, however many handlers there are.
THEOREM PublishedStopsAreCurrent == Spec => []StopsAreCurrent
<1>1. StopInv => StopsAreCurrent
  <2> SUFFICES ASSUME StopInv, ~calledBack, Doing("deliver"),
                      Head(agenda).event.kind = "Stopped"
               PROVE  /\ session.state = "Paused"
                      /\ session.lastStop = Head(agenda).event.stop
    BY DEF StopsAreCurrent
  <2>1. agenda # << >> /\ Typed /\ StopsFit(agenda, session)
    BY DEF Doing, StopInv
  <2>2. Head(agenda) = agenda[1] /\ 1 \in 1 .. Len(agenda)
    BY <2>1, TailTyped
  <2> QED
    BY <2>1, <2>2 DEF Doing, StopsFit, TellsStop
<1> QED
  BY <1>1, StopInvariant, PTL

-----------------------------------------------------------------------------
(* Mirrors. *)

\* The first handlers - n handlers know the state that the session is in; the
\* last n are about to be told of it.
Mirrored(n) ==
    /\ Shape(agenda, n, session)
    /\ \A i \in 1 .. handlers - n : view[i] \in {Unknown, session.state}
    /\ \A i \in handlers + 1 .. MaxHandlers : view[i] = Unknown

MirrorInv == Typed /\ \E n \in 0 .. handlers : Mirrored(n)

\* What is left after the head: the deliveries but the first, if there are any.
LEMMA TailShape ==
    ASSUME Typed, agenda # << >>, NEW n \in 0 .. handlers,
           Shape(agenda, n, session)
    PROVE  /\ agenda[1].op = "deliver" =>
                n >= 1 /\ Shape(Tail(agenda), n - 1, session)
           /\ agenda[1].op # "deliver" =>
                /\ n = 0
                /\ \A k \in 1 .. Len(Tail(agenda)) : Tail(agenda)[k].op # "deliver"
<1>1. /\ Tail(agenda) \in Seq(Items)
      /\ Len(Tail(agenda)) = Len(agenda) - 1 /\ Len(agenda) \in Nat
      /\ Len(agenda) >= 1
      /\ \A k \in 1 .. Len(agenda) - 1 : Tail(agenda)[k] = agenda[k + 1]
  BY TailTyped
<1>2. handlers \in Nat /\ n \in Nat
  BY SessionAssumption DEF Typed
<1>3. CASE n = 0
  <2>1. \A k \in 1 .. Len(agenda) : agenda[k].op # "deliver"
    BY <1>3 DEF Shape
  <2> QED
    BY <1>1, <1>3, <2>1
<1>4. CASE n # 0
  <2>1. agenda[1].op = "deliver"
    BY <1>2, <1>4 DEF Shape
  <2>2. \A k \in 1 .. n - 1 :
          /\ Tail(agenda)[k] = agenda[k + 1]
          /\ k + 1 \in 1 .. n
    BY <1>1, <1>2 DEF Shape
  <2>3. \A k \in 1 .. n - 1 :
          /\ Tail(agenda)[k].op = "deliver"
          /\ Tail(agenda)[k].to = handlers - (n - 1) + k
          /\ Tail(agenda)[k].event.state = session.state
    BY <1>2, <2>2 DEF Shape
  <2>4. \A k \in n .. Len(agenda) - 1 :
          Tail(agenda)[k] = agenda[k + 1] /\ k + 1 \in n + 1 .. Len(agenda)
    BY <1>1, <1>2, <1>4
  <2>5. \A k \in (n - 1) + 1 .. Len(Tail(agenda)) : Tail(agenda)[k].op # "deliver"
    <3>1. (n - 1) + 1 = n /\ Len(Tail(agenda)) = Len(agenda) - 1
      BY <1>1, <1>2
    <3>2. \A k \in n + 1 .. Len(agenda) : agenda[k].op # "deliver"
      BY DEF Shape
    <3> QED
      BY <2>4, <3>1, <3>2
  <2>6. n - 1 \in 0 .. handlers /\ n - 1 <= Len(Tail(agenda))
    BY <1>1, <1>2, <1>4 DEF Shape
  <2> QED
    BY <1>1, <1>2, <1>4, <2>1, <2>3, <2>5, <2>6 DEF Shape
<1> QED
  BY <1>3, <1>4

\* A call leaves the mirrors to be told, if no delivery was left when it began.
LEMMA RunMirrors ==
    ASSUME Typed, NEW rest \in Seq(Items), Run(rest), handlers' = handlers,
           \A k \in 1 .. Len(rest) : rest[k].op # "deliver",
           \A i \in 1 .. handlers : view'[i] \in {Unknown, session.state},
           \A i \in handlers + 1 .. MaxHandlers : view'[i] = Unknown
    PROVE  \E n \in 0 .. handlers' : Mirrored(n)'
<1>1. handlers \in Nat /\ session \in Sessions
  BY SessionAssumption DEF Typed
<1>2. PICK call \in Calls : /\ session' = Effect(call).now
                            /\ agenda' = Effect(call).later \o rest
  BY DEF Run
<1>3. Fits(Effect(call))
  BY <1>1, EffectFits
<1>4. CASE Shape(Effect(call).later, handlers, Effect(call).now)
  <2>1. Shape(agenda', handlers, session')
    BY <1>1, <1>2, <1>4, ConcatShape
  <2>2. Mirrored(handlers)'
    BY <1>1, <2>1 DEF Mirrored, Shape
  <2> QED
    BY <1>1, <2>2
<1>5. CASE /\ Shape(Effect(call).later, 0, Effect(call).now)
           /\ Effect(call).now.state = session.state
  <2>1. Shape(agenda', 0, session')
    BY <1>1, <1>2, <1>5, ConcatShape
  <2>2. Mirrored(0)'
    BY <1>1, <1>2, <1>5, <2>1 DEF Mirrored, Shape
  <2> QED
    BY <1>1, <2>2
<1> QED
  BY <1>3, <1>4, <1>5 DEF Fits

\* An event is published when no other is being delivered.
LEMMA PublishMirrors ==
    ASSUME MirrorInv, agenda # << >>, agenda[1].op # "deliver",
           NEW kind \in Kinds, session' \in Sessions,
           session'.state = session.state, UNCHANGED <<handlers, view>>,
           agenda' = Deliveries(kind, session') \o Tail(agenda)
    PROVE  \E n \in 0 .. handlers' : Mirrored(n)'
<1>1. handlers \in Nat /\ Typed
  BY SessionAssumption DEF MirrorInv, Typed
<1>2. PICK n \in 0 .. handlers : Mirrored(n)
  BY DEF MirrorInv
<1>3. \A k \in 1 .. Len(Tail(agenda)) : Tail(agenda)[k].op # "deliver"
  BY <1>1, <1>2, TailShape DEF Mirrored
<1>4. Tail(agenda) \in Seq(Items)
  BY <1>1, TailTyped
<1>5. Shape(Deliveries(kind, session'), handlers, session')
  BY <1>1, DeliveriesShape
<1>6. Shape(agenda', handlers, session')
  BY <1>1, <1>3, <1>4, <1>5, ConcatShape
<1>7. Mirrored(handlers)'
  BY <1>1, <1>2, <1>6 DEF Mirrored, Shape
<1> QED
  BY <1>1, <1>7

LEMMA MirrorStep ==
    ASSUME Reentrant \subseteq {MaxHandlers}
    PROVE  MirrorInv /\ [Next]_vars => MirrorInv'
<1> SUFFICES ASSUME MirrorInv, [Next]_vars
             PROVE  \E n \in 0 .. handlers' : Mirrored(n)'
  BY TypedStep DEF MirrorInv
<1>1. handlers \in 0 .. MaxHandlers /\ handlers \in Nat /\ MaxHandlers \in Nat
        /\ session \in Sessions /\ Typed
  BY SessionAssumption DEF MirrorInv, Typed
<1>2. PICK n \in 0 .. handlers : Mirrored(n)
  BY DEF MirrorInv
<1>3. agenda = << >> => n = 0
  BY <1>1, <1>2 DEF Mirrored, Shape
<1>4. CASE Subscribe
  <2>1. /\ agenda = << >> /\ handlers < MaxHandlers
        /\ handlers' = handlers + 1 /\ UNCHANGED <<agenda, session, view>>
    BY <1>4 DEF Subscribe
  <2>2. Shape(agenda, 0, session)'
    BY <1>1, <2>1 DEF Shape
  <2>3. \A i \in 1 .. handlers : view[i] \in {Unknown, session.state}
    BY <1>1, <1>2, <1>3, <2>1 DEF Mirrored
  <2>4. view[handlers + 1] = Unknown
    BY <1>1, <1>2, <2>1 DEF Mirrored
  <2>5. Mirrored(0)'
    BY <1>1, <1>2, <2>1, <2>2, <2>3, <2>4 DEF Mirrored
  <2> QED
    BY <1>1, <2>1, <2>5
<1>5. CASE Call
  <2>1. agenda = << >> /\ Run(<< >>) /\ UNCHANGED <<handlers, view>>
    BY <1>5 DEF Call
  <2>2. /\ \A i \in 1 .. handlers : view'[i] \in {Unknown, session.state}
        /\ \A i \in handlers + 1 .. MaxHandlers : view'[i] = Unknown
    BY <1>1, <1>2, <1>3, <2>1 DEF Mirrored
  <2>3. << >> \in Seq(Items) /\ \A k \in 1 .. Len(<< >>) : << >>[k].op # "deliver"
    OBVIOUS
  <2> HIDE DEF Run
  <2> QED
    BY <1>1, <2>1, <2>2, <2>3, RunMirrors
<1>6. CASE Deliver
  <2>1. /\ agenda # << >> /\ Head(agenda).op = "deliver" /\ handlers' = handlers
        /\ view' = [view EXCEPT ![Head(agenda).to] = Head(agenda).event.state]
    BY <1>6 DEF Deliver, Doing
  <2>2. /\ Head(agenda) = agenda[1] /\ Tail(agenda) \in Seq(Items)
        /\ view \in [1 .. MaxHandlers -> States \cup {Unknown}]
    BY <1>1, <2>1, TailTyped DEF Typed
  <2>3. n >= 1 /\ Shape(Tail(agenda), n - 1, session)
    BY <1>1, <1>2, <2>1, <2>2, TailShape DEF Mirrored
  <2>4. /\ Head(agenda).to = handlers - n + 1
        /\ Head(agenda).event.state = session.state
    BY <1>1, <1>2, <2>2, <2>3 DEF Mirrored, Shape
  <2>5. /\ \A i \in 1 .. handlers - (n - 1) : view'[i] \in {Unknown, session.state}
        /\ \A i \in handlers + 1 .. MaxHandlers : view'[i] = Unknown
    <3>1. \A i \in 1 .. MaxHandlers :
            view'[i] = IF i = handlers - n + 1 THEN session.state ELSE view[i]
      BY <2>1, <2>2, <2>4
    <3>2. \A i \in 1 .. handlers - (n - 1) :
            i \in 1 .. MaxHandlers /\ (i = handlers - n + 1 \/ i \in 1 .. handlers - n)
      BY <1>1, <2>3
    <3>3. \A i \in handlers + 1 .. MaxHandlers :
            i \in 1 .. MaxHandlers /\ i # handlers - n + 1
      BY <1>1, <2>3
    <3> QED
      BY <1>2, <3>1, <3>2, <3>3 DEF Mirrored
  <2>6. CASE agenda' = Tail(agenda) /\ session' = session
    <3>1. Mirrored(n - 1)'
      BY <1>1, <2>1, <2>3, <2>5, <2>6 DEF Mirrored, Shape
    <3> QED
      BY <1>1, <2>1, <2>3, <3>1
  <2>7. CASE Head(agenda).to \in Reentrant /\ Run(Tail(agenda))
    <3>1. n = 1
      BY <1>1, <2>3, <2>4, <2>7
    <3>2. \A k \in 1 .. Len(Tail(agenda)) : Tail(agenda)[k].op # "deliver"
      BY <2>3, <3>1 DEF Shape
    <3>3. \A i \in 1 .. handlers : view'[i] \in {Unknown, session.state}
      BY <1>1, <2>5, <3>1
    <3> HIDE DEF Run
    <3> QED
      BY <1>1, <2>1, <2>2, <2>5, <2>7, <3>2, <3>3, RunMirrors
  <2> QED
    BY <1>6, <2>6, <2>7 DEF Deliver
<1>7. CASE RecordStop
  <2>1. /\ Doing("record") /\ agenda # << >> /\ Head(agenda).op = "record"
        /\ session' = [session EXCEPT !.lastStop = Head(agenda).reason]
        /\ agenda' = Deliveries("Stopped", session') \o Tail(agenda)
        /\ UNCHANGED <<handlers, view>>
    BY <1>7 DEF RecordStop, Doing
  <2>2. agenda[1].op # "deliver"
    BY <1>1, <2>1, TailTyped
  <2>3. session' \in Sessions /\ session'.state = session.state /\ "Stopped" \in Kinds
    BY <1>1, <2>1, RecordedSession DEF Kinds
  <2> QED
    BY <2>1, <2>2, <2>3, PublishMirrors
<1>8. CASE PublishDebuggerEvent
  <2>1. /\ agenda # << >> /\ Head(agenda).op = "debugger"
        /\ agenda' = Deliveries("Debugger", session') \o Tail(agenda)
        /\ UNCHANGED <<session, handlers, view>>
    BY <1>8 DEF PublishDebuggerEvent, Doing
  <2>2. agenda[1].op # "deliver"
    BY <1>1, <2>1, TailTyped
  <2>3. "Debugger" \in Kinds
    BY DEF Kinds
  <2> QED
    BY <1>1, <2>1, <2>2, <2>3, PublishMirrors
<1>9. CASE UNCHANGED vars
  <2>1. Mirrored(n)' /\ handlers' = handlers
    BY <1>2, <1>9 DEF vars, Mirrored, Shape
  <2> QED
    BY <2>1
<1> QED
  BY <1>4, <1>5, <1>6, <1>7, <1>8, <1>9 DEF Next

\* MirrorsAgree: as long as no handler but the last calls the session back,
\* every handler knows the state of the session when no call is under way,
\* whatever the calls were and however many handlers listen.
THEOREM MirrorsAgreeWithTheSession ==
    ASSUME Reentrant \subseteq {MaxHandlers}
    PROVE  Spec => []MirrorsAgree
<1>1. Init => MirrorInv
  <2> SUFFICES ASSUME Init PROVE MirrorInv
    OBVIOUS
  <2>1. agenda = << >> /\ handlers = 0 /\ view = [i \in 1 .. MaxHandlers |-> Unknown]
    BY DEF Init
  <2>2. Mirrored(0)
    BY <2>1, SessionAssumption DEF Mirrored, Shape
  <2> QED
    BY <2>1, <2>2, TypedInit DEF MirrorInv
<1>2. MirrorInv => MirrorsAgree
  <2> SUFFICES ASSUME MirrorInv, agenda = << >>
               PROVE  \A i \in 1 .. handlers : view[i] \in {Unknown, session.state}
    BY DEF MirrorsAgree
  <2>1. PICK n \in 0 .. handlers : Mirrored(n)
    BY DEF MirrorInv
  <2>2. handlers \in Nat
    BY SessionAssumption DEF MirrorInv, Typed
  <2>3. n = 0
    BY <2>1, <2>2 DEF Mirrored, Shape
  <2> QED
    BY <2>1, <2>2, <2>3 DEF Mirrored
<1>3. MirrorInv /\ [Next]_vars => MirrorInv'
  BY MirrorStep
<1> QED
  BY <1>1, <1>2, <1>3, PTL DEF Spec

-----------------------------------------------------------------------------
(* Each call is one step of the contract. *)

LEMMA SameCore ==
    ASSUME NEW s
    PROVE  /\ Contract!NewSession = NewSession
           /\ Contract!States = States /\ Contract!Reasons = Reasons
           /\ Contract!DebuggerEventTypes = DebuggerEventTypes
           /\ \A next : Contract!Transition(s, next) = Transition(s, next)
           /\ \A reason : Contract!StoppedFor(s, reason) = StoppedFor(s, reason)
           /\ \A type : Contract!DebuggerEvent(s, type) = DebuggerEvent(s, type)
  BY DEF Contract!NewSession, NewSession, Contract!States, States,
     Contract!Reasons, Reasons, Contract!DebuggerEventTypes, DebuggerEventTypes,
     Contract!Transition, Transition, Contract!StoppedFor, StoppedFor,
     Contract!DebuggerEvent, DebuggerEvent, Contract!CanTransition,
     CanTransition, Contract!Successors, Successors, Contract!StopAfter,
     StopAfter, Contract!NoStop, NoStop, Contract!ReasonOf, ReasonOf,
     Contract!Terminal, Terminal

\* What the contract lets a call make of a session, or nothing.
Outcomes(s) ==
    {s} \cup {Transition(s, next) : next \in States}
        \cup {StoppedFor(s, reason) : reason \in Reasons}
        \cup {DebuggerEvent(s, type) : type \in DebuggerEventTypes}

\* What is not to be recorded does not matter, wherever it is.
NoRecord(tasks) == \A k \in 1 .. Len(tasks) : tasks[k].op # "record"

LEMMA NothingPending ==
    ASSUME NEW tasks \in Seq(Items), NoRecord(tasks)
    PROVE  /\ Pending(tasks) = {}
           /\ \A s : SettledAs(s, tasks) = s
<1>1. DOMAIN tasks = 1 .. Len(tasks)
  OBVIOUS
<1>2. Pending(tasks) = {}
  BY <1>1 DEF NoRecord, Pending
<1> QED
  BY <1>2 DEF SettledAs

LEMMA DeliveriesRecordNothing ==
    ASSUME NEW kind \in Kinds, NEW s \in Sessions, handlers \in Nat
    PROVE  Deliveries(kind, s) \in Seq(Items) /\ NoRecord(Deliveries(kind, s))
<1>1. /\ Len(Deliveries(kind, s)) = handlers
      /\ \A k \in 1 .. handlers : Deliveries(kind, s)[k].op = "deliver"
  BY DEF Deliveries
<1> QED
  BY <1>1, DeliveriesTyped DEF NoRecord

LEMMA OnePending ==
    ASSUME NEW s \in Sessions, NEW tasks \in Seq(Items), NEW reason,
           Pending(tasks) = {reason}
    PROVE  SettledAs(s, tasks) = [state |-> s.state, lastStop |-> reason]
<1>1. (CHOOSE r \in Pending(tasks) : TRUE) = reason
  OBVIOUS
<1>2. SettledAs(s, tasks) = [s EXCEPT !.lastStop = reason]
  BY <1>1 DEF SettledAs
<1> QED
  BY <1>2 DEF Sessions

LEMMA ConcatPending ==
    ASSUME NEW first \in Seq(Items), NEW rest \in Seq(Items), NoRecord(first)
    PROVE  Pending(first \o rest) = Pending(rest)
<1>1. /\ DOMAIN rest = 1 .. Len(rest)
      /\ DOMAIN (first \o rest) = 1 .. Len(first) + Len(rest)
      /\ Len(first) \in Nat /\ Len(rest) \in Nat
      /\ \A k \in 1 .. Len(first) : (first \o rest)[k] = first[k]
      /\ \A k \in Len(first) + 1 .. Len(first) + Len(rest) :
            (first \o rest)[k] = rest[k - Len(first)]
  BY ConcatFacts
<1> DEFINE both == first \o rest
<1> HIDE DEF both
<1>2. ASSUME NEW k \in DOMAIN both, both[k].op = "record"
      PROVE  k - Len(first) \in DOMAIN rest /\ both[k] = rest[k - Len(first)]
  <2>1. k \notin 1 .. Len(first)
    BY <1>1, <1>2 DEF NoRecord, both
  <2>2. k \in Len(first) + 1 .. Len(first) + Len(rest)
    BY <1>1, <2>1 DEF both
  <2> QED
    BY <1>1, <2>2 DEF both
<1>3. ASSUME NEW k \in DOMAIN rest
      PROVE  k + Len(first) \in DOMAIN both /\ both[k + Len(first)] = rest[k]
  BY <1>1 DEF both
<1>4. Pending(both) \subseteq Pending(rest)
  BY <1>2 DEF Pending
<1>5. Pending(rest) \subseteq Pending(both)
  BY <1>3 DEF Pending
<1> QED
  BY <1>4, <1>5 DEF both

LEMMA TailPending ==
    ASSUME Typed, agenda # << >>, agenda[1].op # "record"
    PROVE  Pending(Tail(agenda)) = Pending(agenda)
<1>1. /\ Len(agenda) \in Nat /\ Len(agenda) >= 1
      /\ DOMAIN agenda = 1 .. Len(agenda)
      /\ DOMAIN Tail(agenda) = 1 .. Len(agenda) - 1
      /\ \A k \in 1 .. Len(agenda) - 1 : Tail(agenda)[k] = agenda[k + 1]
  BY TailTyped DEF Typed
<1> DEFINE rest == Tail(agenda)
<1> HIDE DEF rest
<1>2. ASSUME NEW k \in DOMAIN agenda, agenda[k].op = "record"
      PROVE  k - 1 \in DOMAIN rest /\ agenda[k] = rest[k - 1]
  BY <1>1, <1>2 DEF rest
<1>3. ASSUME NEW k \in DOMAIN rest
      PROVE  k + 1 \in DOMAIN agenda /\ rest[k] = agenda[k + 1]
  BY <1>1 DEF rest
<1>4. Pending(agenda) \subseteq Pending(rest)
  BY <1>2 DEF Pending
<1>5. Pending(rest) \subseteq Pending(agenda)
  BY <1>3 DEF Pending
<1> QED
  BY <1>4, <1>5 DEF rest

LEMMA AppendPending ==
    ASSUME NEW tasks \in Seq(Items), NEW item \in Items
    PROVE  /\ item.op # "record" => Pending(Append(tasks, item)) = Pending(tasks)
           /\ item.op = "record" /\ NoRecord(tasks) =>
                 Pending(Append(tasks, item)) = {item.reason}
<1> DEFINE more == Append(tasks, item)
<1>1. /\ DOMAIN tasks = 1 .. Len(tasks)
      /\ DOMAIN more = 1 .. Len(tasks) + 1 /\ Len(tasks) \in Nat
      /\ \A k \in 1 .. Len(tasks) : more[k] = tasks[k]
      /\ more[Len(tasks) + 1] = item
  OBVIOUS
<1> HIDE DEF more
<1>2. DOMAIN more = DOMAIN tasks \cup {Len(tasks) + 1}
  BY <1>1
<1>3. \A k \in DOMAIN tasks : more[k] = tasks[k]
  BY <1>1
<1>4. item.op # "record" => Pending(more) = Pending(tasks)
  BY <1>1, <1>2, <1>3 DEF Pending
<1>5. item.op = "record" /\ NoRecord(tasks) => Pending(more) = {item.reason}
  BY <1>1, <1>2, <1>3 DEF Pending, NoRecord
<1> QED
  BY <1>4, <1>5 DEF more

\* A call that transition() alone makes, or makes first.
LEMMA TransitionSettles ==
    ASSUME session \in Sessions, handlers \in Nat, NEW next \in States
    PROVE  LET e == TransitionCall(next)
           IN  /\ e.now = Transition(session, next)
               /\ e.later \in Seq(Items) /\ NoRecord(e.later)
               /\ e = [now |-> e.now, later |-> e.later]
<1>1. CASE ~CanTransition(session.state, next)
  BY <1>1 DEF TransitionCall, Refused, Transition, NoRecord
<1>2. CASE CanTransition(session.state, next)
  <2>1. /\ TransitionCall(next).later \in Seq(Items)
        /\ \A k \in 1 .. Len(TransitionCall(next).later) :
              TransitionCall(next).later[k].op = "deliver"
    BY <1>2, TransitionFits
  <2>2. TransitionCall(next)
          = [now |-> Transition(session, next), later |-> TransitionCall(next).later]
    BY <1>2 DEF TransitionCall
  <2> QED
    BY <2>1, <2>2 DEF NoRecord
<1> QED
  BY <1>1, <1>2

\* stopped(): with the stop that it leaves to be recorded it is one step.
LEMMA StoppedSettles ==
    ASSUME session \in Sessions, handlers \in Nat, NEW reason \in Reasons
    PROVE  LET e == StoppedCall(reason)
           IN  /\ SettledAs(e.now, e.later) = StoppedFor(session, reason)
               /\ e.later \in Seq(Items)
               /\ e = [now |-> e.now, later |-> e.later]
<1>1. CASE session.state = "Paused"
  <2> DEFINE s == [session EXCEPT !.lastStop = reason]
  <2>1. s \in Sessions /\ s = [state |-> "Paused", lastStop |-> reason]
    BY <1>1 DEF Sessions
  <2>2. s = StoppedFor(session, reason)
    BY <1>1, <2>1 DEF StoppedFor, CanTransition
  <2>3. StoppedCall(reason) = [now |-> s, later |-> Deliveries("Stopped", s)]
    BY <1>1 DEF StoppedCall
  <2> HIDE DEF s
  <2>4. "Stopped" \in Kinds
    BY DEF Kinds
  <2>5. /\ Deliveries("Stopped", s) \in Seq(Items)
        /\ NoRecord(Deliveries("Stopped", s))
    BY <2>1, <2>4, DeliveriesRecordNothing
  <2> QED
    BY <2>2, <2>3, <2>5, NothingPending
<1>2. CASE session.state # "Paused" /\ CanTransition(session.state, "Paused")
  <2> DEFINE pause == TransitionCall("Paused")
             item == [op |-> "record", reason |-> reason]
  <2>1. /\ pause.now = Transition(session, "Paused")
        /\ pause.later \in Seq(Items) /\ NoRecord(pause.later)
        /\ pause = [now |-> pause.now, later |-> pause.later]
    BY TransitionSettles DEF States
  <2>2. item \in Items /\ item.op = "record" /\ item.reason = reason
    BY DEF Items
  <2>3. StoppedCall(reason) = [now |-> pause.now, later |-> Append(pause.later, item)]
    BY <1>2, <2>1 DEF StoppedCall
  <2>4. pause.now \in Sessions /\ pause.now.state = "Paused"
    BY <1>2, TransitionFits DEF States, Fits
  <2> HIDE DEF pause, item
  <2>5. Pending(Append(pause.later, item)) = {reason}
    BY <2>1, <2>2, AppendPending
  <2>6. Append(pause.later, item) \in Seq(Items)
    BY <2>1, <2>2
  <2>7. SettledAs(pause.now, Append(pause.later, item))
          = [state |-> "Paused", lastStop |-> reason]
    BY <2>4, <2>5, <2>6, OnePending
  <2>8. StoppedFor(session, reason) = [state |-> "Paused", lastStop |-> reason]
    BY <1>2 DEF StoppedFor
  <2> QED
    BY <2>3, <2>6, <2>7, <2>8
<1>3. CASE session.state # "Paused" /\ ~CanTransition(session.state, "Paused")
  <2>1. StoppedCall(reason) = Refused /\ StoppedFor(session, reason) = session
    BY <1>3 DEF StoppedCall, StoppedFor
  <2>2. << >> \in Seq(Items) /\ NoRecord(<< >>)
    BY DEF NoRecord
  <2>3. SettledAs(session, << >>) = session
    BY <2>2, NothingPending
  <2>4. /\ Refused.now = session /\ Refused.later = << >>
        /\ Refused = [now |-> Refused.now, later |-> Refused.later]
    BY DEF Refused
  <2> QED
    BY <2>1, <2>2, <2>3, <2>4
<1> QED
  BY <1>1, <1>2, <1>3

\* debugger_event() publishes after whatever its type has made it do.
LEMMA DebuggerEventSettles ==
    ASSUME session \in Sessions, handlers \in Nat, NEW type \in DebuggerEventTypes
    PROVE  LET e == DebuggerEventCall(type)
           IN  /\ SettledAs(e.now, e.later) = DebuggerEvent(session, type)
               /\ e.later \in Seq(Items)
<1> DEFINE first ==
        CASE type \in DOMAIN ReasonOf -> StoppedCall(ReasonOf[type])
          [] type = "ProcessStopped" /\ session.state \notin Terminal ->
                TransitionCall("Stopped")
          [] OTHER -> Refused
           item == [op |-> "debugger"]
<1>1. DebuggerEventCall(type) = [first EXCEPT !.later = Append(@, item)]
  BY DEF DebuggerEventCall
<1>2. /\ SettledAs(first.now, first.later) = DebuggerEvent(session, type)
      /\ first.later \in Seq(Items)
      /\ first = [now |-> first.now, later |-> first.later]
  <2>1. CASE type \in DOMAIN ReasonOf
    <3>1. ReasonOf[type] \in Reasons
      BY <2>1 DEF ReasonOf, Reasons
    <3>2. first = StoppedCall(ReasonOf[type])
      BY <2>1 DEF ReasonOf
    <3>3. DebuggerEvent(session, type) = StoppedFor(session, ReasonOf[type])
      BY <2>1 DEF DebuggerEvent, ReasonOf
    <3> HIDE DEF first
    <3> QED
      BY <3>1, <3>2, <3>3, StoppedSettles
  <2>2. CASE type = "ProcessStopped" /\ session.state \notin Terminal
    <3>1. first = TransitionCall("Stopped")
      BY <2>2 DEF ReasonOf
    <3>2. DebuggerEvent(session, type) = Transition(session, "Stopped")
      BY <2>2 DEF DebuggerEvent, ReasonOf
    <3> HIDE DEF first
    <3>3. /\ first.now = Transition(session, "Stopped")
          /\ first.later \in Seq(Items) /\ NoRecord(first.later)
          /\ first = [now |-> first.now, later |-> first.later]
      BY <3>1, TransitionSettles DEF States
    <3> QED
      BY <3>2, <3>3, NothingPending
  <2>3. CASE /\ type \notin DOMAIN ReasonOf
             /\ ~(type = "ProcessStopped" /\ session.state \notin Terminal)
    <3>1. first = [now |-> session, later |-> << >>]
      BY <2>3 DEF Refused
    <3>2. DebuggerEvent(session, type) = session
      BY <2>3 DEF DebuggerEvent
    <3> HIDE DEF first
    <3>3. << >> \in Seq(Items) /\ NoRecord(<< >>)
      BY DEF NoRecord
    <3> QED
      BY <3>1, <3>2, <3>3, NothingPending
  <2> QED
    BY <2>1, <2>2, <2>3
<1> HIDE DEF first
<1>3. item \in Items /\ item.op # "record"
  BY DEF Items
<1>4. /\ DebuggerEventCall(type).now = first.now
      /\ DebuggerEventCall(type).later = Append(first.later, item)
  BY <1>1, <1>2
<1> HIDE DEF item
<1>5. Pending(Append(first.later, item)) = Pending(first.later)
        /\ Append(first.later, item) \in Seq(Items)
  BY <1>2, <1>3, AppendPending
<1> QED
  BY <1>2, <1>4, <1>5 DEF SettledAs

LEMMA CallSettles ==
    ASSUME session \in Sessions, handlers \in Nat, NEW call \in Calls
    PROVE  /\ SettledAs(Effect(call).now, Effect(call).later) \in Outcomes(session)
           /\ Effect(call).later \in Seq(Items)
<1>1. CASE call.op = "transition"
  <2>1. call.arg \in States /\ Effect(call) = TransitionCall(call.arg)
    BY <1>1 DEF Calls, Effect
  <2> QED
    BY <2>1, TransitionSettles, NothingPending DEF Outcomes
<1>2. CASE call.op = "stopped"
  <2>1. call.arg \in Reasons /\ Effect(call) = StoppedCall(call.arg)
    BY <1>2 DEF Calls, Effect
  <2> QED
    BY <2>1, StoppedSettles DEF Outcomes
<1>3. CASE call.op = "output"
  <2>1. /\ Effect(call).now = session
        /\ Effect(call).later = Deliveries("Output", session)
    BY <1>3 DEF Effect, OutputCall
  <2>2. "Output" \in Kinds
    BY DEF Kinds
  <2>3. /\ Deliveries("Output", session) \in Seq(Items)
        /\ NoRecord(Deliveries("Output", session))
    BY <2>2, DeliveriesRecordNothing
  <2> QED
    BY <2>1, <2>3, NothingPending DEF Outcomes
<1>4. CASE call.op = "debugger_event"
  <2>1. call.arg \in DebuggerEventTypes /\ Effect(call) = DebuggerEventCall(call.arg)
    BY <1>4 DEF Calls, Effect
  <2> QED
    BY <2>1, DebuggerEventSettles DEF Outcomes
<1> QED
  BY <1>1, <1>2, <1>3, <1>4 DEF Calls

\* With no call back, what the agenda still has to record settles the session.
LEMMA SettledStep ==
    ASSUME StopInv, [Next]_vars, ~calledBack'
    PROVE  SettledAs(session, agenda)' \in Outcomes(SettledAs(session, agenda))
<1>1. handlers \in Nat /\ session \in Sessions /\ Typed /\ agenda \in Seq(Items)
  BY SessionAssumption DEF StopInv, Typed
<1>2. CASE UNCHANGED <<session, agenda>>
  BY <1>2 DEF Outcomes
<1>3. CASE Call
  <2>1. PICK call \in Calls : /\ session' = Effect(call).now
                              /\ agenda' = Effect(call).later \o << >>
    BY <1>3 DEF Call, Run
  <2>2. /\ SettledAs(Effect(call).now, Effect(call).later) \in Outcomes(session)
        /\ Effect(call).later \in Seq(Items)
    BY <1>1, CallSettles
  <2>3. agenda' = Effect(call).later
    BY <2>1, <2>2
  <2>4. NoRecord(agenda)
    BY <1>3 DEF Call, NoRecord
  <2>5. SettledAs(session, agenda) = session
    BY <1>1, <2>4, NothingPending
  <2> QED
    BY <2>1, <2>2, <2>3, <2>5
<1>4. CASE Deliver
  <2>1. /\ agenda # << >> /\ agenda[1].op = "deliver"
        /\ agenda' = Tail(agenda) /\ session' = session
    BY <1>1, <1>4, TailTyped DEF Deliver, Doing
  <2>2. Pending(agenda') = Pending(agenda)
    BY <1>1, <2>1, TailPending
  <2> QED
    BY <2>1, <2>2 DEF SettledAs, Outcomes
<1>5. CASE PublishDebuggerEvent
  <2>1. /\ agenda # << >> /\ agenda[1].op = "debugger"
        /\ agenda' = Deliveries("Debugger", session) \o Tail(agenda)
        /\ session' = session /\ Tail(agenda) \in Seq(Items)
    BY <1>1, <1>5, TailTyped DEF PublishDebuggerEvent, Doing
  <2>2. /\ Deliveries("Debugger", session) \in Seq(Items)
        /\ NoRecord(Deliveries("Debugger", session))
    BY <1>1, DeliveriesRecordNothing DEF Kinds
  <2>3. Pending(agenda') = Pending(agenda)
    BY <1>1, <2>1, <2>2, ConcatPending, TailPending
  <2> QED
    BY <2>1, <2>3 DEF SettledAs, Outcomes
<1>6. CASE RecordStop
  <2> DEFINE reason == Head(agenda).reason
  <2>1. /\ agenda # << >> /\ agenda[1].op = "record" /\ Head(agenda) = agenda[1]
        /\ session' = [session EXCEPT !.lastStop = reason]
        /\ agenda' = Deliveries("Stopped", session') \o Tail(agenda)
        /\ Doing("record") /\ ~calledBack /\ Tail(agenda) \in Seq(Items)
    BY <1>1, <1>6, TailTyped DEF RecordStop, Doing
  <2>2. /\ Len(agenda) \in Nat /\ Len(agenda) >= 1
        /\ DOMAIN agenda = 1 .. Len(agenda)
        /\ Len(Tail(agenda)) = Len(agenda) - 1
        /\ \A k \in 1 .. Len(agenda) - 1 : Tail(agenda)[k] = agenda[k + 1]
    BY <1>1, <2>1, TailTyped
  <2>3. \A k \in 1 .. Len(agenda) : k # 1 => agenda[k].op # "record"
    <3>1. StopsFit(agenda, session) /\ 1 \in 1 .. Len(agenda)
      BY <2>1, <2>2 DEF StopInv
    <3> QED
      BY <2>1, <3>1 DEF StopsFit
  <2>4. Pending(agenda) = {reason}
    <3>1. {j \in DOMAIN agenda : agenda[j].op = "record"} = {1}
      BY <2>1, <2>2, <2>3
    <3> QED
      BY <2>1, <3>1 DEF Pending
  <2>5. SettledAs(session, agenda) = [state |-> session.state, lastStop |-> reason]
    BY <1>1, <2>4, OnePending
  <2>6. NoRecord(Tail(agenda))
    BY <2>2, <2>3 DEF NoRecord
  <2>7. session' \in Sessions
    BY <1>1, <2>1, RecordedSession
  <2>8. /\ Deliveries("Stopped", session') \in Seq(Items)
        /\ NoRecord(Deliveries("Stopped", session'))
    BY <1>1, <2>7, DeliveriesRecordNothing DEF Kinds
  <2>9. Pending(agenda') = {}
    BY <2>1, <2>6, <2>8, ConcatPending, NothingPending
  <2>10. session' = [state |-> session.state, lastStop |-> reason]
    BY <1>1, <2>1 DEF Sessions
  <2> QED
    BY <2>5, <2>9, <2>10 DEF SettledAs, Outcomes
<1> QED
  BY <1>2, <1>3, <1>4, <1>5, <1>6 DEF Next, Subscribe, vars

LEMMA ContractStep ==
    ASSUME StopInv, [Next]_vars, ~calledBack'
    PROVE  Contract!Next \/ UNCHANGED SettledAs(session, agenda)
<1> DEFINE s == SettledAs(session, agenda)
<1>1. s' \in Outcomes(s)
  BY SettledStep
<1>2. (\E next \in States : s' = Transition(s, next)) => Contract!Next
  BY SameCore DEF Contract!Next, Contract!MoveTo
<1>3. (\E reason \in Reasons : s' = StoppedFor(s, reason)) => Contract!Next
  BY SameCore DEF Contract!Next, Contract!StopFor
<1>4. (\E type \in DebuggerEventTypes : s' = DebuggerEvent(s, type)) => Contract!Next
  BY SameCore DEF Contract!Next, Contract!Hear
<1> HIDE DEF s
<1>5. \/ s' = s
      \/ \E next \in States : s' = Transition(s, next)
      \/ \E reason \in Reasons : s' = StoppedFor(s, reason)
      \/ \E type \in DebuggerEventTypes : s' = DebuggerEvent(s, type)
  BY <1>1 DEF Outcomes
<1> QED
  BY <1>2, <1>3, <1>4, <1>5 DEF s

\* CallsAreAtomic: the session that a caller finds is what SessionCore's
\* operations make of it, for any number of handlers and calls, in every call
\* in which no handler calls back.
THEOREM CallsAreStepsOfTheContract == Spec => CallsAreAtomic
<1>1. StopInv /\ [Next]_vars =>
        (~calledBack' => Contract!Next \/ UNCHANGED SettledAs(session, agenda))
  BY ContractStep
<1> QED
  BY <1>1, StopInvariant, PTL DEF Spec, CallsAreAtomic

\* If no handler ever calls back, the session is a SessionContract.
THEOREM ImplementsContract ==
    ASSUME Reentrant = {}
    PROVE  Spec => Contract!Spec
<1>1. Init => Contract!Init /\ ~calledBack
  <2> SUFFICES ASSUME Init PROVE SettledAs(session, agenda) = NewSession
    BY SameCore DEF Init, Contract!Init
  <2>1. agenda \in Seq(Items) /\ NoRecord(agenda)
    BY DEF Init, NoRecord
  <2> QED
    BY <2>1, NothingPending DEF Init
<1>2. ~calledBack /\ [Next]_vars => ~calledBack'
  BY DEF Next, Subscribe, Call, Deliver, RecordStop, PublishDebuggerEvent, vars
<1>3. StopInv /\ ~calledBack /\ [Next]_vars =>
        [Contract!Next]_(SettledAs(session, agenda))
  BY <1>2, ContractStep
<1> QED
  BY <1>1, <1>2, <1>3, StopInvariant, PTL DEF Spec, Contract!Spec

=============================================================================
