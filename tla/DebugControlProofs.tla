------------------------- MODULE DebugControlProofs -------------------------
(***************************************************************************)
(* What TLAPS proves of DebugControl, for any set of controllers, any      *)
(* number of stops and any set of faults; the theorems about what a        *)
(* controller's command reaches hold for a single controller, as in wmain. *)
(***************************************************************************)
EXTENDS DebugControlRefinement, TLAPS

-----------------------------------------------------------------------------
(* Type correctness, in two parts: the flags, and the rest. *)

\* No step gives a flag (paused_, completed_, ...) a value that is not one.
LEMMA FlagsStep == FlagsOK /\ [Next]_vars => FlagsOK'
<1> USE DEF FlagsOK
<1>1. FlagsOK /\ Worker => FlagsOK'
  BY Zenon DEF Worker, Break, RegisterApplication, RegisterThread,
     RegisterFrame, Publish, SetStack, SetVariables, Report, Leave, Finish,
     Complete, StoreFinished, ClearLocked, shared, manager, controller
<1>2. ASSUME FlagsOK, NEW c \in Controllers, Controller(c)
      PROVE  FlagsOK'
  BY <1>2, Zenon DEF Controller, WaitPaused, LeaveLoop, BeginEvaluate,
     EndEvaluate, BeginResume, FetchInterfaces, ResumeFromBreakPoint,
     ClearPause, ClearLocked, shared, manager, controller
<1>3. FlagsOK /\ UNCHANGED vars => FlagsOK'
  BY DEF vars, shared, manager
<1> QED
  BY <1>1, <1>2, <1>3 DEF Next

\* No step takes a cookie, a stop number or a program counter out of range.
LEMMA DataStep == DataOK /\ [Next]_vars => DataOK'
<1> SUFFICES ASSUME DataOK, [Next]_vars PROVE DataOK'
  OBVIOUS
<1> USE DEF DataOK, ClearLocked, WorkerStates, ControllerStates, shared,
    manager, controller
<1>1. CASE Break
  BY <1>1, ControlAssumption DEF Break, Stops
<1>2. ASSUME NEW k \in Kinds
      PROVE  /\ [git EXCEPT ![k] = @ \cup {stops}] \in [Kinds -> SUBSET Stops]
             /\ [git EXCEPT ![k] = @ \ {stops}] \in [Kinds -> SUBSET Stops]
  OBVIOUS
<1>3. CASE RegisterApplication \/ RegisterThread
  <2>1. git' \in [Kinds -> SUBSET Stops]
    BY <1>2, <1>3 DEF RegisterApplication, RegisterThread, Kinds
  <2>2. captured' \subseteq Kinds /\ worker' \in WorkerStates
    BY <1>3 DEF RegisterApplication, RegisterThread, Kinds
  <2> QED
    BY <1>3, <2>1, <2>2 DEF RegisterApplication, RegisterThread
<1>4. CASE RegisterFrame
  <2>1. git' \in [Kinds -> SUBSET Stops]
    BY <1>2, <1>4 DEF RegisterFrame, Kinds
  <2>2. captured' \subseteq Kinds /\ worker' \in WorkerStates
    BY <1>4 DEF RegisterFrame, Kinds
  <2> QED
    BY <1>4, <2>1, <2>2 DEF RegisterFrame
<1>5. CASE Publish
  BY <1>5, ControlAssumption DEF Publish, Stops
<1>6. CASE SetStack \/ SetVariables
  BY <1>6, ControlAssumption DEF SetStack, SetVariables, CapturedStack,
     CapturedVariables, Stops
<1>7. CASE Report \/ Leave \/ Finish \/ StoreFinished
  BY <1>7 DEF Report, Leave, Finish, StoreFinished
<1>8. CASE Complete
  BY <1>8, ControlAssumption DEF Complete, NoCookies, Stops
<1>9. ASSUME NEW c \in Controllers, Controller(c)
      PROVE  DataOK'
  <2>1. CASE WaitPaused(c) \/ LeaveLoop(c) \/ EndEvaluate(c)
    BY <2>1 DEF WaitPaused, LeaveLoop, EndEvaluate
  <2>2. CASE BeginEvaluate(c)
    BY <2>2, ControlAssumption DEF BeginEvaluate, NoCookies, Kinds, Stops
  <2>3. CASE BeginResume(c)
    BY <2>3, ControlAssumption DEF BeginResume, Kinds, Stops
  <2>4. CASE FetchInterfaces(c) \/ ResumeFromBreakPoint(c)
    BY <2>4 DEF FetchInterfaces, ResumeFromBreakPoint
  <2>5. CASE ClearPause(c)
    BY <2>5, ControlAssumption DEF ClearPause, NoCookies, Stops
  <2> QED
    BY <1>9, <2>1, <2>2, <2>3, <2>4, <2>5 DEF Controller
<1>10. CASE UNCHANGED vars
  BY <1>10 DEF vars
<1> QED
  BY <1>1, <1>3, <1>4, <1>5, <1>6, <1>7, <1>8, <1>9, <1>10
  DEF Next, Worker

\* TypeOK: every variable keeps its range, whatever the threads do and
\* whichever COM calls fail.
THEOREM TypeCorrect == Spec => []TypeOK
<1>1. Init => FlagsOK
  BY DEF Init, FlagsOK
<1>2. Init => DataOK
  BY ControlAssumption
  DEF Init, DataOK, Stops, NoCookies, WorkerStates, ControllerStates, Actions
<1> QED
  BY <1>1, <1>2, FlagsStep, DataStep, PTL DEF Spec, TypeOK

-----------------------------------------------------------------------------
(* The interface table. *)

\* Where the worker has taken interfaces that it has not published yet, and
\* which; a stop that is being captured is newer than every stored cookie,
\* so that clear_locked cannot revoke what the capture has just registered.
Capturing == {"application", "thread", "frame", "publish"}

CaptureInv ==
    /\ worker \in {"application"} \cup (WorkerStates \ Capturing) => captured = {}
    /\ worker = "thread" => captured = {"application"}
    /\ worker = "frame" => captured = {"application", "thread"}
    /\ worker = "publish" => {"application", "thread"} \subseteq captured
    /\ \A k \in Kinds : cookie[k] <= stops
    /\ worker \in Capturing => \A k \in Kinds : cookie[k] # stops
    /\ InBreak => stops # 0

\* Initially nothing is captured, stored or registered.
LEMMA TableInit == Init => CaptureInv /\ CookiesAreRegistered /\ NothingLeaks
  BY DEF Init, CaptureInv, CookiesAreRegistered, NothingLeaks, NoCookies,
     Capturing, InBreak

\* Every step keeps the progress of a capture and its locals in agreement, and
\* the stops of the stored cookies in the past.
LEMMA CaptureStep ==
    ASSUME DataOK, CaptureInv, [Next]_vars
    PROVE  CaptureInv'
<1> USE DEF DataOK, CaptureInv, Capturing, InBreak, WorkerStates, Stops, Kinds
<1>1. CASE Break
  BY <1>1, ControlAssumption DEF Break, shared
<1>2. CASE RegisterApplication
  BY <1>2 DEF RegisterApplication, shared
<1>3. CASE RegisterThread
  BY <1>3 DEF RegisterThread, shared
<1>4. CASE RegisterFrame
  BY <1>4 DEF RegisterFrame, shared
<1>5. CASE Publish
  BY <1>5, ControlAssumption DEF Publish
<1>6. CASE SetStack \/ SetVariables \/ Report \/ Leave \/ Finish \/ StoreFinished
  BY <1>6 DEF SetStack, SetVariables, Report, Leave, Finish, StoreFinished,
     shared, manager
<1>7. CASE Complete
  BY <1>7, ControlAssumption DEF Complete, NoCookies
<1>8. ASSUME NEW c \in Controllers, Controller(c)
      PROVE  CaptureInv'
  <2>1. CASE ClearPause(c)
    BY <2>1, ControlAssumption DEF ClearPause, NoCookies
  <2>2. CASE ~ClearPause(c)
    <3>1. UNCHANGED <<cookie, worker, captured, stops>>
      BY <1>8, <2>2 DEF Controller, WaitPaused, LeaveLoop, BeginEvaluate,
         EndEvaluate, BeginResume, FetchInterfaces, ResumeFromBreakPoint,
         shared, manager
    <3> QED
      BY <3>1
  <2> QED
    BY <2>1, <2>2
<1>9. CASE UNCHANGED vars
  BY <1>9 DEF vars, shared, manager
<1> QED
  BY <1>1, <1>2, <1>3, <1>4, <1>5, <1>6, <1>7, <1>8, <1>9 DEF Next, Worker

\* A clear_locked that forgets every cookie keeps the registered interfaces
\* and the cookies in agreement; what a capture has in flight is not touched.
LEMMA ClearTable ==
    ASSUME DataOK, CaptureInv, CookiesAreRegistered, NothingLeaks,
           ClearLocked, cookie' = NoCookies,
           UNCHANGED <<captured, stops>>,
           worker \in Capturing \/ captured = {}
    PROVE  CookiesAreRegistered' /\ NothingLeaks'
  BY DEF DataOK, CaptureInv, CookiesAreRegistered, NothingLeaks, ClearLocked,
     NoCookies

\* Every step keeps the cookies registered and what is registered accounted for.
LEMMA TableStep ==
    ASSUME DataOK, CaptureInv, CookiesAreRegistered, NothingLeaks, [Next]_vars
    PROVE  CookiesAreRegistered' /\ NothingLeaks'
<1> USE DEF DataOK, CaptureInv, CookiesAreRegistered, NothingLeaks, WorkerStates,
    Capturing, InBreak
<1>1. CASE Break
  BY <1>1 DEF Break, shared
<1>2. CASE RegisterApplication
  BY <1>2 DEF RegisterApplication, shared, Kinds
<1>3. CASE RegisterThread
  BY <1>3 DEF RegisterThread, shared, Kinds
<1>4. CASE RegisterFrame
  BY <1>4 DEF RegisterFrame, shared, Kinds
<1>5. CASE Publish
  BY <1>5 DEF Publish, ClearLocked
<1>6. CASE SetStack \/ SetVariables \/ Report \/ Leave \/ Finish \/ StoreFinished
  BY <1>6 DEF SetStack, SetVariables, Report, Leave, Finish, StoreFinished,
     shared, manager
<1>7. CASE Complete
  BY <1>7, ClearTable DEF Complete
<1>8. ASSUME NEW c \in Controllers, Controller(c)
      PROVE  CookiesAreRegistered' /\ NothingLeaks'
  <2>1. CASE ClearPause(c)
    BY <2>1, ClearTable DEF ClearPause
  <2>2. CASE ~ClearPause(c)
    <3>1. UNCHANGED <<cookie, captured, git, unrevoked, stops>>
      BY <1>8, <2>2 DEF Controller, WaitPaused, LeaveLoop, BeginEvaluate,
         EndEvaluate, BeginResume, FetchInterfaces, ResumeFromBreakPoint,
         shared, manager
    <3> QED
      BY <3>1
  <2> QED
    BY <2>1, <2>2
<1>9. CASE UNCHANGED vars
  BY <1>9 DEF vars, shared, manager
<1> QED
  BY <1>1, <1>2, <1>3, <1>4, <1>5, <1>6, <1>7, <1>8, <1>9 DEF Next, Worker

\* The invariant behind the two theorems below.
LEMMA TableInvariant ==
    Spec => [](TypeOK /\ CaptureInv /\ CookiesAreRegistered /\ NothingLeaks)
<1>1. TypeOK /\ CaptureInv /\ CookiesAreRegistered /\ NothingLeaks /\ [Next]_vars
        => CaptureInv' /\ CookiesAreRegistered' /\ NothingLeaks'
  BY CaptureStep, TableStep DEF TypeOK
<1> QED
  BY <1>1, TableInit, TypeCorrect, PTL DEF Spec

\* Every cookie the debugger holds names a registered interface, for any number
\* of controllers and whichever COM calls fail: no clear_locked, on whichever
\* thread, revokes what a capture has in flight.
THEOREM CookiesRegistered == Spec => []CookiesAreRegistered
  BY TableInvariant, PTL

\* Nothing stays registered once its cookie is lost, as long as clear_locked
\* can reach the interface table.
THEOREM NoInterfaceLeaks == Spec => []NothingLeaks
  BY TableInvariant, PTL

-----------------------------------------------------------------------------
(* One controller, as in wmain. *)

\* The controller is between the report of a pause and its own resume.
Talking == {"prompt", "evaluate", "fetch", "call"}
Copied == {"evaluate", "fetch", "call"}
Published == {"setStack", "setVariables", "report", "held"}

\* A pause that controller c is not just clearing is that of the current stop,
\* which nobody has released: the reason is that only c's own resume releases
\* a stop, and that it is accepted only where c goes on to clear the pause.
PauseIsCurrent(c) ==
    paused /\ pc[c] # "clear" =>
        /\ worker \in Published
        /\ ~released
        /\ \A k \in Kinds : cookie[k] = 0 \/ cookie[k] = stops
        /\ stack = 0 \/ stack = stops
        /\ variables = 0 \/ variables = stops

\* What c has been told and has copied is what is stored.
TalkIsCurrent(c) ==
    /\ pc[c] \in Talking => paused /\ seen[c] = stops
    /\ pc[c] \in Copied =>
          \A k \in Kinds : copy[c][k] = 0 \/ copy[c][k] = cookie[k]

\* Without a pause no cookie is stored, and no stop is released before it has
\* been published.
Quiet ==
    /\ ~paused => \A k \in Kinds : cookie[k] = 0
    /\ worker \in Capturing => ~released

SoleInv(c) == PauseIsCurrent(c) /\ TalkIsCurrent(c) /\ Quiet

\* Initially nothing is paused and the controller waits.
LEMMA SoleInit ==
    ASSUME NEW c \in Controllers, Init
    PROVE  SoleInv(c)
  BY DEF Init, SoleInv, PauseIsCurrent, TalkIsCurrent, Quiet, Talking, Copied,
     NoCookies, Capturing

\* The worker's steps keep the sole controller's view current.
LEMMA SoleWorkerStep ==
    ASSUME NEW c \in Controllers, FlagsOK, DataOK, CaptureInv, SoleInv(c), Worker
    PROVE  SoleInv(c)'
<1> USE DEF DataOK, FlagsOK, SoleInv, PauseIsCurrent, TalkIsCurrent, Quiet,
    Talking, Copied, Published, Capturing, shared, manager, controller
<1>1. CASE Break
  BY <1>1 DEF Break
<1>2. CASE RegisterApplication \/ RegisterThread \/ RegisterFrame
  BY <1>2 DEF RegisterApplication, RegisterThread, RegisterFrame
<1>3. CASE Publish
  BY <1>3 DEF Publish
<1>4. CASE SetStack
  BY <1>4 DEF SetStack, CapturedStack
<1>5. CASE SetVariables
  BY <1>5 DEF SetVariables, CapturedVariables
<1>6. CASE Report \/ Leave \/ Finish \/ StoreFinished
  BY <1>6 DEF Report, Leave, Finish, StoreFinished
<1>7. CASE Complete
  BY <1>7 DEF Complete, NoCookies
<1> QED
  BY <1>1, <1>2, <1>3, <1>4, <1>5, <1>6, <1>7 DEF Worker

\* Its own steps keep it current as well.
LEMMA SoleControllerStep ==
    ASSUME NEW c \in Controllers, FlagsOK, DataOK, CaptureInv, SoleInv(c),
           Controller(c)
    PROVE  SoleInv(c)'
<1> USE DEF DataOK, FlagsOK, SoleInv, PauseIsCurrent, TalkIsCurrent, Quiet,
    Talking, Copied, Published, Capturing, ControllerStates, shared, manager
<1>1. CASE WaitPaused(c)
  BY <1>1 DEF WaitPaused
<1>2. CASE LeaveLoop(c)
  BY <1>2 DEF LeaveLoop
<1>3. CASE BeginEvaluate(c)
  BY <1>3 DEF BeginEvaluate, NoCookies, Kinds
<1>4. CASE EndEvaluate(c)
  BY <1>4 DEF EndEvaluate
<1>5. CASE BeginResume(c)
  BY <1>5 DEF BeginResume, Kinds
<1>6. CASE FetchInterfaces(c)
  BY <1>6 DEF FetchInterfaces
<1>7. CASE ResumeFromBreakPoint(c)
  BY <1>7 DEF ResumeFromBreakPoint
<1>8. CASE ClearPause(c)
  BY <1>8 DEF ClearPause, NoCookies
<1> QED
  BY <1>1, <1>2, <1>3, <1>4, <1>5, <1>6, <1>7, <1>8,
     Controller(c) DEF Controller

\* SoleInv is an invariant when cli is the only controller.
LEMMA SoleInvariant ==
    ASSUME NEW cli, Controllers = {cli}
    PROVE  Spec => [](TypeOK /\ CaptureInv /\ CookiesAreRegistered /\ NothingLeaks
                        /\ SoleInv(cli))
<1>1. ASSUME TypeOK, CaptureInv, SoleInv(cli), [Next]_vars
      PROVE  SoleInv(cli)'
  <2>1. CASE Worker
    BY <1>1, <2>1, SoleWorkerStep DEF TypeOK
  <2>2. CASE Controller(cli)
    BY <1>1, <2>2, SoleControllerStep DEF TypeOK
  <2>3. CASE UNCHANGED vars
    BY <1>1, <2>3 DEF vars, shared, manager, controller, SoleInv,
       PauseIsCurrent, TalkIsCurrent, Quiet
  <2> QED
    BY <1>1, <2>1, <2>2, <2>3 DEF Next
<1>2. Init => SoleInv(cli)
  BY SoleInit
<1> QED
  BY <1>1, <1>2, TableInvariant, PTL DEF Spec

\* A sole controller's evaluate, execute and resume always reach the stop that
\* its wait() reported, with cookies that are still registered, although they
\* use the cookies after having released the mutex.
THEOREM SoleCommandsReachSeenStop ==
    ASSUME NEW cli, Controllers = {cli}
    PROVE  Spec => []CommandsReachSeenStop
<1>1. TypeOK /\ CookiesAreRegistered /\ SoleInv(cli) => CommandsReachSeenStop
  BY DEF CommandsReachSeenStop, CookiesAreRegistered, SoleInv, PauseIsCurrent,
     TalkIsCurrent, Talking, Copied, Published, Resumable, InBreak
<1> QED
  BY <1>1, SoleInvariant, PTL

\* A sole controller never reads the stack or the variables of an earlier stop
\* at its prompt.
THEOREM SoleInspectionIsFresh ==
    ASSUME NEW cli, Controllers = {cli}
    PROVE  Spec => []NoStaleInspection
<1>1. SoleInv(cli) => NoStaleInspection
  BY DEF NoStaleInspection, SoleInv, PauseIsCurrent, TalkIsCurrent, Talking
<1> QED
  BY <1>1, SoleInvariant, PTL

\* With a sole controller the debugger never claims a pause when the script is
\* not held, and keeps no interface registered then.
THEOREM SoleNoPhantomPause ==
    ASSUME NEW cli, Controllers = {cli}
    PROVE  Spec => []NoPhantomPause
<1>1. TypeOK /\ CaptureInv /\ NothingLeaks /\ SoleInv(cli) => NoPhantomPause
  <2> SUFFICES ASSUME TypeOK, CaptureInv, NothingLeaks, SoleInv(cli),
                      ~InBreak, pc[cli] # "clear"
               PROVE  /\ ~paused
                      /\ \A k \in Kinds : git[k] \subseteq unrevoked[k]
    BY DEF NoPhantomPause
  <2>1. ~paused /\ \A k \in Kinds : cookie[k] = 0
    BY DEF SoleInv, PauseIsCurrent, Quiet, Published, InBreak
  <2>2. captured = {}
    BY DEF TypeOK, DataOK, CaptureInv, InBreak, Capturing
  <2> QED
    BY <2>1, <2>2 DEF NothingLeaks
<1> QED
  BY <1>1, SoleInvariant, PTL

\* A sole controller releases only the stop it was told of: no command given at
\* one stop takes effect at a later one.
THEOREM SoleReleaseTargetsSeenStop ==
    ASSUME NEW cli, Controllers = {cli}
    PROVE  Spec => ReleaseTargetsSeenStop
<1>1. ASSUME SoleInv(cli), [Next]_vars
      PROVE  [~released /\ released' =>
                 \E c \in Controllers : pc[c] = "call" /\ seen[c] = stops]_vars
  <2>1. CASE Worker
    BY <2>1 DEF Worker, Break, RegisterApplication, RegisterThread,
       RegisterFrame, Publish, SetStack, SetVariables, Report, Leave, Finish,
       Complete, StoreFinished, manager
  <2>2. CASE Controller(cli)
    BY <1>1, <2>2 DEF Controller, WaitPaused, LeaveLoop, BeginEvaluate,
       EndEvaluate, BeginResume, FetchInterfaces, ResumeFromBreakPoint,
       ClearPause, manager, SoleInv, TalkIsCurrent, Talking
  <2> QED
    BY <1>1, <2>1, <2>2 DEF Next
<1> QED
  BY <1>1, SoleInvariant, PTL DEF Spec, ReleaseTargetsSeenStop

-----------------------------------------------------------------------------
(* Refinement. *)

\* The steps that are none for the protocol: they neither stop nor release the
\* script, and tell the controller nothing.
LEMMA QuietStep ==
    ASSUME NEW cli, Controllers = {cli}, [Next]_vars,
           ~Break, ~WaitPaused(cli), ~ResumeFromBreakPoint(cli)
    PROVE  UNCHANGED <<stops, Resumable, seen>>
<1> USE DEF Resumable, InBreak, shared, manager, controller
<1>1. CASE Worker
  BY <1>1 DEF Worker, RegisterApplication, RegisterThread, RegisterFrame,
     Publish, SetStack, SetVariables, Report, Leave, Finish, Complete,
     StoreFinished
<1>2. CASE Controller(cli)
  BY <1>2 DEF Controller, LeaveLoop, BeginEvaluate, EndEvaluate, BeginResume,
     FetchInterfaces, ClearPause
<1>3. CASE UNCHANGED vars
  BY <1>3 DEF vars
<1> QED
  BY <1>1, <1>2, <1>3 DEF Next

\* With a sole controller DebugControl implements the safety part of
\* PauseProtocol: stops are told of and released one at a time, in order, and
\* none is released that the controller was not told of.
THEOREM SoleImplementsProtocol ==
    ASSUME NEW cli, Controllers = {cli}
    PROVE  Spec => ImplementsProtocol
<1>1. SoleController = cli
  BY DEF SoleController
<1>2. Init => Protocol!Init
  BY <1>1 DEF Init, Protocol!Init, Resumable, InBreak
<1>3. ASSUME TypeOK, SoleInv(cli), [Next]_vars
      PROVE  [Protocol!Next]_Protocol!vars
  <2> USE <1>1, <1>3 DEF TypeOK, DataOK, shared, manager, controller
  <2>1. CASE Break
    <3>1. Protocol!Stop
      BY <2>1 DEF Break, Protocol!Stop, Resumable, InBreak
    <3> QED
      BY <3>1 DEF Protocol!Next
  <2>2. CASE WaitPaused(cli)
    <3>1. Resumable /\ Resumable'
      BY <2>2 DEF WaitPaused, SoleInv, PauseIsCurrent, Published, Resumable,
         InBreak
    <3>2. Protocol!Tell
      BY <2>2, <3>1 DEF WaitPaused, Protocol!Tell
    <3> QED
      BY <3>2 DEF Protocol!Next
  <2>3. CASE ResumeFromBreakPoint(cli)
    <3>1. CASE Resumable /\ released'
      <4>1. seen[cli] = stops
        BY <2>3 DEF ResumeFromBreakPoint, SoleInv, TalkIsCurrent, Talking
      <4>2. Protocol!Release
        BY <2>3, <3>1, <4>1 DEF ResumeFromBreakPoint, Protocol!Release, Resumable
      <4> QED
        BY <4>2 DEF Protocol!Next
    <3>2. CASE ~(Resumable /\ released')
      BY <2>3, <3>2 DEF ResumeFromBreakPoint, Protocol!vars, Resumable, InBreak
    <3> QED
      BY <3>1, <3>2
  <2>4. CASE ~Break /\ ~WaitPaused(cli) /\ ~ResumeFromBreakPoint(cli)
    BY <2>4, QuietStep DEF Protocol!vars
  <2> QED
    BY <2>1, <2>2, <2>3, <2>4
<1> QED
  BY <1>2, <1>3, SoleInvariant, PTL DEF Spec, ImplementsProtocol, Protocol!Spec

=============================================================================
