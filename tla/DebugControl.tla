---------------------------- MODULE DebugControl ----------------------------
(***************************************************************************)
(* DebugControl::Impl: the state that the script's worker thread and the   *)
(* threads that control the debugger share under one mutex, with the two   *)
(* sides that use it:                                                      *)
(*                                                                         *)
(*  - the worker runs the script; at every stop the Process Debug Manager  *)
(*    calls ApplicationDebugger::onHandleBreakPoint on it, which puts the  *)
(*    paused COM interfaces in the Global Interface Table, publishes their *)
(*    cookies and then the stack and the variables, and holds the debuggee *)
(*    until somebody calls ResumeFromBreakPoint;                           *)
(*  - a controller runs the loop of wmain: wait for a pause, then evaluate *)
(*    expressions and resume.  It copies the cookies under the mutex and   *)
(*    uses them after having released it.                                  *)
(*                                                                         *)
(* Stops are numbered; the number stands for everything captured at that   *)
(* stop (the cookies, the stack, the variables) and 0 for "none".  For     *)
(* each kind of interface the Global Interface Table holds the stops whose *)
(* interface is registered.                                                *)
(***************************************************************************)
EXTENDS Naturals, FiniteSets

CONSTANTS
    Controllers,   \* threads that call wait/evaluate/resume (the CLI has one)
    MaxStops,      \* bound: how often the script may stop
    Faults         \* which calls into COM may fail in this instance

\* What COM may fail at: the three registrations of capture, creating the
\* interface table in clear_locked, and the two calls of resume.
AllFaults == {"application", "thread", "frame", "revoke", "fetch", "resume"}

ASSUME ControlAssumption ==
    /\ MaxStops \in Nat
    /\ Faults \subseteq AllFaults

Kinds == {"application", "thread", "frame"}
Stops == 0 .. MaxStops
Actions == {"Continue", "Abort"}   \* the steps behave as Continue here

WorkerStates ==
    {"running", "application", "thread", "frame", "publish", "setStack",
     "setVariables", "report", "held", "ended", "closed", "finished"}
ControllerStates ==
    {"wait", "prompt", "evaluate", "fetch", "call", "clear", "exited"}

VARIABLES
    \* DebugControl::Impl, guarded by mutex_
    cookie,        \* application_cookie_, thread_cookie_, frame_cookie_
    stack,         \* stack_: the stop it describes, 0 when empty
    variables,     \* variables_: likewise
    paused,
    completed,
    \* the worker thread
    worker,        \* where it is
    captured,      \* cookies that capture holds in locals, by kind
    \* the Process Debug Manager and the Global Interface Table
    git,           \* interfaces registered, by kind
    stops,         \* stops so far
    released,      \* ResumeFromBreakPoint was accepted for the current stop
    aborting,      \* ... with BREAKRESUMEACTION_ABORT
    unrevoked,     \* history: interfaces whose cookie clear_locked forgot
                   \* without having revoked it, by kind
    \* the controllers
    pc,            \* where each of them is
    copy,          \* the cookies it copied under the mutex
    action,        \* the ResumeAction it was asked for
    seen           \* history: the stop for which its wait returned Paused

shared == <<cookie, stack, variables, paused, completed>>
manager == <<git, stops, released, aborting, unrevoked>>
controller == <<pc, copy, action, seen>>
vars == <<shared, worker, captured, manager, controller>>

NoCookies == [k \in Kinds |-> 0]

FlagsOK ==
    /\ paused \in BOOLEAN
    /\ completed \in BOOLEAN
    /\ released \in BOOLEAN
    /\ aborting \in BOOLEAN

DataOK ==
    /\ cookie \in [Kinds -> Stops]
    /\ stack \in Stops
    /\ variables \in Stops
    /\ worker \in WorkerStates
    /\ captured \subseteq Kinds
    /\ git \in [Kinds -> SUBSET Stops]
    /\ unrevoked \in [Kinds -> SUBSET Stops]
    /\ stops \in Stops
    /\ pc \in [Controllers -> ControllerStates]
    /\ copy \in [Controllers -> [Kinds -> Stops]]
    /\ action \in [Controllers -> Actions]
    /\ seen \in [Controllers -> Stops]

TypeOK == FlagsOK /\ DataOK

Init ==
    /\ cookie = NoCookies
    /\ stack = 0
    /\ variables = 0
    /\ paused = FALSE
    /\ completed = FALSE
    /\ worker = "running"
    /\ captured = {}
    /\ git = [k \in Kinds |-> {}]
    /\ unrevoked = [k \in Kinds |-> {}]
    /\ stops = 0
    /\ released = FALSE
    /\ aborting = FALSE
    /\ pc = [c \in Controllers |-> "wait"]
    /\ copy = [c \in Controllers |-> NoCookies]
    /\ action = [c \in Controllers |-> "Continue"]
    /\ seen = [c \in Controllers |-> 0]

-----------------------------------------------------------------------------
(* The worker thread. *)

\* The debug manager holds the script: onHandleBreakPoint runs, or has
\* returned and nobody has resumed the thread yet.
InBreak ==
    worker \in {"application", "thread", "frame", "publish", "setStack",
                "setVariables", "report", "held"}

\* Mutant: every interface that is registered is revoked.
ClearLockedRevokesAll ==
    /\ git' = [k \in Kinds |-> {}]
    /\ UNCHANGED unrevoked

\* clear_locked: revoke what is stored, if the interface table can be had;
\* the cookies are forgotten in either case.
ClearLocked ==
    \/ /\ git' = [k \in Kinds |-> git[k] \ {cookie[k]}]
       /\ UNCHANGED unrevoked
    \/ /\ "revoke" \in Faults
       /\ unrevoked' = [k \in Kinds |-> unrevoked[k] \cup ({cookie[k]} \ {0})]
       /\ UNCHANGED git

\* The script reaches a breakpoint, ends a step, or fails: the manager calls
\* onHandleBreakPoint.  An aborted script does not stop again.
Break ==
    /\ worker = "running"
    /\ ~aborting
    /\ stops < MaxStops
    /\ stops' = stops + 1
    /\ released' = FALSE
    /\ worker' = "application"
    /\ UNCHANGED <<shared, captured, git, aborting, unrevoked, controller>>

\* capture, first part: the application goes into the interface table.
RegisterApplication ==
    /\ worker = "application"
    /\ \/ /\ git' = [git EXCEPT !["application"] = @ \cup {stops}]
          /\ captured' = {"application"}
          /\ worker' = "thread"
       \/ /\ "application" \in Faults
          /\ worker' = "report"
          /\ UNCHANGED <<git, captured>>
    /\ UNCHANGED <<shared, stops, released, aborting, unrevoked, controller>>

\* Mutant: the failure path of the thread forgets the application.
RegisterThreadNoRollback ==
    /\ worker = "thread"
    /\ \/ /\ git' = [git EXCEPT !["thread"] = @ \cup {stops}]
          /\ captured' = captured \cup {"thread"}
          /\ worker' = "frame"
       \/ /\ "thread" \in Faults
          /\ captured' = {}
          /\ worker' = "report"
          /\ UNCHANGED git
    /\ UNCHANGED <<shared, stops, released, aborting, unrevoked, controller>>

\* capture, second part: the thread.  A failure takes the application back.
RegisterThread ==
    /\ worker = "thread"
    /\ \/ /\ git' = [git EXCEPT !["thread"] = @ \cup {stops}]
          /\ captured' = captured \cup {"thread"}
          /\ worker' = "frame"
       \/ /\ "thread" \in Faults
          /\ git' = [git EXCEPT !["application"] = @ \ {stops}]
          /\ captured' = {}
          /\ worker' = "report"
    /\ UNCHANGED <<shared, stops, released, aborting, unrevoked, controller>>

\* capture, third part: the innermost frame, which is optional.
RegisterFrame ==
    /\ worker = "frame"
    /\ \/ /\ git' = [git EXCEPT !["frame"] = @ \cup {stops}]
          /\ captured' = captured \cup {"frame"}
       \/ /\ "frame" \in Faults
          /\ UNCHANGED <<git, captured>>
    /\ worker' = "publish"
    /\ UNCHANGED <<shared, stops, released, aborting, unrevoked, controller>>

\* Mutant: the inspection data of the last stop is kept.
PublishKeepsInspection ==
    /\ worker = "publish"
    /\ ClearLocked
    /\ cookie' = [k \in Kinds |-> IF k \in captured THEN stops ELSE 0]
    /\ paused' = TRUE
    /\ completed' = FALSE
    /\ captured' = {}
    /\ worker' = "setStack"
    /\ UNCHANGED <<stack, variables, stops, released, aborting, controller>>

\* capture, under the mutex: the old cookies are revoked and the new ones
\* stored, the inspection data of the last stop is dropped, waiters are told.
Publish ==
    /\ worker = "publish"
    /\ ClearLocked
    /\ cookie' = [k \in Kinds |-> IF k \in captured THEN stops ELSE 0]
    /\ stack' = 0
    /\ variables' = 0
    /\ paused' = TRUE
    /\ completed' = FALSE
    /\ captured' = {}
    /\ worker' = "setStack"
    /\ UNCHANGED <<stops, released, aborting, controller>>

\* capture_stack and capture_variables read the stopped thread: what they
\* return is of the current stop, or empty when its frames cannot be had.
CapturedStack == {stops} \cup (IF "frame" \in Faults THEN {0} ELSE {})
CapturedVariables == {stops} \cup (IF "frame" \in Faults THEN {0} ELSE {})

\* set_stack(capture_stack(thread)).
SetStack ==
    /\ worker = "setStack"
    /\ stack' \in CapturedStack
    /\ worker' = "setVariables"
    /\ UNCHANGED <<cookie, variables, paused, completed, captured, manager,
                   controller>>

\* set_variables(capture_variables(thread)).
SetVariables ==
    /\ worker = "setVariables"
    /\ variables' \in CapturedVariables
    /\ worker' = "report"
    /\ UNCHANGED <<cookie, stack, paused, completed, captured, manager,
                   controller>>

\* The rest of onHandleBreakPoint: the session is told.  It returns S_OK even
\* when capture failed, and the manager keeps the script stopped.
Report ==
    /\ worker = "report"
    /\ worker' = "held"
    /\ UNCHANGED <<shared, captured, manager, controller>>

\* The manager lets the script go on.
Leave ==
    /\ worker = "held"
    /\ released
    /\ worker' = "running"
    /\ UNCHANGED <<shared, captured, manager, controller>>

\* The script ends, or is aborted.
Finish ==
    /\ worker = "running"
    /\ worker' = "ended"
    /\ UNCHANGED <<shared, captured, manager, controller>>

\* onClose, when the manager delivers it: complete().
Complete ==
    /\ worker = "ended"
    /\ ClearLocked
    /\ cookie' = NoCookies
    /\ paused' = FALSE
    /\ completed' = TRUE
    /\ worker' = "closed"
    /\ UNCHANGED <<stack, variables, captured, stops, released, aborting,
                   controller>>

\* host.run returns and the worker stores finished.
StoreFinished ==
    /\ worker \in {"ended", "closed"}
    /\ worker' = "finished"
    /\ UNCHANGED <<shared, captured, manager, controller>>

-----------------------------------------------------------------------------
(* A controller. *)

\* wait() returns Paused.  (It may also time out, or return Completed: the
\* loop of wmain then comes back to where it was.)
WaitPaused(c) ==
    /\ pc[c] = "wait"
    /\ worker # "finished"
    /\ paused
    /\ pc' = [pc EXCEPT ![c] = "prompt"]
    /\ seen' = [seen EXCEPT ![c] = stops]
    /\ UNCHANGED <<shared, worker, captured, manager, copy, action>>

\* Both loops of wmain test finished; the outer one is left for good.  (A
\* prompt may have tested it already and still be waiting for its command.)
LeaveLoop(c) ==
    /\ pc[c] \in {"wait", "prompt"}
    /\ worker = "finished"
    /\ pc' = [pc EXCEPT ![c] = "exited"]
    /\ UNCHANGED <<shared, worker, captured, manager, copy, action, seen>>

\* evaluate and execute, under the mutex: the frame's cookie is copied.
\* Without a frame they return an error, and nothing changes.
BeginEvaluate(c) ==
    /\ pc[c] = "prompt"
    /\ paused
    /\ cookie["frame"] # 0
    /\ copy' = [copy EXCEPT ![c] = [NoCookies EXCEPT !["frame"] = cookie["frame"]]]
    /\ pc' = [pc EXCEPT ![c] = "evaluate"]
    /\ UNCHANGED <<shared, worker, captured, manager, action, seen>>

\* evaluate and execute, without the mutex: the expression runs in the frame,
\* or fails; either way the prompt comes back.
EndEvaluate(c) ==
    /\ pc[c] = "evaluate"
    /\ pc' = [pc EXCEPT ![c] = "prompt"]
    /\ UNCHANGED <<shared, worker, captured, manager, copy, action, seen>>

\* Mutant: resume insists on a frame, as evaluate does.
BeginResumeNeedsFrame(c) ==
    /\ pc[c] = "prompt"
    /\ paused
    /\ \A k \in Kinds : cookie[k] # 0
    /\ \E a \in Actions : action' = [action EXCEPT ![c] = a]
    /\ copy' = [copy EXCEPT ![c] = [cookie EXCEPT !["frame"] = 0]]
    /\ pc' = [pc EXCEPT ![c] = "fetch"]
    /\ UNCHANGED <<shared, worker, captured, manager, seen>>

\* resume, under the mutex: the cookies are copied.  When nothing is paused it
\* returns an error, and nothing changes.
BeginResume(c) ==
    /\ pc[c] = "prompt"
    /\ paused
    /\ cookie["application"] # 0
    /\ cookie["thread"] # 0
    /\ \E a \in Actions : action' = [action EXCEPT ![c] = a]
    /\ copy' = [copy EXCEPT ![c] = [cookie EXCEPT !["frame"] = 0]]
    /\ pc' = [pc EXCEPT ![c] = "fetch"]
    /\ UNCHANGED <<shared, worker, captured, manager, seen>>

\* The interfaces behind the copied cookies are still in the table.
Fetchable(c) ==
    \A k \in {"application", "thread"} : copy[c][k] \in git[k]

\* resume, without the mutex: both interfaces are fetched from the table.
FetchInterfaces(c) ==
    /\ pc[c] = "fetch"
    /\ \/ /\ Fetchable(c)
          /\ pc' = [pc EXCEPT ![c] = "call"]
       \/ /\ ~Fetchable(c) \/ "fetch" \in Faults
          /\ pc' = [pc EXCEPT ![c] = "prompt"]
    /\ UNCHANGED <<shared, worker, captured, manager, copy, action, seen>>

\* The debug manager accepts a resume once per stop.
Resumable == InBreak /\ ~released

\* Mutant: an accepted resume does not clear the pause.
ResumeFromBreakPointNoClear(c) ==
    /\ pc[c] = "call"
    /\ \/ /\ Resumable
          /\ released' = TRUE
          /\ aborting' = (action[c] = "Abort")
          /\ pc' = [pc EXCEPT ![c] = "wait"]
       \/ /\ ~Resumable \/ "resume" \in Faults
          /\ pc' = [pc EXCEPT ![c] = "prompt"]
          /\ UNCHANGED <<released, aborting>>
    /\ UNCHANGED <<shared, worker, captured, git, stops, unrevoked, copy, action,
                   seen>>

\* resume, without the mutex: ResumeFromBreakPoint.
ResumeFromBreakPoint(c) ==
    /\ pc[c] = "call"
    /\ \/ /\ Resumable
          /\ released' = TRUE
          /\ aborting' = (action[c] = "Abort")
          /\ pc' = [pc EXCEPT ![c] = "clear"]
       \/ /\ ~Resumable \/ "resume" \in Faults
          /\ pc' = [pc EXCEPT ![c] = "prompt"]
          /\ UNCHANGED <<released, aborting>>
    /\ UNCHANGED <<shared, worker, captured, git, stops, unrevoked, copy, action,
                   seen>>

\* Mutant: the cookies are revoked but the pause stays.
ClearPauseStaysPaused(c) ==
    /\ pc[c] = "clear"
    /\ ClearLocked
    /\ cookie' = NoCookies
    /\ pc' = [pc EXCEPT ![c] = "wait"]
    /\ UNCHANGED <<paused, stack, variables, completed, worker, captured, stops,
                   released, aborting, copy, action, seen>>

\* Mutant: the loop of wmain keeps prompting after a successful resume.
ClearPauseKeepsPrompt(c) ==
    /\ pc[c] = "clear"
    /\ ClearLocked
    /\ cookie' = NoCookies
    /\ paused' = FALSE
    /\ pc' = [pc EXCEPT ![c] = "prompt"]
    /\ UNCHANGED <<stack, variables, completed, worker, captured, stops,
                   released, aborting, copy, action, seen>>

\* resume, under the mutex again: whatever is stored now is cleared.
ClearPause(c) ==
    /\ pc[c] = "clear"
    /\ ClearLocked
    /\ cookie' = NoCookies
    /\ paused' = FALSE
    /\ pc' = [pc EXCEPT ![c] = "wait"]
    /\ UNCHANGED <<stack, variables, completed, worker, captured, stops,
                   released, aborting, copy, action, seen>>

-----------------------------------------------------------------------------
Worker ==
    \/ Break \/ RegisterApplication \/ RegisterThread \/ RegisterFrame
    \/ Publish \/ SetStack \/ SetVariables \/ Report
    \/ Leave \/ Finish \/ Complete \/ StoreFinished

Controller(c) ==
    \/ WaitPaused(c) \/ LeaveLoop(c)
    \/ BeginEvaluate(c) \/ EndEvaluate(c)
    \/ BeginResume(c) \/ FetchInterfaces(c) \/ ResumeFromBreakPoint(c)
    \/ ClearPause(c)

Next == Worker \/ \E c \in Controllers : Controller(c)

Spec == Init /\ [][Next]_vars

-----------------------------------------------------------------------------
(* Properties. *)

\* Every cookie the debugger holds, in its shared state or in the locals of a
\* capture under way, names an interface that is registered: neither
\* clear_locked (run by a controller while a capture is half done) nor the
\* failure path of capture takes away a cookie that is still to be used.
CookiesAreRegistered ==
    \A k \in Kinds :
        /\ cookie[k] # 0 => cookie[k] \in git[k]
        /\ k \in captured => stops \in git[k]

\* No interface stays registered once its cookie is lost: the failure path of
\* capture and clear_locked revoke all they forget, but for what clear_locked
\* forgets when it cannot have the interface table.
NothingLeaks ==
    \A k \in Kinds : \A i \in git[k] \ unrevoked[k] :
        i # 0 /\ (i = cookie[k] \/ (i = stops /\ k \in captured))

\* While a controller that was told of a pause prompts, evaluates or resumes,
\* the debuggee is still held at the stop it was told of, and the cookies it
\* copied under the mutex are those of that stop and still registered, even
\* though it uses them after having released the mutex.  (For one controller:
\* a second one may resume in between.)
CommandsReachSeenStop ==
    \A c \in Controllers :
        /\ pc[c] \in {"prompt", "evaluate", "fetch", "call"} =>
              Resumable /\ paused /\ seen[c] = stops
        /\ pc[c] \in {"evaluate", "fetch", "call"} =>
              \A k \in Kinds :
                 copy[c][k] # 0 => copy[c][k] = stops /\ stops \in git[k]

\* The debuggee is only ever released by a controller whose wait() reported
\* the very stop that is released: no command given at one stop takes effect
\* at a later one.
ReleaseTargetsSeenStop ==
    [][~released /\ released' =>
          \E c \in Controllers : pc[c] = "call" /\ seen[c] = stops]_vars

\* What a prompting controller can read with stack() and variables() is of the
\* stop it prompts for, or still empty: never of an earlier stop, although
\* capture publishes the pause before the two are set.
NoStaleInspection ==
    \A c \in Controllers :
        pc[c] \in {"prompt", "evaluate", "fetch", "call"} =>
            {stack, variables} \subseteq {0, seen[c]}

\* No phantom pause: when the script is not held and no resume is about to
\* clear the state, the debugger does not claim to be paused and has no
\* interface registered but those that it could not revoke.
NoPhantomPause ==
    (~InBreak /\ \A c \in Controllers : pc[c] # "clear") =>
        /\ ~paused
        /\ \A k \in Kinds : git[k] \subseteq unrevoked[k]

\* What the integration test relies on (it waits for each pause and resumes it
\* until the script ends): a stop captured without error is offered to the
\* controller, unless a resume is just being completed.
StopReachesController ==
    (worker = "held" /\ ~released /\ \A c \in Controllers : pc[c] # "clear") =>
        paused

\* What the integration test says of a pause: when wait() has returned Paused,
\* stack() has at least one frame.
StackReadyAtPrompt ==
    \A c \in Controllers : pc[c] = "prompt" => stack # 0

=============================================================================
