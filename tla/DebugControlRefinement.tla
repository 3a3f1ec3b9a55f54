----------------------- MODULE DebugControlRefinement -----------------------
(***************************************************************************)
(* DebugControl with a sole controller implements PauseProtocol: a stop is *)
(* held from onHandleBreakPoint until a ResumeFromBreakPoint is accepted,  *)
(* and the controller is told of it when its wait() returns Paused.        *)
(***************************************************************************)
EXTENDS DebugControl

SoleController == CHOOSE c \in Controllers : TRUE

Protocol == INSTANCE PauseProtocol
    WITH stop <- stops, held <- Resumable, told <- seen[SoleController]

\* Every step is a step of the protocol or none: stops are told of and released
\* one at a time and in order, however publication, evaluation and the resume,
\* which works on the debuggee outside the mutex, interleave with the worker.
ImplementsProtocol == Protocol!Spec

\* And under the fairness of the threads (DebuggerSystem.tla) the user whom
\* wait() told of a stop is able to release it in the end.
SeenStopIsReleased == Protocol!FairSpec

=============================================================================
