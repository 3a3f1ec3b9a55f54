-------------------------- MODULE MCDebuggerSystem --------------------------
(***************************************************************************)
(* Instances of DebuggerSystem for TLC: the requests of wmain that debug,  *)
(* and which calls may fail.                                               *)
(***************************************************************************)
EXTENDS DebuggerSystem

\* What wmain calls run with when it debugs (Launch of CommandLine.tla).
DebugRequests ==
    [debug : {TRUE}, entry : BOOLEAN, breakpoints : SUBSET Breakpoints,
     control : {TRUE}]

\* Everything may fail in run.
AnyHostFault ==
    {"com", "read", "engine", "initialize", "connect", "site", "register",
     "parse", "bind", "entry", "start", "close"}

\* In DebugControl, capture and the revocation may fail.  (A resume that fails
\* for ever leaves the prompt where it is.)
CaptureFails == {"application", "thread", "frame", "revoke"}

=============================================================================
