------------------------- MODULE MCActiveScriptHost -------------------------
(***************************************************************************)
(* Instances of ActiveScriptHost for TLC: which requests are considered    *)
(* and which calls may fail.                                               *)
(***************************************************************************)
EXTENDS ActiveScriptHost

\* Whatever the interface of the host admits.
EveryRequest == AllRequests

\* All requests but plain debugging without a DebugControl.
ResumableRequests == {r \in AllRequests : r.debug => r.control}

\* Every phase may fail.
AnyFault == Fallible \cup {"bind"}

\* Only the debug manager may be missing.
NoManager == {"initialize"}

=============================================================================
