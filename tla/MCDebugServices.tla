--------------------------- MODULE MCDebugServices ---------------------------
(***************************************************************************)
(* Instances of DebugServices for TLC: which calls may fail.               *)
(***************************************************************************)
EXTENDS DebugServices

AllFail == InitializeCalls \cup RegisterCalls \cup {"disconnect"}

=============================================================================
