--------------------------- MODULE MCDebugControl ---------------------------
(***************************************************************************)
(* Instances of DebugControl for TLC: which calls into COM may fail.       *)
(***************************************************************************)
EXTENDS DebugControlRefinement

\* Nothing fails.
NoFaults == {}

=============================================================================
