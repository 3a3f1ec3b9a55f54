--------------------------- MODULE MCDebugDocument ---------------------------
(***************************************************************************)
(* The instance of DebugDocument for TLC: every text of up to MaxSize      *)
(* characters, and numbers small enough for the sum to wrap.               *)
(***************************************************************************)
EXTENDS DebugDocument

=============================================================================
