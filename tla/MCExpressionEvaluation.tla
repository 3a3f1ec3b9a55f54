----------------------- MODULE MCExpressionEvaluation -----------------------
(***************************************************************************)
(* Instances of ExpressionEvaluation for TLC: which calls may fail.        *)
(***************************************************************************)
EXTENDS ExpressionEvaluation

AllFail == AllFaults

=============================================================================
