------------------------ MODULE MCBreakpointBinding ------------------------
(***************************************************************************)
(* Instances of BreakpointBinding for TLC: the script under two spellings  *)
(* and a file that it includes.                                            *)
(***************************************************************************)
EXTENDS BreakpointBinding

Spellings == {"test.vbs", "sub/../test.vbs", "lib.vbs"}

Normal == [f \in Spellings |-> IF f = "lib.vbs" THEN f ELSE "test.vbs"]

ScriptPath == "sub/../test.vbs"

RemoveAndDisable == {"remove", "disable"}

=============================================================================
