--------------------------- MODULE MCDebugSession ---------------------------
(***************************************************************************)
(* The instance of DebugSession for TLC: the handler that subscribed last  *)
(* may call back.                                                          *)
(***************************************************************************)
EXTENDS DebugSession

LastReentrant == {MaxHandlers}

=============================================================================
