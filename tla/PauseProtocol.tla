---------------------------- MODULE PauseProtocol ----------------------------
(***************************************************************************)
(* What DebugControl promises to the one who uses it: the script stops,    *)
(* the controller is told of that stop, the controller releases it, and    *)
(* only then the script can stop again.  A controller that has been told   *)
(* of a stop is able to release it.  The protocol does not promise that    *)
(* the controller is told of every stop: DebugControl may lose one.        *)
(***************************************************************************)
EXTENDS Naturals

VARIABLES
    stop,   \* the number of the last stop
    held,   \* the script is held at it
    told    \* the last stop the controller was told of

vars == <<stop, held, told>>

Init ==
    /\ stop = 0
    /\ held = FALSE
    /\ told = 0

Stop ==
    /\ ~held
    /\ stop' = stop + 1
    /\ held' = TRUE
    /\ UNCHANGED told

Tell ==
    /\ held
    /\ told' = stop
    /\ UNCHANGED <<stop, held>>

Release ==
    /\ held
    /\ told = stop
    /\ held' = FALSE
    /\ UNCHANGED <<stop, told>>

Next == Stop \/ Tell \/ Release

Spec == Init /\ [][Next]_vars

FairSpec == Spec /\ WF_vars(Release)

=============================================================================
