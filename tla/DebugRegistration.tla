------------------------- MODULE DebugRegistration --------------------------
(***************************************************************************)
(* What run may take ActiveDebugServices and DebugDocumentHelper for: an   *)
(* application, a debugger and a document that are registered with the     *)
(* Process Debug Manager or are not.  Each operation is one step, which    *)
(* does all of its work or, where a call of it fails, leaves nothing of    *)
(* it.  DebugServices.tla has the calls; ActiveScriptHost.tla relies on    *)
(* what is said here.                                                      *)
(***************************************************************************)

VARIABLES
    application,   \* the application is registered
    connected,     \* wshdbg is its debugger
    document       \* the document is attached and its block defined

vars == <<application, connected, document>>

Init == ~application /\ ~connected /\ ~document

Initialize ==
    /\ ~application
    /\ application' = TRUE
    /\ UNCHANGED <<connected, document>>

\* Only an application that is registered can be debugged.
Connect ==
    /\ application
    /\ connected' = TRUE
    /\ UNCHANGED <<application, document>>

Disconnect ==
    /\ connected' = FALSE
    /\ UNCHANGED <<application, document>>

\* A document belongs to an application.
Register ==
    /\ application
    /\ document' = TRUE
    /\ UNCHANGED <<application, connected>>

Unregister ==
    /\ document' = FALSE
    /\ UNCHANGED <<application, connected>>

\* The debugger goes with its application.
Shutdown ==
    /\ application' = FALSE
    /\ connected' = FALSE
    /\ UNCHANGED document

Next ==
    \/ Initialize \/ Connect \/ Disconnect
    \/ Register \/ Unregister \/ Shutdown

Spec == Init /\ [][Next]_vars

=============================================================================
