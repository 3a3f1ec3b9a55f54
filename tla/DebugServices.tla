---------------------------- MODULE DebugServices ----------------------------
(***************************************************************************)
(* ActiveDebugServices and DebugDocumentHelper: what wshdbg has registered *)
(* with the Process Debug Manager, and what it remembers of it.  run uses  *)
(* them in one order (ActiveScriptHost.tla); here their operations are     *)
(* called in any, each of their calls into the manager may fail half-way,  *)
(* and both objects are destroyed in the end, the document first.          *)
(*                                                                         *)
(* Applications and documents are numbered as the manager creates them; 0  *)
(* is a null pointer, or no cookie.                                        *)
(***************************************************************************)
EXTENDS Naturals

CONSTANTS
    MaxApplications,   \* bound: applications created
    MaxDocuments,      \* bound: document helpers created
    Faults             \* which calls into the manager may fail

InitializeCalls == {"manager", "create", "name", "add"}
RegisterCalls == {"helper", "init", "attach", "text", "block"}

ASSUME ServicesAssumption ==
    /\ MaxApplications \in Nat
    /\ MaxDocuments \in Nat
    /\ Faults \subseteq
          InitializeCalls \cup RegisterCalls \cup {"disconnect"}

Applications == 1 .. MaxApplications
Documents == 1 .. MaxDocuments

VARIABLES
    services,   \* the fields of ActiveDebugServices
    document,   \* the fields of DebugDocumentHelper
    step,       \* the call that initialize or register_document comes to
    pdm,        \* what the manager knows of
    created,    \* applications and documents created so far
    alive       \* the objects that have not been destroyed

vars == <<services, document, step, pdm, created, alive>>

TypeOK ==
    /\ services \in [manager : BOOLEAN, application : 0 .. created.applications,
                     cookie : {0, services.application}, debugger : BOOLEAN]
    /\ document \in [helper : 0 .. created.documents, context : BOOLEAN]
    /\ step \in {"idle"} \cup InitializeCalls \cup RegisterCalls
    /\ pdm \in [applications : SUBSET Applications,  \* added, not removed
                debugged : SUBSET Applications,      \* wshdbg is connected
                documents : SUBSET Documents]        \* attached
    /\ created \in [applications : 0 .. MaxApplications,
                    documents : 0 .. MaxDocuments]
    /\ alive \subseteq {"services", "document"}

NoServices ==
    [manager |-> FALSE, application |-> 0, cookie |-> 0, debugger |-> FALSE]

NoDocument == [helper |-> 0, context |-> FALSE]

Init ==
    /\ services = NoServices
    /\ document = NoDocument
    /\ step = "idle"
    /\ pdm = [applications |-> {}, debugged |-> {}, documents |-> {}]
    /\ created = [applications |-> 0, documents |-> 0]
    /\ alive = {"services", "document"}

-----------------------------------------------------------------------------
(* ActiveDebugServices. *)

\* available().
Available == services.manager /\ services.application # 0

\* Mutant: the flag outlives the application it told of.
ShutDownKeepsFlag ==
    /\ services' = [NoServices EXCEPT !.debugger = services.debugger]
    /\ pdm' = [pdm EXCEPT
                  !.debugged = @ \ {services.application},
                  !.applications = IF services.manager THEN @ \ {services.cookie}
                                                       ELSE @]

\* shutdown: the debugger is disconnected, the application removed if it was
\* added, and all is forgotten.  (That the call to disconnect may fail changes
\* nothing any more: with the application goes whoever debugs it.)
ShutDown ==
    /\ services' = NoServices
    /\ pdm' = [pdm EXCEPT
                  !.debugged = @ \ {services.application},
                  !.applications = IF services.manager THEN @ \ {services.cookie}
                                                       ELSE @]

\* initialize begins with shutdown and then asks for the manager.
BeginInitialize ==
    /\ step = "idle"
    /\ "services" \in alive
    /\ ShutDown
    /\ step' = "manager"
    /\ UNCHANGED <<document, created, alive>>

\* A call of initialize is made: it does what done says and next comes, or it
\* fails and initialize shuts down.
InitializeCall(call, next, done) ==
    /\ step = call
    /\ \/ done /\ step' = next
       \/ call \in Faults /\ step' = "idle" /\ ShutDown /\ UNCHANGED created
    /\ UNCHANGED <<document, alive>>

\* Without a manager there is nothing to shut down, and the code does not.
CreateManager ==
    InitializeCall("manager", "create",
        /\ services' = [services EXCEPT !.manager = TRUE]
        /\ UNCHANGED <<pdm, created>>)

CreateApplication ==
    InitializeCall("create", "name",
        /\ created.applications < MaxApplications
        /\ created' = [created EXCEPT !.applications = @ + 1]
        /\ services' = [services EXCEPT !.application = created.applications + 1]
        /\ UNCHANGED pdm)

\* Mutant: the failure path of SetName returns at once.
SetNameFailsKept ==
    /\ step = "name"
    /\ \/ step' = "add"
       \/ "name" \in Faults /\ step' = "idle"
    /\ UNCHANGED <<services, document, pdm, created, alive>>

SetName == InitializeCall("name", "add", UNCHANGED <<services, pdm, created>>)

AddApplication ==
    InitializeCall("add", "idle",
        /\ services' = [services EXCEPT !.cookie = services.application]
        /\ pdm' = [pdm EXCEPT !.applications = @ \cup {services.application}]
        /\ UNCHANGED created)

\* connect_debugger.  When it fails, or is asked for twice, nothing changes.
ConnectDebugger ==
    /\ step = "idle"
    /\ services.application # 0
    /\ ~services.debugger
    /\ services' = [services EXCEPT !.debugger = TRUE]
    /\ pdm' = [pdm EXCEPT !.debugged = @ \cup {services.application}]
    /\ UNCHANGED <<document, step, created, alive>>

\* disconnect_debugger: the flag is cleared even when the call fails.
DisconnectDebugger ==
    /\ step = "idle"
    /\ services.application # 0
    /\ services.debugger
    /\ services' = [services EXCEPT !.debugger = FALSE]
    /\ \/ pdm' = [pdm EXCEPT !.debugged = @ \ {services.application}]
       \/ "disconnect" \in Faults /\ UNCHANGED pdm
    /\ UNCHANGED <<document, step, created, alive>>

\* shutdown, called by the owner.
Shutdown ==
    /\ step = "idle"
    /\ "services" \in alive
    /\ ShutDown
    /\ UNCHANGED <<document, step, created, alive>>

-----------------------------------------------------------------------------
(* DebugDocumentHelper. *)

\* unregister_document: the helper is detached and released.
Unregister ==
    /\ document' = NoDocument
    /\ pdm' = [pdm EXCEPT !.documents = @ \ {document.helper}]

\* Mutant: register_document does not ask for the application.
BeginRegisterUnchecked ==
    /\ step = "idle"
    /\ "document" \in alive
    /\ Unregister
    /\ step' = "helper"
    /\ UNCHANGED <<services, created, alive>>

\* register_document begins with unregister_document, and goes on if there is
\* an application.
BeginRegister ==
    /\ step = "idle"
    /\ "document" \in alive
    /\ Unregister
    /\ step' = IF Available THEN "helper" ELSE "idle"
    /\ UNCHANGED <<services, created, alive>>

\* A call of register_document, like one of initialize.
RegisterCall(call, next, done) ==
    /\ step = call
    /\ \/ done /\ step' = next
       \/ call \in Faults /\ step' = "idle" /\ Unregister /\ UNCHANGED created
    /\ UNCHANGED <<services, alive>>

CreateHelper ==
    RegisterCall("helper", "init",
        /\ created.documents < MaxDocuments
        /\ created' = [created EXCEPT !.documents = @ + 1]
        /\ document' = [document EXCEPT !.helper = created.documents + 1]
        /\ UNCHANGED pdm)

InitHelper ==
    RegisterCall("init", "attach", UNCHANGED <<document, pdm, created>>)

Attach ==
    RegisterCall("attach", "text",
        /\ pdm' = [pdm EXCEPT !.documents = @ \cup {document.helper}]
        /\ UNCHANGED <<document, created>>)

AddText == RegisterCall("text", "block", UNCHANGED <<document, pdm, created>>)

\* Mutant: the last failure path returns at once.
DefineScriptBlockFailsKept ==
    /\ step = "block"
    /\ step' = "idle"
    /\ \/ document' = [document EXCEPT !.context = TRUE]
       \/ "block" \in Faults /\ UNCHANGED document
    /\ UNCHANGED <<services, pdm, created, alive>>

DefineScriptBlock ==
    RegisterCall("block", "idle",
        /\ document' = [document EXCEPT !.context = TRUE]
        /\ UNCHANGED <<pdm, created>>)

\* unregister_document, called by the owner.
UnregisterDocument ==
    /\ step = "idle"
    /\ "document" \in alive
    /\ Unregister
    /\ UNCHANGED <<services, step, created, alive>>

-----------------------------------------------------------------------------
(* The destructors. *)

DestroyDocument ==
    /\ step = "idle"
    /\ "document" \in alive
    /\ Unregister
    /\ alive' = alive \ {"document"}
    /\ UNCHANGED <<services, step, created>>

\* run declares the helper after the services, so it goes first.
DestroyServices ==
    /\ step = "idle"
    /\ alive = {"services"}
    /\ ShutDown
    /\ alive' = {}
    /\ UNCHANGED <<document, step, created>>

Next ==
    \/ BeginInitialize \/ CreateManager \/ CreateApplication \/ SetName
    \/ AddApplication \/ ConnectDebugger \/ DisconnectDebugger \/ Shutdown
    \/ BeginRegister \/ CreateHelper \/ InitHelper \/ Attach \/ AddText
    \/ DefineScriptBlock \/ UnregisterDocument
    \/ DestroyDocument \/ DestroyServices

Spec == Init /\ [][Next]_vars

-----------------------------------------------------------------------------
\* DebugServices as the registration that run takes it for: what the manager
\* knows.  A document that is attached counts once its block is defined.
Registration ==
    INSTANCE DebugRegistration
        WITH application <- pdm.applications # {},
             connected <- pdm.debugged # {},
             document <- document.context /\ pdm.documents # {}

-----------------------------------------------------------------------------
(* Properties. *)

\* Each operation is one step of the registration, or none: what a call that
\* fails half-way has registered or kept is never seen between operations, and
\* no debugger is connected and no document defined without an application
\* that is registered.
ImplementsRegistration == Registration!Spec

\* The one thing if it is there, none otherwise.
Only(x) == {x} \ {0}

\* What the manager has registered is the one application whose cookie is held,
\* whatever was initialised before and wherever that failed; and available()
\* holds only for an application that is registered.
ApplicationAgrees ==
    /\ pdm.applications = Only(services.cookie)
    /\ step = "idle" /\ Available => services.cookie = services.application

\* debugger_connected_ tells the truth: the flag is never left from an earlier
\* application, nor a connection without it.  (A failing DisconnectDebugger
\* leaves one until the application goes.)
DebuggerAgrees ==
    /\ services.debugger => services.application \in pdm.debugged
    /\ pdm.debugged \subseteq
          IF services.debugger \/ "disconnect" \in Faults
            THEN Only(services.application) ELSE {}

\* registered() means what the binder and the site take it for: the document is
\* attached and its script block defined; and no other document is attached.
DocumentAgrees ==
    /\ pdm.documents \subseteq Only(document.helper)
    /\ step = "idle" /\ document.helper # 0 =>
          document.context /\ document.helper \in pdm.documents

\* Once both objects are gone, the manager knows nothing of wshdbg.
NothingLeft ==
    alive = {} => pdm = [applications |-> {}, debugged |-> {}, documents |-> {}]

=============================================================================
