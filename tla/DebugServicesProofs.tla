------------------------- MODULE DebugServicesProofs -------------------------
(***************************************************************************)
(* What TLAPS proves of DebugServices, for any number of applications and  *)
(* documents, operations in any order, and whichever calls fail.           *)
(*                                                                         *)
(* The argument: between operations the objects hold all or nothing, and   *)
(* in the middle of one exactly what the calls made so far have left.      *)
(***************************************************************************)
EXTENDS DebugServices, TLAPS

RecordsOK ==
    /\ services \in [manager : BOOLEAN, application : Nat, cookie : Nat,
                     debugger : BOOLEAN]
    /\ document \in [helper : Nat, context : BOOLEAN]
    /\ pdm \in [applications : SUBSET Nat, debugged : SUBSET Nat,
                documents : SUBSET Nat]
    /\ created \in [applications : Nat, documents : Nat]
    /\ step \in {"idle"} \cup InitializeCalls \cup RegisterCalls

\* What initialize has come to, and what is there when it is not under way.
ServicesSoFar ==
    /\ step \in {"manager", "create"} =>
          services.application = 0 /\ services.cookie = 0 /\ ~services.debugger
    /\ step \in {"create", "name", "add"} => services.manager
    /\ step \in {"name", "add"} =>
          services.application # 0 /\ services.cookie = 0 /\ ~services.debugger
    /\ step \notin InitializeCalls =>
          /\ services.cookie = services.application
          /\ services.application # 0 => services.manager
          /\ services.application = 0 => ~services.debugger

\* What the manager knows of applications and debuggers.
ManagerAgrees ==
    /\ pdm.applications = Only(services.cookie)
    /\ pdm.debugged \subseteq Only(services.application)
    /\ services.debugger => services.application \in pdm.debugged
    /\ "disconnect" \notin Faults /\ ~services.debugger => pdm.debugged = {}

\* What register_document has come to, and what is there otherwise.
DocumentSoFar ==
    /\ pdm.documents \subseteq Only(document.helper)
    /\ step = "helper" => document.helper = 0
    /\ step \in {"text", "block"} =>
          document.helper # 0 /\ document.helper \in pdm.documents
    /\ step \notin RegisterCalls /\ document.helper # 0 =>
          document.context /\ document.helper \in pdm.documents
    /\ step \in {"init", "attach"} => document.helper # 0

\* The document goes first, and each leaves nothing behind.
Lifetimes ==
    /\ alive \in {{"services", "document"}, {"services"}, {}}
    /\ "document" \notin alive => document.helper = 0 /\ step \notin RegisterCalls
    /\ alive = {} => services.application = 0 /\ services.cookie = 0 /\ step = "idle"

Inv ==
    /\ RecordsOK
    /\ ServicesSoFar /\ ManagerAgrees
    /\ DocumentSoFar /\ Lifetimes

-----------------------------------------------------------------------------
\* What shutdown leaves: nothing of the services, and the documents.
LEMMA ShutDownLeaves ==
    ASSUME RecordsOK, ServicesSoFar, ManagerAgrees, ShutDown
    PROVE  /\ services' = NoServices
           /\ pdm' = [applications |-> {}, debugged |-> {},
                      documents |-> pdm.documents]
<1>1. services' = NoServices
  BY DEF ShutDown
<1>2. pdm' = [applications |-> IF services.manager
                                 THEN pdm.applications \ {services.cookie}
                                 ELSE pdm.applications,
              debugged |-> pdm.debugged \ {services.application},
              documents |-> pdm.documents]
  BY DEF ShutDown, RecordsOK
<1>3. pdm.debugged \ {services.application} = {}
  BY DEF ManagerAgrees, Only
<1>4. services.manager => pdm.applications \ {services.cookie} = {}
  BY DEF ManagerAgrees, Only
<1>5. ~services.manager => services.cookie = 0
  BY DEF ServicesSoFar, RecordsOK, InitializeCalls
<1>6. ~services.manager => pdm.applications = {}
  BY <1>5 DEF ManagerAgrees, Only
<1> QED
  BY <1>1, <1>2, <1>3, <1>4, <1>6

\* And what unregister_document leaves: no document.
LEMMA UnregisterLeaves ==
    ASSUME RecordsOK, DocumentSoFar, Unregister
    PROVE  /\ document' = NoDocument
           /\ pdm' = [applications |-> pdm.applications,
                      debugged |-> pdm.debugged, documents |-> {}]
<1>1. pdm' = [applications |-> pdm.applications, debugged |-> pdm.debugged,
              documents |-> pdm.documents \ {document.helper}]
  BY DEF Unregister, RecordsOK
<1>2. pdm.documents \ {document.helper} = {}
  BY DEF DocumentSoFar, Only
<1> QED
  BY <1>1, <1>2 DEF Unregister

LEMMA InitInv == Init => Inv
  BY DEF Init, Inv, RecordsOK, ServicesSoFar, ManagerAgrees, DocumentSoFar,
         Lifetimes, NoServices, NoDocument, Only, InitializeCalls, RegisterCalls

\* A step that shuts the services down, and leaves the document alone.
LEMMA ShutDownInv ==
    ASSUME Inv, ShutDown, UNCHANGED document,
           step \notin RegisterCalls, step' \in {"idle", "manager"},
           created' = created,
           \/ alive' = alive /\ "services" \in alive
           \/ alive = {"services"} /\ alive' = {} /\ step' = "idle"
    PROVE  Inv'
<1> USE DEF Inv
<1>1. /\ services' = NoServices
      /\ pdm' = [applications |-> {}, debugged |-> {}, documents |-> pdm.documents]
  BY ShutDownLeaves
<1>2. RecordsOK'
  BY <1>1 DEF RecordsOK, NoServices, InitializeCalls
<1>3. ServicesSoFar' /\ ManagerAgrees'
  BY <1>1 DEF ServicesSoFar, ManagerAgrees, NoServices, Only, InitializeCalls
<1>4. DocumentSoFar'
  BY <1>1 DEF DocumentSoFar, RegisterCalls
<1>5. Lifetimes'
  BY <1>1 DEF Lifetimes, NoServices, RegisterCalls
<1> QED
  BY <1>2, <1>3, <1>4, <1>5

\* A step that unregisters the document, and leaves the services alone.
LEMMA UnregisterInv ==
    ASSUME Inv, Unregister, UNCHANGED services,
           step \notin InitializeCalls,
           step' \in {"idle", "helper"},
           created' = created,
           "document" \in alive,
           \/ alive' = alive
           \/ alive' = alive \ {"document"} /\ step' = "idle"
    PROVE  Inv'
<1> USE DEF Inv
<1>1. /\ document' = NoDocument
      /\ pdm' = [applications |-> pdm.applications, debugged |-> pdm.debugged,
                 documents |-> {}]
  BY UnregisterLeaves
<1>2. RecordsOK'
  BY <1>1 DEF RecordsOK, NoDocument, RegisterCalls
<1>3. ServicesSoFar' /\ ManagerAgrees'
  BY <1>1 DEF ServicesSoFar, ManagerAgrees, InitializeCalls
<1>4. DocumentSoFar'
  BY <1>1 DEF DocumentSoFar, NoDocument, RegisterCalls
<1>5. Lifetimes'
  BY <1>1 DEF Lifetimes, NoDocument, RegisterCalls
<1> QED
  BY <1>2, <1>3, <1>4, <1>5

-----------------------------------------------------------------------------
\* A call of initialize that fails shuts the services down.
LEMMA InitializeFails ==
    ASSUME Inv, NEW call \in InitializeCalls, NEW next, NEW done,
           InitializeCall(call, next, done)
    PROVE  (done /\ step = call /\ step' = next /\ UNCHANGED <<document, alive>>) \/ Inv'
<1>1. step = call /\ UNCHANGED <<document, alive>>
  BY DEF InitializeCall
<1>2. CASE step' = "idle" /\ ShutDown /\ UNCHANGED created
  <2>1. "services" \in alive
    BY <1>1 DEF Inv, Lifetimes, InitializeCalls
  <2> QED
    BY <1>1, <1>2, <2>1, ShutDownInv DEF InitializeCalls, RegisterCalls
<1> QED
  BY <1>1, <1>2 DEF InitializeCall

\* A call of register_document that fails unregisters the document.
LEMMA RegisterFails ==
    ASSUME Inv, NEW call \in RegisterCalls, NEW next, NEW done,
           RegisterCall(call, next, done)
    PROVE  (done /\ step = call /\ step' = next /\ UNCHANGED <<services, alive>>) \/ Inv'
<1>1. step = call /\ UNCHANGED <<services, alive>>
  BY DEF RegisterCall
<1>2. CASE step' = "idle" /\ Unregister /\ UNCHANGED created
  <2>1. "document" \in alive
    BY <1>1 DEF Inv, Lifetimes
  <2> QED
    BY <1>1, <1>2, <2>1, UnregisterInv DEF InitializeCalls, RegisterCalls
<1> QED
  BY <1>1, <1>2 DEF RegisterCall

LEMMA CreateManagerInv == Inv /\ CreateManager => Inv'
<1> SUFFICES ASSUME Inv, CreateManager,
                    services' = [services EXCEPT !.manager = TRUE],
                    step = "manager", step' = "create",
                    UNCHANGED <<pdm, created, document, alive>>
             PROVE  Inv'
  BY InitializeFails DEF CreateManager, InitializeCalls
<1>1. services' = [manager |-> TRUE, application |-> services.application,
                   cookie |-> services.cookie, debugger |-> services.debugger]
  BY DEF Inv, RecordsOK
<1> QED
  BY <1>1 DEF Inv, RecordsOK, ServicesSoFar, ManagerAgrees, DocumentSoFar,
              Lifetimes, InitializeCalls, RegisterCalls

LEMMA CreateApplicationInv == Inv /\ CreateApplication => Inv'
<1> SUFFICES ASSUME Inv, CreateApplication,
                    created' = [created EXCEPT !.applications = @ + 1],
                    services' = [services EXCEPT !.application =
                                    created.applications + 1],
                    step = "create", step' = "name",
                    UNCHANGED <<pdm, document, alive>>
             PROVE  Inv'
  BY InitializeFails DEF CreateApplication, InitializeCalls
<1> DEFINE new == created.applications + 1
<1>1. new \in Nat \ {0}
  BY DEF Inv, RecordsOK
<1>2. services' = [manager |-> services.manager, application |-> new,
                   cookie |-> services.cookie, debugger |-> services.debugger]
  BY DEF Inv, RecordsOK
<1>3. created' = [applications |-> new, documents |-> created.documents]
  BY DEF Inv, RecordsOK
<1> HIDE DEF new
<1>4. RecordsOK'
  BY <1>1, <1>2, <1>3 DEF Inv, RecordsOK, InitializeCalls
<1>5. pdm.debugged = {}
  BY DEF Inv, ServicesSoFar, ManagerAgrees, Only
<1>6. ServicesSoFar' /\ ManagerAgrees'
  BY <1>1, <1>2, <1>5 DEF Inv, ServicesSoFar, ManagerAgrees, InitializeCalls
<1>7. DocumentSoFar' /\ Lifetimes'
  BY DEF Inv, DocumentSoFar, Lifetimes, RegisterCalls
<1> QED
  BY <1>4, <1>6, <1>7 DEF Inv

LEMMA SetNameInv == Inv /\ SetName => Inv'
<1> SUFFICES ASSUME Inv, SetName, step = "name", step' = "add",
                    UNCHANGED <<services, pdm, created, document, alive>>
             PROVE  Inv'
  BY InitializeFails DEF SetName, InitializeCalls
<1> QED
  BY DEF Inv, RecordsOK, ServicesSoFar, ManagerAgrees, DocumentSoFar,
         Lifetimes, InitializeCalls, RegisterCalls

LEMMA AddApplicationInv == Inv /\ AddApplication => Inv'
<1> SUFFICES ASSUME Inv, AddApplication,
                    services' = [services EXCEPT !.cookie = services.application],
                    pdm' = [pdm EXCEPT !.applications = @ \cup {services.application}],
                    step = "add", step' = "idle",
                    UNCHANGED <<created, document, alive>>
             PROVE  Inv'
  BY InitializeFails DEF AddApplication, InitializeCalls
<1>1. services' = [manager |-> services.manager,
                   application |-> services.application,
                   cookie |-> services.application, debugger |-> services.debugger]
  BY DEF Inv, RecordsOK
<1>2. pdm' = [applications |-> pdm.applications \cup {services.application},
              debugged |-> pdm.debugged, documents |-> pdm.documents]
  BY DEF Inv, RecordsOK
<1>3. RecordsOK'
  BY <1>1, <1>2 DEF Inv, RecordsOK
<1>4. ServicesSoFar' /\ ManagerAgrees'
  BY <1>1, <1>2 DEF Inv, ServicesSoFar, ManagerAgrees, InitializeCalls, Only
<1>5. DocumentSoFar' /\ Lifetimes'
  BY <1>2 DEF Inv, DocumentSoFar, Lifetimes, RegisterCalls
<1> QED
  BY <1>3, <1>4, <1>5 DEF Inv

\* connect_debugger and disconnect_debugger: the flag and the connection.
LEMMA DebuggerInv == Inv /\ (ConnectDebugger \/ DisconnectDebugger) => Inv'
<1> SUFFICES ASSUME Inv, ConnectDebugger \/ DisconnectDebugger PROVE Inv'
  OBVIOUS
<1>1. /\ step = "idle" /\ services.application # 0
      /\ UNCHANGED <<document, step, created, alive>>
  BY DEF ConnectDebugger, DisconnectDebugger
<1>2. PICK on \in BOOLEAN, debugged \in SUBSET Nat :
          /\ services' = [services EXCEPT !.debugger = on]
          /\ pdm' = [pdm EXCEPT !.debugged = debugged]
          /\ debugged \subseteq {services.application}
          /\ on => services.application \in debugged
          /\ ~on /\ "disconnect" \notin Faults => debugged = {}
  <2>1. CASE ConnectDebugger
    <3> DEFINE with == pdm.debugged \cup {services.application}
    <3>1. with \in SUBSET Nat /\ with \subseteq {services.application}
      BY DEF Inv, RecordsOK, ManagerAgrees, Only
    <3>2. pdm' = [pdm EXCEPT !.debugged = with]
      BY <2>1 DEF ConnectDebugger
    <3>3. services' = [services EXCEPT !.debugger = TRUE]
      BY <2>1 DEF ConnectDebugger
    <3>4. services.application \in with
      OBVIOUS
    <3> HIDE DEF with
    <3> QED
      BY <3>1, <3>2, <3>3, <3>4
  <2>2. CASE DisconnectDebugger
    <3>1. pdm = [pdm EXCEPT !.debugged = pdm.debugged]
      BY DEF Inv, RecordsOK
    <3>2. PICK debugged \in {pdm.debugged, pdm.debugged \ {services.application}} :
              /\ pdm' = [pdm EXCEPT !.debugged = debugged]
              /\ "disconnect" \notin Faults =>
                    debugged = pdm.debugged \ {services.application}
      BY <2>2, <3>1 DEF DisconnectDebugger
    <3>3. pdm.debugged \subseteq {services.application} /\ pdm.debugged \in SUBSET Nat
      BY DEF Inv, RecordsOK, ManagerAgrees, Only
    <3>4. services' = [services EXCEPT !.debugger = FALSE]
      BY <2>2 DEF DisconnectDebugger
    <3>5. /\ debugged \in SUBSET Nat /\ debugged \subseteq {services.application}
          /\ "disconnect" \notin Faults => debugged = {}
      BY <3>2, <3>3
    <3> QED
      BY <3>2, <3>4, <3>5
  <2> QED
    BY <2>1, <2>2
<1>3. services' = [manager |-> services.manager,
                   application |-> services.application,
                   cookie |-> services.cookie, debugger |-> on]
  BY <1>2 DEF Inv, RecordsOK
<1>4. pdm' = [applications |-> pdm.applications, debugged |-> debugged,
              documents |-> pdm.documents]
  BY <1>2 DEF Inv, RecordsOK
<1>5. RecordsOK'
  BY <1>1, <1>2, <1>3, <1>4 DEF Inv, RecordsOK
<1>6. ServicesSoFar'
  BY <1>1, <1>3 DEF Inv, ServicesSoFar, InitializeCalls
<1>7. ManagerAgrees'
  BY <1>1, <1>2, <1>3, <1>4 DEF Inv, ManagerAgrees, Only
<1>8. DocumentSoFar' /\ Lifetimes'
  BY <1>1, <1>3, <1>4 DEF Inv, DocumentSoFar, Lifetimes, RegisterCalls
<1> QED
  BY <1>5, <1>6, <1>7, <1>8 DEF Inv

LEMMA CreateHelperInv == Inv /\ CreateHelper => Inv'
<1> SUFFICES ASSUME Inv, CreateHelper,
                    created' = [created EXCEPT !.documents = @ + 1],
                    document' = [document EXCEPT !.helper = created.documents + 1],
                    step = "helper", step' = "init",
                    UNCHANGED <<pdm, services, alive>>
             PROVE  Inv'
  BY RegisterFails DEF CreateHelper, RegisterCalls
<1> DEFINE new == created.documents + 1
<1>1. new \in Nat \ {0}
  BY DEF Inv, RecordsOK
<1>2. document' = [helper |-> new, context |-> document.context]
  BY DEF Inv, RecordsOK
<1>3. created' = [applications |-> created.applications, documents |-> new]
  BY DEF Inv, RecordsOK
<1> HIDE DEF new
<1>4. RecordsOK'
  BY <1>1, <1>2, <1>3 DEF Inv, RecordsOK, RegisterCalls
<1>5. ServicesSoFar' /\ ManagerAgrees'
  BY DEF Inv, ServicesSoFar, ManagerAgrees, InitializeCalls
<1>6. DocumentSoFar' /\ Lifetimes'
  BY <1>1, <1>2 DEF Inv, DocumentSoFar, Lifetimes, RegisterCalls, Only
<1> QED
  BY <1>4, <1>5, <1>6 DEF Inv

\* The calls that tell the manager of a text change nothing that is remembered.
LEMMA TextInv == Inv /\ (InitHelper \/ AddText) => Inv'
<1> SUFFICES ASSUME Inv,
                    \/ step = "init" /\ step' = "attach"
                    \/ step = "text" /\ step' = "block",
                    UNCHANGED <<document, pdm, created, services, alive>>
             PROVE  Inv'
  BY RegisterFails DEF InitHelper, AddText, RegisterCalls
<1> QED
  BY DEF Inv, RecordsOK, ServicesSoFar, ManagerAgrees, DocumentSoFar,
         Lifetimes, InitializeCalls, RegisterCalls

LEMMA AttachInv == Inv /\ Attach => Inv'
<1> SUFFICES ASSUME Inv, Attach,
                    pdm' = [pdm EXCEPT !.documents = @ \cup {document.helper}],
                    step = "attach", step' = "text",
                    UNCHANGED <<document, created, services, alive>>
             PROVE  Inv'
  BY RegisterFails DEF Attach, RegisterCalls
<1>1. pdm' = [applications |-> pdm.applications, debugged |-> pdm.debugged,
              documents |-> pdm.documents \cup {document.helper}]
  BY DEF Inv, RecordsOK
<1>2. RecordsOK'
  BY <1>1 DEF Inv, RecordsOK, RegisterCalls
<1>3. ServicesSoFar' /\ ManagerAgrees'
  BY <1>1 DEF Inv, ServicesSoFar, ManagerAgrees, InitializeCalls
<1>4. DocumentSoFar' /\ Lifetimes'
  BY <1>1 DEF Inv, DocumentSoFar, Lifetimes, RegisterCalls, Only
<1> QED
  BY <1>2, <1>3, <1>4 DEF Inv

LEMMA DefineScriptBlockInv == Inv /\ DefineScriptBlock => Inv'
<1> SUFFICES ASSUME Inv, DefineScriptBlock,
                    document' = [document EXCEPT !.context = TRUE],
                    step = "block", step' = "idle",
                    UNCHANGED <<pdm, created, services, alive>>
             PROVE  Inv'
  BY RegisterFails DEF DefineScriptBlock, RegisterCalls
<1>1. document' = [helper |-> document.helper, context |-> TRUE]
  BY DEF Inv, RecordsOK
<1> QED
  BY <1>1 DEF Inv, RecordsOK, ServicesSoFar, ManagerAgrees, DocumentSoFar,
              Lifetimes, InitializeCalls, RegisterCalls

\* The operations that are no more than a shutdown or an unregistration.
LEMMA EmptyingInv ==
    Inv /\ (BeginInitialize \/ Shutdown \/ DestroyServices \/ BeginRegister
              \/ UnregisterDocument \/ DestroyDocument) => Inv'
<1> SUFFICES ASSUME Inv,
                    BeginInitialize \/ Shutdown \/ DestroyServices \/ BeginRegister
                      \/ UnregisterDocument \/ DestroyDocument
             PROVE  Inv'
  OBVIOUS
<1>1. step = "idle" => step \notin InitializeCalls /\ step \notin RegisterCalls
  BY DEF InitializeCalls, RegisterCalls
<1>2. CASE BeginInitialize \/ Shutdown \/ DestroyServices
  BY <1>1, <1>2, ShutDownInv DEF BeginInitialize, Shutdown, DestroyServices
<1>3. CASE BeginRegister \/ UnregisterDocument \/ DestroyDocument
  BY <1>1, <1>3, UnregisterInv DEF BeginRegister, UnregisterDocument, DestroyDocument
<1> QED
  BY <1>2, <1>3

LEMMA StepInv == Inv /\ [Next]_vars => Inv'
<1>1. Inv /\ UNCHANGED vars => Inv'
  BY DEF vars, Inv, RecordsOK, ServicesSoFar, ManagerAgrees, DocumentSoFar, Lifetimes
<1> QED
  BY <1>1, CreateManagerInv, CreateApplicationInv, SetNameInv, AddApplicationInv,
     DebuggerInv, CreateHelperInv, TextInv, AttachInv, DefineScriptBlockInv,
     EmptyingInv
  DEF Next

LEMMA Invariance == Spec => []Inv
  BY InitInv, StepInv, PTL DEF Spec

-----------------------------------------------------------------------------
\* What the manager has registered is the application whose cookie is held, and
\* available() holds only for one that is registered: whichever call of
\* initialize fails.
THEOREM ApplicationsAgree == Spec => []ApplicationAgrees
<1>1. Inv => ApplicationAgrees
  BY DEF Inv, ApplicationAgrees, ManagerAgrees, ServicesSoFar, InitializeCalls
<1> QED
  BY <1>1, Invariance, PTL

\* debugger_connected_ tells the truth.
THEOREM DebuggersAgree == Spec => []DebuggerAgrees
<1>1. Inv => DebuggerAgrees
  BY DEF Inv, DebuggerAgrees, ManagerAgrees
<1> QED
  BY <1>1, Invariance, PTL

\* registered() holds only for a document that is attached, with its block.
THEOREM DocumentsAgree == Spec => []DocumentAgrees
<1>1. Inv => DocumentAgrees
  BY DEF Inv, DocumentAgrees, DocumentSoFar, RegisterCalls
<1> QED
  BY <1>1, Invariance, PTL

\* Once both objects are gone, the manager knows nothing of wshdbg.
THEOREM NothingIsLeft == Spec => []NothingLeft
<1>1. Inv => NothingLeft
  <2> SUFFICES ASSUME Inv, alive = {}
               PROVE  pdm = [applications |-> {}, debugged |-> {}, documents |-> {}]
    BY DEF NothingLeft
  <2>1. services.application = 0 /\ services.cookie = 0 /\ document.helper = 0
    BY DEF Inv, Lifetimes
  <2>2. pdm.applications = {} /\ pdm.debugged = {} /\ pdm.documents = {}
    BY <2>1 DEF Inv, ManagerAgrees, DocumentSoFar, Only
  <2> QED
    BY <2>2 DEF Inv, RecordsOK
<1> QED
  BY <1>1, Invariance, PTL

-----------------------------------------------------------------------------
(* The registration that run takes the two objects for. *)

\* register_document is only under way for an application that is there, and
\* no block is defined before its last call nor kept without a helper.
RegisterSoFar ==
    /\ step \in RegisterCalls => services.application # 0 /\ ~document.context
    /\ document.helper = 0 => ~document.context

RegInv == Inv /\ RegisterSoFar

\* The operations that are no more than a shutdown or an unregistration are
\* those of the registration.
LEMMA EmptyingRegistration ==
    ASSUME RegInv,
           BeginInitialize \/ Shutdown \/ DestroyServices \/ BeginRegister
             \/ UnregisterDocument \/ DestroyDocument
    PROVE  /\ RegisterSoFar'
           /\ Registration!Shutdown \/ Registration!Unregister
<1>1. step = "idle" /\ step \notin InitializeCalls /\ step \notin RegisterCalls
  BY DEF InitializeCalls, RegisterCalls, BeginInitialize, Shutdown, DestroyServices,
         BeginRegister, UnregisterDocument, DestroyDocument
<1>2. CASE BeginInitialize \/ Shutdown \/ DestroyServices
  <2>1. /\ step' \in {"idle", "manager"} /\ UNCHANGED document
        /\ pdm' = [applications |-> {}, debugged |-> {}, documents |-> pdm.documents]
    BY <1>1, <1>2, ShutDownLeaves
    DEF RegInv, Inv, BeginInitialize, Shutdown, DestroyServices
  <2> QED
    BY <1>1, <2>1 DEF RegInv, RegisterSoFar, RegisterCalls, Registration!Shutdown
<1>3. CASE BeginRegister \/ UnregisterDocument \/ DestroyDocument
  <2>1. /\ document' = NoDocument /\ UNCHANGED services
        /\ pdm' = [applications |-> pdm.applications, debugged |-> pdm.debugged,
                   documents |-> {}]
        /\ step' = "idle" \/ (Available /\ step' = "helper")
    BY <1>1, <1>3, UnregisterLeaves
    DEF RegInv, Inv, BeginRegister, UnregisterDocument, DestroyDocument
  <2> QED
    BY <1>1, <2>1
    DEF RegisterSoFar, RegisterCalls, NoDocument, Available, Registration!Unregister
<1> QED
  BY <1>2, <1>3

\* A call of initialize does nothing that is seen but the last; one that fails
\* is a shutdown.
LEMMA InitializeRegistration ==
    ASSUME RegInv, CreateManager \/ CreateApplication \/ SetName \/ AddApplication
    PROVE  /\ RegisterSoFar'
           /\ \/ Registration!Shutdown \/ Registration!Initialize
              \/ UNCHANGED Registration!vars
<1>1. step \in InitializeCalls /\ UNCHANGED document
  BY DEF CreateManager, CreateApplication, SetName, AddApplication, InitializeCall,
         InitializeCalls
<1>2. step' \notin RegisterCalls
  BY DEF CreateManager, CreateApplication, SetName, AddApplication, InitializeCall,
         RegisterCalls
<1>3. RegisterSoFar'
  BY <1>1, <1>2 DEF RegInv, RegisterSoFar
<1>4. CASE ShutDown
  <2>1. pdm' = [applications |-> {}, debugged |-> {}, documents |-> pdm.documents]
    BY <1>4, ShutDownLeaves DEF RegInv, Inv
  <2> QED
    BY <1>1, <1>3, <2>1 DEF Registration!Shutdown
<1>5. CASE UNCHANGED pdm
  BY <1>1, <1>3, <1>5 DEF Registration!vars
<1>6. CASE AddApplication /\ ~ShutDown
  <2>1. /\ step = "add"
        /\ pdm' = [pdm EXCEPT !.applications = @ \cup {services.application}]
    BY <1>6 DEF AddApplication, InitializeCall
  <2>2. services.application # 0 /\ services.cookie = 0
    BY <2>1 DEF RegInv, Inv, ServicesSoFar
  <2>3. pdm.applications = {}
    BY <2>2 DEF RegInv, Inv, ManagerAgrees, Only
  <2>4. pdm' = [applications |-> pdm.applications \cup {services.application},
                debugged |-> pdm.debugged, documents |-> pdm.documents]
    BY <2>1 DEF RegInv, Inv, RecordsOK
  <2> QED
    BY <1>1, <1>3, <2>3, <2>4 DEF Registration!Initialize
<1> QED
  BY <1>4, <1>5, <1>6
  DEF CreateManager, CreateApplication, SetName, InitializeCall

\* What is connected is the application that is registered.
LEMMA DebuggerRegistration ==
    ASSUME RegInv, ConnectDebugger \/ DisconnectDebugger
    PROVE  /\ RegisterSoFar'
           /\ \/ Registration!Connect \/ Registration!Disconnect
              \/ UNCHANGED Registration!vars
<1>1. /\ step = "idle" /\ services.application # 0
      /\ UNCHANGED <<document, step>>
  BY DEF ConnectDebugger, DisconnectDebugger
<1>2. step \notin InitializeCalls /\ step \notin RegisterCalls
  BY <1>1 DEF InitializeCalls, RegisterCalls
<1>3. RegisterSoFar'
  BY <1>1, <1>2 DEF RegInv, RegisterSoFar
<1>4. pdm.applications # {} /\ pdm.debugged \ {services.application} = {}
  BY <1>1, <1>2 DEF RegInv, Inv, ServicesSoFar, ManagerAgrees, Only
<1>5. ASSUME NEW debugged, pdm' = [pdm EXCEPT !.debugged = debugged]
      PROVE  pdm' = [applications |-> pdm.applications, debugged |-> debugged,
                     documents |-> pdm.documents]
  BY <1>5 DEF RegInv, Inv, RecordsOK
<1>6. CASE ConnectDebugger
  <2>1. pdm' = [applications |-> pdm.applications,
                debugged |-> pdm.debugged \cup {services.application},
                documents |-> pdm.documents]
    BY <1>5, <1>6 DEF ConnectDebugger
  <2> QED
    BY <1>1, <1>3, <1>4, <2>1 DEF Registration!Connect
<1>7. CASE UNCHANGED pdm
  BY <1>1, <1>3, <1>7 DEF Registration!vars
<1>8. CASE pdm' = [pdm EXCEPT !.debugged = @ \ {services.application}]
  <2>1. pdm' = [applications |-> pdm.applications,
                debugged |-> pdm.debugged \ {services.application},
                documents |-> pdm.documents]
    BY <1>5, <1>8
  <2> QED
    BY <1>1, <1>3, <1>4, <2>1 DEF Registration!Disconnect
<1> QED
  BY <1>6, <1>7, <1>8 DEF DisconnectDebugger

\* A call of register_document does nothing that is seen but the last; one that
\* fails is an unregistration.
LEMMA RegisterRegistration ==
    ASSUME RegInv,
           CreateHelper \/ InitHelper \/ Attach \/ AddText \/ DefineScriptBlock
    PROVE  /\ RegisterSoFar'
           /\ \/ Registration!Unregister \/ Registration!Register
              \/ UNCHANGED Registration!vars
<1> USE DEF RegInv, Inv
<1>1. step \in RegisterCalls /\ UNCHANGED services
  BY DEF CreateHelper, InitHelper, Attach, AddText, DefineScriptBlock,
         RegisterCall, RegisterCalls
<1>2. services.application # 0 /\ ~document.context
  BY <1>1 DEF RegisterSoFar
<1>3. CASE step' = "idle" /\ Unregister
  <2>1. /\ document' = NoDocument
        /\ pdm' = [applications |-> pdm.applications, debugged |-> pdm.debugged,
                   documents |-> {}]
    BY <1>3, UnregisterLeaves
  <2> QED
    BY <1>3, <2>1 DEF RegisterSoFar, RegisterCalls, NoDocument, Registration!Unregister
<1>4. CASE /\ ~document'.context
           /\ pdm'.applications = pdm.applications /\ pdm'.debugged = pdm.debugged
  BY <1>1, <1>2, <1>4 DEF RegisterSoFar, Registration!vars
<1>5. CASE CreateHelper /\ ~(step' = "idle" /\ Unregister)
  <2>1. document' = [document EXCEPT !.helper = created.documents + 1] /\ UNCHANGED pdm
    BY <1>5 DEF CreateHelper, RegisterCall
  <2>2. document'.context = document.context
    BY <2>1 DEF RecordsOK
  <2> QED
    BY <1>2, <1>4, <2>1, <2>2
<1>6. CASE (InitHelper \/ AddText) /\ ~(step' = "idle" /\ Unregister)
  <2>1. UNCHANGED <<document, pdm>>
    BY <1>6 DEF InitHelper, AddText, RegisterCall
  <2> QED
    BY <1>2, <1>4, <2>1
<1>7. CASE Attach /\ ~(step' = "idle" /\ Unregister)
  <2>1. /\ pdm' = [pdm EXCEPT !.documents = @ \cup {document.helper}]
        /\ UNCHANGED document
    BY <1>7 DEF Attach, RegisterCall
  <2>2. pdm'.applications = pdm.applications /\ pdm'.debugged = pdm.debugged
    BY <2>1 DEF RecordsOK
  <2> QED
    BY <1>2, <1>4, <2>1, <2>2
<1>8. CASE DefineScriptBlock /\ ~(step' = "idle" /\ Unregister)
  <2>1. /\ step = "block" /\ step' = "idle" /\ UNCHANGED pdm
        /\ document' = [document EXCEPT !.context = TRUE]
    BY <1>8 DEF DefineScriptBlock, RegisterCall
  <2>2. document.helper # 0 /\ document.helper \in pdm.documents
    BY <2>1 DEF DocumentSoFar
  <2>3. pdm.applications # {}
    BY <1>2, <2>1 DEF ServicesSoFar, ManagerAgrees, Only, InitializeCalls
  <2>4. document' = [helper |-> document.helper, context |-> TRUE]
    BY <2>1 DEF RecordsOK
  <2>5. RegisterSoFar'
    BY <2>1, <2>2, <2>4 DEF RegisterSoFar, RegisterCalls
  <2>6. Registration!Register
    BY <2>1, <2>2, <2>3, <2>4 DEF Registration!Register
  <2> QED
    BY <2>5, <2>6
<1> QED
  BY <1>3, <1>5, <1>6, <1>7, <1>8

\* The two objects implement the registration, in whatever order they are used
\* and whichever calls fail: run may take each operation for one step that does
\* all or leaves nothing.
THEOREM ServicesImplementRegistration == Spec => ImplementsRegistration
<1>1. Init => RegInv /\ Registration!Init
  BY InitInv DEF RegInv, Init, RegisterSoFar, NoDocument, RegisterCalls,
                 Registration!Init
<1>2. RegInv /\ [Next]_vars => RegInv' /\ [Registration!Next]_(Registration!vars)
  <2> SUFFICES ASSUME RegInv, [Next]_vars
               PROVE  RegisterSoFar' /\ [Registration!Next]_(Registration!vars)
    BY StepInv DEF RegInv
  <2>1. CASE UNCHANGED vars
    BY <2>1 DEF vars, RegInv, RegisterSoFar, Registration!vars
  <2> QED
    BY <2>1, EmptyingRegistration, InitializeRegistration, DebuggerRegistration,
       RegisterRegistration
    DEF Next, Registration!Next
<1> QED
  BY <1>1, <1>2, PTL DEF Spec, ImplementsRegistration, Registration!Spec

=============================================================================
