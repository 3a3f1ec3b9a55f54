-------------------------- MODULE BreakpointBinding --------------------------
(***************************************************************************)
(* The BreakpointStore of a session and the loop of ActiveScriptHost::run  *)
(* that binds those of the script's file.  The loop goes over the copies   *)
(* that for_file returns; bind reports each success to the handlers of the *)
(* session, and a handler may edit the store before the loop goes on.      *)
(*                                                                         *)
(* The store is a function on the ids it holds: the vector of the code is  *)
(* in the order of the ids, since add appends ever greater ones.           *)
(***************************************************************************)
EXTENDS Naturals, FiniteSets

CONSTANTS
    Files,        \* paths, as they are spelled
    NormalForm,   \* lexically_normal of each
    Script,       \* the path that run was given
    Lines,
    Edits,        \* what a front end does to the store, besides adding
    MaxIds        \* bound: how often a breakpoint is added

ASSUME BindingAssumption ==
    /\ NormalForm \in [Files -> Files]
    /\ Script \in Files
    /\ Edits \subseteq {"remove", "disable"}
    /\ MaxIds \in Nat

States == {"Pending", "Bound", "Disabled", "Error"}
Breakpoint == [file : Files, line : Lines, state : States]
Copy == [id : Nat, file : Files, line : Lines]

VARIABLES
    nextId,    \* BreakpointStore::next_id_
    store,     \* BreakpointStore::breakpoints_, by id
    phase,     \* "editing", "binding", "told" (the handlers run), "done"
    left,      \* the copies that the loop has not come to
    enabled,   \* lines of the script at which the engine will break
    issued,    \* history: the ids that add has returned
    withdrawn, \* history: lines of breakpoints removed or disabled
    present    \* history: the ids in the store when the loop began

vars == <<nextId, store, phase, left, enabled, issued, withdrawn, present>>

TypeOK ==
    /\ nextId \in Nat \ {0}
    /\ DOMAIN store \subseteq Nat
    /\ \A i \in DOMAIN store : store[i] \in Breakpoint
    /\ phase \in {"editing", "binding", "told", "done"}
    /\ left \subseteq Copy
    /\ enabled \subseteq Lines
    /\ issued \subseteq Nat
    /\ withdrawn \subseteq Lines
    /\ present \subseteq issued

Init ==
    /\ nextId = 1
    /\ store = [i \in {} |-> 0]
    /\ phase = "editing"
    /\ left = {}
    /\ enabled = {}
    /\ issued = {}
    /\ withdrawn = {}
    /\ present = {}

-----------------------------------------------------------------------------
(* The store. *)

\* Mutant: ids are positions.
NewIdFromSize == Cardinality(DOMAIN store) + 1

\* The id that add gives.
NewId == nextId

\* set_state: false, and nothing done, for an id that is not there.
SetState(s, i, state) ==
    IF i \in DOMAIN s THEN [s EXCEPT ![i].state = state] ELSE s

\* Mutant: paths are compared as they are spelled.
SameFileAsSpelled(f, g) == f = g

\* The comparison of for_file.
SameFile(f, g) == NormalForm[f] = NormalForm[g]

\* Mutant: the breakpoints of all files.
ForFileTakesAll(file) ==
    {[id |-> i, file |-> store[i].file, line |-> store[i].line] :
        i \in DOMAIN store}

\* for_file returns copies.
ForFile(file) ==
    {[id |-> i, file |-> store[i].file, line |-> store[i].line] :
        i \in {j \in DOMAIN store : SameFile(store[j].file, file)}}

\* A front end edits the store before run, from a handler, and after run.
FrontEnd == phase # "binding" /\ UNCHANGED <<phase, left, enabled, present>>

Add ==
    /\ FrontEnd
    /\ Cardinality(issued) < MaxIds
    /\ \E f \in Files, l \in Lines :
          store' = [i \in DOMAIN store \cup {NewId} |->
                      IF i = NewId
                        THEN [file |-> f, line |-> l, state |-> "Pending"]
                        ELSE store[i]]
    /\ issued' = issued \cup {NewId}
    /\ nextId' = nextId + 1
    /\ UNCHANGED withdrawn

Remove ==
    /\ FrontEnd
    /\ "remove" \in Edits
    /\ \E i \in DOMAIN store :
          /\ store' = [j \in DOMAIN store \ {i} |-> store[j]]
          /\ withdrawn' = withdrawn \cup {store[i].line}
    /\ UNCHANGED <<nextId, issued>>

Disable ==
    /\ FrontEnd
    /\ "disable" \in Edits
    /\ \E i \in DOMAIN store :
          /\ store' = SetState(store, i, "Disabled")
          /\ withdrawn' = withdrawn \cup {store[i].line}
    /\ UNCHANGED <<nextId, issued>>

-----------------------------------------------------------------------------
(* The loop of run, and bind. *)

BeginBinding ==
    /\ phase = "editing"
    /\ left' = ForFile(Script)
    /\ present' = DOMAIN store
    /\ phase' = "binding"
    /\ UNCHANGED <<nextId, store, enabled, issued, withdrawn>>

\* The copy the loop has come to: the one with the least id.
Current == {c \in left : \A d \in left : c.id <= d.id}

\* bind fails: no document or no such place in it, no debug interface, no
\* code there, or SetBreakPoint does.
BindFails ==
    /\ phase = "binding"
    /\ \E c \in Current :
          /\ store' = SetState(store, c.id, "Error")
          /\ left' = left \ {c}
    /\ UNCHANGED <<nextId, phase, enabled, issued, withdrawn, present>>

\* Mutant: the result of SetBreakPoint is not looked at.
BindUnchecked ==
    /\ phase = "binding"
    /\ \E c \in Current :
          /\ enabled' \in {enabled, enabled \cup {c.line}}
          /\ store' = SetState(store, c.id, "Bound")
          /\ left' = left \ {c}
    /\ phase' = "told"
    /\ UNCHANGED <<nextId, issued, withdrawn, present>>

\* bind succeeds: SetBreakPoint, set_state, and breakpoint_bound is published.
Bind ==
    /\ phase = "binding"
    /\ \E c \in Current :
          /\ enabled' = enabled \cup {c.line}
          /\ store' = SetState(store, c.id, "Bound")
          /\ left' = left \ {c}
    /\ phase' = "told"
    /\ UNCHANGED <<nextId, issued, withdrawn, present>>

\* The handlers return, and bind.
HandlersReturn ==
    /\ phase = "told"
    /\ phase' = "binding"
    /\ UNCHANGED <<nextId, store, left, enabled, issued, withdrawn,
                   present>>

EndBinding ==
    /\ phase = "binding"
    /\ left = {}
    /\ phase' = "done"
    /\ UNCHANGED <<nextId, store, left, enabled, issued, withdrawn,
                   present>>

Next ==
    \/ Add \/ Remove \/ Disable
    \/ BeginBinding \/ BindFails \/ Bind \/ HandlersReturn \/ EndBinding

Spec == Init /\ [][Next]_vars

-----------------------------------------------------------------------------
(* Properties. *)

\* An id names one breakpoint for ever: no breakpoint that is added gets the id
\* of an earlier one, removed ones included.  The loop relies on it, for it
\* reports its results by the ids of its copies.
IdsAreNew == [][\A i \in DOMAIN store' \ DOMAIN store : i \notin issued]_vars

\* The loop decides nothing about breakpoints of other files, by whatever
\* spelling they were asked for.
OthersUntouched ==
    \A i \in DOMAIN store :
        NormalForm[store[i].file] # NormalForm[Script] =>
            store[i].state \notin {"Bound", "Error"}

\* When the loop is over, each breakpoint of the script's file that was in the
\* store when it began is decided or gone: none is left out by what handlers
\* remove or add meanwhile, or by the spelling of its path.
AllDecided ==
    phase = "done" =>
        \A i \in present \cap DOMAIN store :
            NormalForm[store[i].file] = NormalForm[Script] =>
                store[i].state # "Pending"

\* The engine breaks wherever the store shows a breakpoint as bound, and
\* nowhere else but where a front end has withdrawn one, whatever the handlers
\* did to the store after it was copied.  (Nobody tells the engine of what is
\* removed or disabled; wmain only adds.)
EngineAgrees ==
    LET bound == {store[i].line : i \in {j \in DOMAIN store : store[j].state = "Bound"}}
    IN  bound \subseteq enabled /\ enabled \subseteq bound \cup withdrawn

=============================================================================
