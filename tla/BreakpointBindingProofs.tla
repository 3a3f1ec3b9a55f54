----------------------- MODULE BreakpointBindingProofs -----------------------
(***************************************************************************)
(* What TLAPS proves of BreakpointBinding, for any files, lines, spellings *)
(* and number of breakpoints, and whatever the front end edits.            *)
(*                                                                         *)
(* The argument: ids grow, so that a copy names the breakpoint it was made *)
(* of or one that is gone; the copies left to the loop are undecided and   *)
(* of the script's file; and before the loop nothing is decided at all.    *)
(***************************************************************************)
EXTENDS BreakpointBinding, TLAPS

\* A breakpoint of the script's file.
OfScript(b) == NormalForm[b.file] = NormalForm[Script]

\* Ids that have been issued are below the next one, and all others unknown.
IdsGrow ==
    /\ nextId \in Nat
    /\ \A i \in issued : i \in Nat /\ i < nextId
    /\ DOMAIN store \subseteq issued
    /\ present \subseteq issued

\* Breakpoints are records of their class.
StoreIsTyped ==
    \A i \in DOMAIN store :
        store[i] = [file |-> store[i].file, line |-> store[i].line,
                    state |-> store[i].state]

\* A copy agrees with what it is a copy of, which is undecided or withdrawn.
CopiesAgree ==
    \A c \in left :
        /\ c.id \in issued
        /\ c.id \in DOMAIN store =>
              /\ store[c.id].line = c.line
              /\ OfScript(store[c.id])
              /\ store[c.id].state \in {"Pending", "Disabled"}
        /\ c.id \notin DOMAIN store => c.line \in withdrawn

\* There is one copy of each breakpoint.
CopiesDiffer == \A c, d \in left : c.id = d.id => c = d

\* Before the loop nothing is decided.
NothingDecidedYet ==
    phase = "editing" =>
        \A i \in DOMAIN store : store[i].state \in {"Pending", "Disabled"}

\* In the loop, what was there and is not decided has a copy left.
UndecidedIsLeft ==
    phase # "editing" =>
        \A i \in present \cap DOMAIN store :
            OfScript(store[i]) /\ store[i].state = "Pending" =>
                \E c \in left : c.id = i

NoneLeft == phase = "done" => left = {}

Inv ==
    /\ IdsGrow /\ StoreIsTyped
    /\ CopiesAgree /\ CopiesDiffer
    /\ NothingDecidedYet /\ UndecidedIsLeft /\ NoneLeft
    /\ EngineAgrees /\ OthersUntouched

-----------------------------------------------------------------------------
\* What set_state does to the store.
LEMMA SetStateChanges ==
    ASSUME NEW i, NEW state, StoreIsTyped
    PROVE  /\ DOMAIN SetState(store, i, state) = DOMAIN store
           /\ \A j \in DOMAIN store :
                SetState(store, i, state)[j]
                  = IF j = i
                      THEN [file |-> store[i].file, line |-> store[i].line,
                            state |-> state]
                      ELSE store[j]
  BY DEF SetState, StoreIsTyped

LEMMA InitInv == Init => Inv
  BY DEF Init, Inv, IdsGrow, StoreIsTyped, CopiesAgree, CopiesDiffer,
         NothingDecidedYet, UndecidedIsLeft, NoneLeft, EngineAgrees,
         OthersUntouched

LEMMA AddInv == Inv /\ Add => Inv'
<1> SUFFICES ASSUME Inv, Add PROVE Inv'
  OBVIOUS
<1> USE DEF Inv
<1>1. PICK f \in Files, l \in Lines :
          store' = [i \in DOMAIN store \cup {nextId} |->
                      IF i = nextId
                        THEN [file |-> f, line |-> l, state |-> "Pending"]
                        ELSE store[i]]
  BY DEF Add, NewId
<1>2. /\ nextId' = nextId + 1 /\ issued' = issued \cup {nextId}
      /\ UNCHANGED <<phase, left, enabled, withdrawn, present>>
  BY DEF Add, FrontEnd, NewId
<1>3. nextId \notin issued /\ nextId \notin DOMAIN store
  BY DEF IdsGrow
<1>4. DOMAIN store' = DOMAIN store \cup {nextId}
  BY <1>1
<1>5. \A i \in DOMAIN store : store'[i] = store[i]
  BY <1>1, <1>3
<1>6. store'[nextId] = [file |-> f, line |-> l, state |-> "Pending"]
  BY <1>1
<1>7. IdsGrow'
  BY <1>2, <1>4 DEF IdsGrow
<1>8. StoreIsTyped'
  BY <1>4, <1>5, <1>6 DEF StoreIsTyped
<1>9. CopiesAgree' /\ CopiesDiffer' /\ NoneLeft'
  BY <1>2, <1>3, <1>4, <1>5
  DEF CopiesAgree, CopiesDiffer, NoneLeft, OfScript
<1>10. NothingDecidedYet' /\ OthersUntouched'
  BY <1>2, <1>4, <1>5, <1>6 DEF NothingDecidedYet, OthersUntouched
<1>11. UndecidedIsLeft'
  BY <1>2, <1>3, <1>4, <1>5 DEF UndecidedIsLeft, OfScript, IdsGrow
<1>12. EngineAgrees'
  BY <1>2, <1>3, <1>4, <1>5, <1>6 DEF EngineAgrees
<1> QED
  BY <1>7, <1>8, <1>9, <1>10, <1>11, <1>12

LEMMA RemoveInv == Inv /\ Remove => Inv'
<1> SUFFICES ASSUME Inv, Remove PROVE Inv'
  OBVIOUS
<1> USE DEF Inv
<1>1. PICK i \in DOMAIN store :
          /\ store' = [j \in DOMAIN store \ {i} |-> store[j]]
          /\ withdrawn' = withdrawn \cup {store[i].line}
  BY DEF Remove
<1>2. UNCHANGED <<nextId, issued, phase, left, enabled, present>>
  BY DEF Remove, FrontEnd
<1>3. /\ DOMAIN store' = DOMAIN store \ {i}
      /\ \A j \in DOMAIN store' : store'[j] = store[j]
  BY <1>1
<1>4. IdsGrow' /\ StoreIsTyped'
  BY <1>2, <1>3 DEF IdsGrow, StoreIsTyped
<1>5. CopiesAgree' /\ CopiesDiffer' /\ NoneLeft'
  BY <1>1, <1>2, <1>3 DEF CopiesAgree, CopiesDiffer, NoneLeft, OfScript
<1>6. NothingDecidedYet' /\ UndecidedIsLeft' /\ OthersUntouched'
  BY <1>2, <1>3 DEF NothingDecidedYet, UndecidedIsLeft, OthersUntouched, OfScript
<1>7. EngineAgrees'
  BY <1>1, <1>2, <1>3 DEF EngineAgrees
<1> QED
  BY <1>4, <1>5, <1>6, <1>7

LEMMA DisableInv == Inv /\ Disable => Inv'
<1> SUFFICES ASSUME Inv, Disable PROVE Inv'
  OBVIOUS
<1> USE DEF Inv
<1>1. PICK i \in DOMAIN store :
          /\ store' = SetState(store, i, "Disabled")
          /\ withdrawn' = withdrawn \cup {store[i].line}
  BY DEF Disable
<1>2. UNCHANGED <<nextId, issued, phase, left, enabled, present>>
  BY DEF Disable, FrontEnd
<1>3. /\ DOMAIN store' = DOMAIN store
      /\ \A j \in DOMAIN store :
           store'[j] = IF j = i
                         THEN [file |-> store[i].file, line |-> store[i].line,
                               state |-> "Disabled"]
                         ELSE store[j]
  BY <1>1, SetStateChanges
<1>4. IdsGrow' /\ StoreIsTyped'
  BY <1>2, <1>3 DEF IdsGrow, StoreIsTyped
<1>5. CopiesAgree' /\ CopiesDiffer' /\ NoneLeft'
  BY <1>1, <1>2, <1>3 DEF CopiesAgree, CopiesDiffer, NoneLeft, OfScript
<1>6. NothingDecidedYet' /\ UndecidedIsLeft' /\ OthersUntouched'
  BY <1>2, <1>3 DEF NothingDecidedYet, UndecidedIsLeft, OthersUntouched, OfScript
<1>7. EngineAgrees'
  BY <1>1, <1>2, <1>3 DEF EngineAgrees
<1> QED
  BY <1>4, <1>5, <1>6, <1>7

LEMMA BeginBindingInv == Inv /\ BeginBinding => Inv'
<1> SUFFICES ASSUME Inv, BeginBinding PROVE Inv'
  OBVIOUS
<1> USE DEF Inv
<1>1. /\ phase = "editing" /\ phase' = "binding"
      /\ present' = DOMAIN store
      /\ UNCHANGED <<nextId, store, enabled, issued, withdrawn>>
  BY DEF BeginBinding
<1>2. left' = {[id |-> i, file |-> store[i].file, line |-> store[i].line] :
                  i \in {j \in DOMAIN store : OfScript(store[j])}}
  BY DEF BeginBinding, ForFile, SameFile, OfScript
<1>3. IdsGrow' /\ StoreIsTyped' /\ NothingDecidedYet' /\ NoneLeft'
  BY <1>1 DEF IdsGrow, StoreIsTyped, NothingDecidedYet, NoneLeft
<1>4. EngineAgrees' /\ OthersUntouched'
  BY <1>1 DEF EngineAgrees, OthersUntouched
<1>5. CopiesAgree'
  BY <1>1, <1>2 DEF CopiesAgree, OfScript, IdsGrow, NothingDecidedYet
<1>6. CopiesDiffer'
  BY <1>2 DEF CopiesDiffer
<1>7. UndecidedIsLeft'
  <2> SUFFICES ASSUME NEW i \in DOMAIN store, OfScript(store[i])
               PROVE  \E c \in left' : c.id = i
    BY <1>1 DEF UndecidedIsLeft, OfScript
  <2> DEFINE copy == [id |-> i, file |-> store[i].file, line |-> store[i].line]
  <2>1. copy \in left'
    BY <1>2
  <2> QED
    BY <2>1
<1> QED
  BY <1>3, <1>4, <1>5, <1>6, <1>7

\* What a result does to the store and to the copies, be it that of a bind that
\* succeeds or fails.
LEMMA ResultInv ==
    ASSUME Inv, NEW c \in left, NEW state \in {"Bound", "Error"},
           phase = "binding", phase' \in {"binding", "told"},
           store' = SetState(store, c.id, state),
           left' = left \ {c},
           UNCHANGED <<nextId, issued, withdrawn, present>>
    PROVE  /\ IdsGrow' /\ StoreIsTyped'
           /\ CopiesAgree' /\ CopiesDiffer'
           /\ NothingDecidedYet' /\ UndecidedIsLeft' /\ NoneLeft'
           /\ OthersUntouched'
           /\ DOMAIN store' = DOMAIN store
           /\ \A j \in DOMAIN store :
                /\ store'[j].line = store[j].line
                /\ store'[j].state = IF j = c.id THEN state ELSE store[j].state
<1> USE DEF Inv
<1>1. /\ DOMAIN store' = DOMAIN store
      /\ \A j \in DOMAIN store :
           store'[j] = IF j = c.id
                         THEN [file |-> store[c.id].file, line |-> store[c.id].line,
                               state |-> state]
                         ELSE store[j]
  BY SetStateChanges
<1>2. \A j \in DOMAIN store :
          /\ store'[j].line = store[j].line /\ store'[j].file = store[j].file
          /\ store'[j].state = IF j = c.id THEN state ELSE store[j].state
  BY <1>1
<1>3. IdsGrow' /\ StoreIsTyped'
  BY <1>1 DEF IdsGrow, StoreIsTyped
<1>4. CopiesAgree' /\ CopiesDiffer'
  BY <1>1, <1>2 DEF CopiesAgree, CopiesDiffer, OfScript
<1>5. NothingDecidedYet' /\ NoneLeft'
  BY DEF NothingDecidedYet, NoneLeft
<1>6. UndecidedIsLeft'
  <2> SUFFICES ASSUME NEW i \in present \cap DOMAIN store,
                      OfScript(store[i]), store'[i].state = "Pending"
               PROVE  \E d \in left \ {c} : d.id = i
    BY <1>1, <1>2 DEF UndecidedIsLeft, OfScript
  <2>1. i # c.id /\ store[i].state = "Pending"
    BY <1>2
  <2>2. PICK d \in left : d.id = i
    BY <2>1 DEF UndecidedIsLeft
  <2> QED
    BY <2>1, <2>2
<1>7. OthersUntouched'
  BY <1>1, <1>2 DEF OthersUntouched, CopiesAgree, OfScript
<1> QED
  BY <1>1, <1>2, <1>3, <1>4, <1>5, <1>6, <1>7

LEMMA BindFailsInv == Inv /\ BindFails => Inv'
<1> SUFFICES ASSUME Inv, BindFails PROVE Inv'
  OBVIOUS
<1>1. PICK c \in left : store' = SetState(store, c.id, "Error") /\ left' = left \ {c}
  BY DEF BindFails, Current
<1>2. /\ phase = "binding" /\ phase' = "binding"
      /\ UNCHANGED <<nextId, issued, withdrawn, present, enabled>>
  BY DEF BindFails
<1>3. /\ IdsGrow' /\ StoreIsTyped' /\ CopiesAgree' /\ CopiesDiffer'
      /\ NothingDecidedYet' /\ UndecidedIsLeft' /\ NoneLeft' /\ OthersUntouched'
      /\ DOMAIN store' = DOMAIN store
      /\ \A j \in DOMAIN store :
           /\ store'[j].line = store[j].line
           /\ store'[j].state = IF j = c.id THEN "Error" ELSE store[j].state
  BY <1>1, <1>2, ResultInv
<1>4. \A j \in DOMAIN store : store'[j].state = "Bound" <=> store[j].state = "Bound"
  BY <1>3 DEF Inv, CopiesAgree
<1>5. EngineAgrees'
  BY <1>2, <1>3, <1>4 DEF Inv, EngineAgrees
<1> QED
  BY <1>3, <1>5 DEF Inv

LEMMA BindInv == Inv /\ Bind => Inv'
<1> SUFFICES ASSUME Inv, Bind PROVE Inv'
  OBVIOUS
<1>1. PICK c \in left : /\ store' = SetState(store, c.id, "Bound")
                        /\ left' = left \ {c}
                        /\ enabled' = enabled \cup {c.line}
  BY DEF Bind, Current
<1>2. /\ phase = "binding" /\ phase' = "told"
      /\ UNCHANGED <<nextId, issued, withdrawn, present>>
  BY DEF Bind
<1>3. /\ IdsGrow' /\ StoreIsTyped' /\ CopiesAgree' /\ CopiesDiffer'
      /\ NothingDecidedYet' /\ UndecidedIsLeft' /\ NoneLeft' /\ OthersUntouched'
      /\ DOMAIN store' = DOMAIN store
      /\ \A j \in DOMAIN store :
           /\ store'[j].line = store[j].line
           /\ store'[j].state = IF j = c.id THEN "Bound" ELSE store[j].state
  BY <1>1, <1>2, ResultInv
<1>4. CASE c.id \in DOMAIN store
  <2>1. store[c.id].line = c.line
    BY <1>4 DEF Inv, CopiesAgree
  <2>2. EngineAgrees'
    BY <1>1, <1>2, <1>3, <1>4, <2>1 DEF Inv, EngineAgrees
  <2> QED
    BY <1>3, <2>2 DEF Inv
<1>5. CASE c.id \notin DOMAIN store
  <2>1. c.line \in withdrawn
    BY <1>5 DEF Inv, CopiesAgree
  <2>2. EngineAgrees'
    BY <1>1, <1>2, <1>3, <1>5, <2>1 DEF Inv, EngineAgrees
  <2> QED
    BY <1>3, <2>2 DEF Inv
<1> QED
  BY <1>4, <1>5

LEMMA LoopInv == Inv /\ (HandlersReturn \/ EndBinding) => Inv'
<1> SUFFICES ASSUME Inv, HandlersReturn \/ EndBinding PROVE Inv'
  OBVIOUS
<1>1. /\ UNCHANGED <<nextId, store, left, enabled, issued, withdrawn, present>>
      /\ phase # "editing" /\ phase' # "editing"
      /\ phase' = "done" => left = {}
  BY DEF HandlersReturn, EndBinding
<1>2. IdsGrow' /\ StoreIsTyped' /\ EngineAgrees' /\ OthersUntouched'
  BY <1>1 DEF Inv, IdsGrow, StoreIsTyped, EngineAgrees, OthersUntouched
<1>3. CopiesAgree' /\ CopiesDiffer' /\ NoneLeft'
  BY <1>1 DEF Inv, CopiesAgree, CopiesDiffer, NoneLeft, OfScript
<1>4. NothingDecidedYet' /\ UndecidedIsLeft'
  BY <1>1 DEF Inv, NothingDecidedYet, UndecidedIsLeft, OfScript
<1> QED
  BY <1>2, <1>3, <1>4 DEF Inv

LEMMA StepInv == Inv /\ [Next]_vars => Inv'
<1> SUFFICES ASSUME Inv, [Next]_vars PROVE Inv'
  OBVIOUS
<1>1. CASE UNCHANGED vars
  <2>1. IdsGrow' /\ StoreIsTyped' /\ EngineAgrees' /\ OthersUntouched'
    BY <1>1 DEF vars, Inv, IdsGrow, StoreIsTyped, EngineAgrees, OthersUntouched
  <2>2. CopiesAgree' /\ CopiesDiffer' /\ NoneLeft'
    BY <1>1 DEF vars, Inv, CopiesAgree, CopiesDiffer, NoneLeft, OfScript
  <2>3. NothingDecidedYet' /\ UndecidedIsLeft'
    BY <1>1 DEF vars, Inv, NothingDecidedYet, UndecidedIsLeft, OfScript
  <2> QED
    BY <2>1, <2>2, <2>3 DEF Inv
<1> QED
  BY <1>1, AddInv, RemoveInv, DisableInv, BeginBindingInv, BindFailsInv,
     BindInv, LoopInv
  DEF Next

LEMMA Invariance == Spec => []Inv
  BY InitInv, StepInv, PTL DEF Spec

-----------------------------------------------------------------------------
\* The store, the copies and the lines keep their types.
THEOREM TypeCorrect == Spec => []TypeOK
<1>1. Init => TypeOK
  BY DEF Init, TypeOK
<1>2. Inv /\ TypeOK /\ [Next]_vars => TypeOK'
  <2> SUFFICES ASSUME Inv, TypeOK, [Next]_vars PROVE TypeOK'
    OBVIOUS
  <2>1. CASE Add
    <3>1. PICK f \in Files, l \in Lines :
              store' = [i \in DOMAIN store \cup {nextId} |->
                          IF i = nextId
                            THEN [file |-> f, line |-> l, state |-> "Pending"]
                            ELSE store[i]]
      BY <2>1 DEF Add, NewId
    <3>2. /\ nextId' = nextId + 1 /\ issued' = issued \cup {nextId}
          /\ UNCHANGED <<phase, left, enabled, withdrawn, present>>
      BY <2>1 DEF Add, FrontEnd, NewId
    <3>3. \A i \in DOMAIN store' : store'[i] \in Breakpoint
      BY <3>1 DEF TypeOK, Breakpoint, States
    <3>4. nextId' \in Nat \ {0} /\ issued' \subseteq Nat
      BY <3>2 DEF TypeOK
    <3>5. DOMAIN store' \subseteq Nat /\ present' \subseteq issued'
      BY <3>1, <3>2 DEF TypeOK
    <3> QED
      BY <3>2, <3>3, <3>4, <3>5 DEF TypeOK
  <2>2. CASE Remove
    BY <2>2 DEF Remove, FrontEnd, TypeOK, Breakpoint
  <2>3. ASSUME NEW i, NEW state \in States, store' = SetState(store, i, state)
        PROVE  DOMAIN store' = DOMAIN store
               /\ \A j \in DOMAIN store' : store'[j] \in Breakpoint
    BY <2>3 DEF SetState, TypeOK, Breakpoint
  <2>4. CASE Disable
    <3>1. PICK i \in DOMAIN store : /\ store' = SetState(store, i, "Disabled")
                                    /\ withdrawn' = withdrawn \cup {store[i].line}
      BY <2>4 DEF Disable
    <3>2. /\ DOMAIN store' = DOMAIN store
          /\ \A j \in DOMAIN store' : store'[j] \in Breakpoint
      BY <2>3, <3>1 DEF States
    <3>3. store[i].line \in Lines
      BY DEF TypeOK, Breakpoint
    <3> QED
      BY <2>4, <3>1, <3>2, <3>3 DEF Disable, FrontEnd, TypeOK
  <2>5. CASE BeginBinding
    <3>1. ForFile(Script) \subseteq Copy
      BY DEF ForFile, TypeOK, Copy, Breakpoint
    <3> QED
      BY <2>5, <3>1 DEF BeginBinding, TypeOK, Inv, IdsGrow
  <2>6. CASE BindFails
    <3>1. PICK c \in left : store' = SetState(store, c.id, "Error") /\ left' = left \ {c}
      BY <2>6 DEF BindFails, Current
    <3> QED
      BY <2>3, <2>6, <3>1 DEF BindFails, TypeOK, States
  <2>7. CASE Bind
    <3>1. PICK c \in left : /\ store' = SetState(store, c.id, "Bound")
                            /\ left' = left \ {c}
                            /\ enabled' = enabled \cup {c.line}
      BY <2>7 DEF Bind, Current
    <3> QED
      BY <2>3, <2>7, <3>1 DEF Bind, TypeOK, States, Copy
  <2>8. CASE HandlersReturn \/ EndBinding \/ UNCHANGED vars
    BY <2>8 DEF HandlersReturn, EndBinding, vars, TypeOK
  <2> QED
    BY <2>1, <2>2, <2>4, <2>5, <2>6, <2>7, <2>8 DEF Next
<1> QED
  BY <1>1, <1>2, Invariance, PTL DEF Spec

\* The engine breaks wherever the store shows a breakpoint as bound, and
\* nowhere else but where a front end has withdrawn one: for any edits in the
\* middle of the loop, since a copy agrees with its breakpoint or that one is
\* gone.
THEOREM EngineFollowsStore == Spec => []EngineAgrees
<1>1. Inv => EngineAgrees
  BY DEF Inv
<1> QED
  BY <1>1, Invariance, PTL

\* The loop decides nothing about breakpoints of other files.
THEOREM OtherFilesUntouched == Spec => []OthersUntouched
<1>1. Inv => OthersUntouched
  BY DEF Inv
<1> QED
  BY <1>1, Invariance, PTL

\* When the loop is over, each breakpoint of the script's file that was there
\* when it began is decided or gone.
THEOREM BindingDecidesAll == Spec => []AllDecided
<1>1. Inv => AllDecided
  BY DEF Inv, AllDecided, UndecidedIsLeft, NoneLeft, OfScript
<1> QED
  BY <1>1, Invariance, PTL

\* No breakpoint that is added gets an id that was issued before.
THEOREM IdsAreNeverReused == Spec => IdsAreNew
<1>1. Inv /\ [Next]_vars => \A i \in DOMAIN store' \ DOMAIN store : i \notin issued
  <2> SUFFICES ASSUME Inv, [Next]_vars,
                      NEW i \in DOMAIN store' \ DOMAIN store
               PROVE  i \notin issued
    OBVIOUS
  <2>1. CASE Add
    <3>1. PICK f \in Files, l \in Lines :
              store' = [j \in DOMAIN store \cup {nextId} |->
                          IF j = nextId
                            THEN [file |-> f, line |-> l, state |-> "Pending"]
                            ELSE store[j]]
      BY <2>1 DEF Add, NewId
    <3>2. i = nextId
      BY <3>1
    <3> QED
      BY <3>2 DEF Inv, IdsGrow
  <2>2. CASE Remove
    BY <2>2 DEF Remove
  <2>3. CASE Disable \/ BindFails \/ Bind
    <3>1. PICK k, state : store' = SetState(store, k, state)
      BY <2>3 DEF Disable, BindFails, Bind
    <3>2. DOMAIN store' = DOMAIN store
      BY <3>1, SetStateChanges DEF Inv
    <3> QED
      BY <3>2
  <2>4. CASE UNCHANGED store
    BY <2>4
  <2> QED
    BY <2>1, <2>2, <2>3, <2>4
    DEF Next, vars, BeginBinding, HandlersReturn, EndBinding
<1> QED
  BY <1>1, Invariance, PTL DEF Spec, IdsAreNew

=============================================================================
