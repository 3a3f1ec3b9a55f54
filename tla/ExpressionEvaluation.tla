------------------------ MODULE ExpressionEvaluation ------------------------
(***************************************************************************)
(* evaluate and execute after they have copied the frame's cookie (up to   *)
(* there they are in DebugControl.tla): the expression is parsed and       *)
(* started in the held debuggee, which runs it on its own thread, while    *)
(* wait_expression asks every millisecond whether it is complete and gives *)
(* up after a number of times.  The script has one variable.               *)
(*                                                                         *)
(* Commands are numbered; the number names the expression, and is the      *)
(* value that a statement assigns.  (CommandProofs.tla extends this module *)
(* and CommandLine, which is why its initial state and steps are EvalInit  *)
(* and EvalNext.)                                                          *)
(***************************************************************************)
EXTENDS Naturals

CONSTANTS
    Timeout,       \* how often wait_expression asks (5000 in the code)
    MaxCommands,   \* bound: commands given
    Faults         \* what may fail in this instance

AllFaults == {"parse", "start", "query", "result"}

ASSUME EvaluationAssumption ==
    /\ Timeout \in Nat
    /\ MaxCommands \in Nat
    /\ Faults \subseteq AllFaults

Expressions == 1 .. MaxCommands
Results == {"none", "success", "timeout", "error"}

VARIABLES
    \* the controller
    pc,         \* "prompt", "parse", "start", "poll", "sleep", "result", "resumed"
    command,    \* the number of the last command
    kind,       \* "print" (evaluate, no side effects) or "exec" (execute)
    elapsed,    \* in wait_expression
    result,     \* what the last command returned ...
    shown,      \* ... and the value it showed
    \* the debuggee
    value,      \* of the script's variable
    running,    \* expressions started and neither complete nor aborted
    complete,   \* the last expression is complete ...
    outcome,    \* ... and this is its value
    abandoned   \* history: expressions whose query has failed

debuggee == <<value, running, complete, outcome>>
evalVars == <<pc, command, kind, elapsed, result, shown, debuggee, abandoned>>

EvalTypeOK ==
    /\ pc \in {"prompt", "parse", "start", "poll", "sleep", "result", "resumed"}
    /\ command \in 0 .. MaxCommands
    /\ kind \in {"print", "exec"}
    /\ elapsed \in 0 .. Timeout
    /\ result \in Results
    /\ shown \in 0 .. MaxCommands
    /\ value \in 0 .. MaxCommands
    /\ running \subseteq Expressions \X {"print", "exec"}
    /\ abandoned \subseteq Expressions \X {"print", "exec"}
    /\ complete \in BOOLEAN
    /\ outcome \in 0 .. MaxCommands

EvalInit ==
    /\ pc = "prompt"
    /\ command = 0
    /\ kind = "print"
    /\ elapsed = 0
    /\ result = "none"
    /\ shown = 0
    /\ value = 0
    /\ running = {}
    /\ complete = FALSE
    /\ outcome = 0
    /\ abandoned = {}

\* The expression that the last command has made.
Current == <<command, kind>>

-----------------------------------------------------------------------------
(* The controller. *)

\* The user types p EXPR or exec STMT.
Command ==
    /\ pc = "prompt"
    /\ command < MaxCommands
    /\ command' = command + 1
    /\ kind' \in {"print", "exec"}
    /\ pc' = "parse"
    /\ UNCHANGED <<elapsed, result, shown, debuggee, abandoned>>

\* The command ends without a value.
Answer(why) ==
    /\ result' = why
    /\ pc' = "prompt"
    /\ UNCHANGED <<command, kind, elapsed, shown>>

\* ParseLanguageText.
Parse ==
    /\ pc = "parse"
    /\ \/ /\ pc' = "start"
          /\ UNCHANGED <<command, kind, elapsed, result, shown>>
       \/ /\ "parse" \in Faults
          /\ Answer("error")
    /\ UNCHANGED <<debuggee, abandoned>>

\* Start, and the loop of wait_expression is set up.
Start ==
    /\ pc = "start"
    /\ \/ /\ running' = running \cup {Current}
          /\ complete' = FALSE
          /\ elapsed' = 0
          /\ pc' = "poll"
          /\ UNCHANGED <<command, kind, result, shown, value, outcome>>
       \/ /\ "start" \in Faults
          /\ Answer("error")
          /\ UNCHANGED debuggee
    /\ UNCHANGED abandoned

\* Mutant: S_FALSE, which means pending, is taken for success.
PollTakesPending ==
    /\ pc = "poll"
    /\ elapsed < Timeout
    /\ \/ /\ pc' = "result"
          /\ UNCHANGED <<command, kind, elapsed, result, shown, abandoned>>
       \/ /\ "query" \in Faults
          /\ Answer("error")
          /\ abandoned' = abandoned \cup {Current}
    /\ UNCHANGED debuggee

\* QueryIsComplete: complete, pending, or failed.
Poll ==
    /\ pc = "poll"
    /\ elapsed < Timeout
    /\ \/ /\ pc' = IF complete THEN "result" ELSE "sleep"
          /\ UNCHANGED <<command, kind, elapsed, result, shown, abandoned>>
       \/ /\ "query" \in Faults
          /\ Answer("error")
          /\ abandoned' = abandoned \cup {Current}
    /\ UNCHANGED debuggee

\* Mutant: the loop does not count.
SleepForever ==
    /\ pc = "sleep"
    /\ pc' = "poll"
    /\ UNCHANGED <<command, kind, elapsed, result, shown, debuggee, abandoned>>

Sleep ==
    /\ pc = "sleep"
    /\ elapsed' = elapsed + 1
    /\ pc' = "poll"
    /\ UNCHANGED <<command, kind, result, shown, debuggee, abandoned>>

\* Mutant: wait_expression gives up without aborting the expression.
GiveUpOnly ==
    /\ pc = "poll"
    /\ elapsed = Timeout
    /\ Answer("timeout")
    /\ UNCHANGED <<debuggee, abandoned>>

\* The loop is over: Abort, after which the debuggee does not go on with the
\* expression.
GiveUp ==
    /\ pc = "poll"
    /\ elapsed = Timeout
    /\ running' = running \ {Current}
    /\ Answer("timeout")
    /\ UNCHANGED <<value, complete, outcome, abandoned>>

\* GetResultAsString: the value, or the error that the expression ended in.
GetResult ==
    /\ pc = "result"
    /\ \/ /\ result' = "success"
          /\ shown' = outcome
          /\ pc' = "prompt"
          /\ UNCHANGED <<command, kind, elapsed>>
       \/ /\ "result" \in Faults
          /\ Answer("error")
    /\ UNCHANGED <<debuggee, abandoned>>

\* resume, and the next stop of the script.
Resume ==
    /\ pc = "prompt"
    /\ pc' = "resumed"
    /\ UNCHANGED <<command, kind, elapsed, result, shown, debuggee, abandoned>>

StopAgain ==
    /\ pc = "resumed"
    /\ pc' = "prompt"
    /\ UNCHANGED <<command, kind, elapsed, result, shown, debuggee, abandoned>>

-----------------------------------------------------------------------------
(* The debuggee. *)

\* An expression completes: a statement may assign; what is evaluated must not
\* have side effects, which evaluate asks the engine to see to.
Complete ==
    \E e \in running :
        /\ running' = running \ {e}
        /\ value' \in IF e[2] = "exec" THEN {value, e[1]} ELSE {value}
        /\ complete' = (e = Current \/ complete)
        /\ outcome' = IF e = Current THEN value' ELSE outcome
        /\ UNCHANGED <<pc, command, kind, elapsed, result, shown, abandoned>>

Controller ==
    \/ Parse \/ Start \/ Poll \/ Sleep \/ GiveUp \/ GetResult

User == Command \/ Resume \/ StopAgain

EvalNext == Controller \/ User \/ Complete

EvalSpec == EvalInit /\ [][EvalNext]_evalVars

\* The controller's thread goes on with a command that it has begun.  Nothing
\* is assumed of the expression: it may loop for ever.
FairSpec == EvalSpec /\ WF_evalVars(Controller)

-----------------------------------------------------------------------------
(* Properties. *)

\* An expression only runs while its command waits for it: none is left behind
\* to change the script after its command has returned, be it at the prompt or
\* when the script has been resumed.  The only exception are those whose query
\* has failed, on which the command returns without Abort.
NothingLeftRunning ==
    \A e \in running \ abandoned : e = Current /\ pc \in {"poll", "sleep"}

\* What p EXPR shows is the value that the variable has then, later than any
\* statement executed at the same prompt, as long as no failed query has left
\* one running.  (locals shows the value of the stop.)
ShownIsCurrent ==
    [][abandoned = {} /\ pc = "result" /\ kind = "print" /\ pc' = "prompt"
         /\ result' = "success" => shown' = value']_evalVars

\* Every command returns, even if its expression never completes.
CommandsReturn ==
    [](pc \in {"parse", "start", "poll", "sleep", "result"} => <>(pc = "prompt"))

=============================================================================
