----------------------------- MODULE CommandLine -----------------------------
(***************************************************************************)
(* wmain up to the call of ActiveScriptHost::run, and its exit status: the *)
(* arguments are read from left to right, an option that takes a value     *)
(* takes whatever comes next, and the first argument that is no option is  *)
(* the script.  The prompt of a debug run is in DebugControl.tla.  The      *)
(* usage text is stated apart from it, as the sentences a user may write.  *)
(***************************************************************************)
EXTENDS Integers, Sequences

CONSTANTS
    Words,          \* the words of the command lines
    CommandLines,   \* bound: the command lines of this instance
    Scripts,        \* the words whose extension is .vbs or .js
    Numeral,        \* the words that stoul reads to their end, and what they say
    MaxLine         \* UINT32_MAX, which is ULONG_MAX on Windows too

Empty == ""   \* a word too: an argument may be empty
Commands == {"run", "debug"}
Levels == {"off", "error", "errors", "debug", "trace"}
ValueOptions == {"--log-level", "--log-file", "--break"}
Options == ValueOptions \cup {"--break-on-entry"}

ASSUME CommandLineAssumption ==
    /\ Words \subseteq STRING
    /\ CommandLines \subseteq Seq(Words)
    /\ Scripts \subseteq STRING \ (Options \cup {Empty})
    /\ DOMAIN Numeral \subseteq STRING
    /\ \A w \in DOMAIN Numeral :
          Numeral[w] \in [negative : BOOLEAN, value : Nat]
    /\ MaxLine \in Nat

VARIABLES
    argv,      \* the arguments
    i,         \* the argument read next
    options,   \* what has been read: the locals of wmain
    phase,     \* where wmain is
    logger,    \* what the logger has been told: its level and its file
    request,   \* what run is called with: one element, or none
    status     \* the exit status, once there is one

vars == <<argv, i, options, phase, logger, request, status>>

Phases == {"command", "arguments", "running", "exited"}
Requests ==
    [script : Words, lines : Seq(1 .. MaxLine), debug : BOOLEAN,
     entry : BOOLEAN, control : BOOLEAN]
None == "none"

TypeOK ==
    /\ argv \in Seq(Words)
    /\ i \in 1 .. Len(argv) + 1
    /\ options \in [entry : BOOLEAN, script : Words \cup {Empty},
                   lines : Seq(1 .. MaxLine), level : Levels,
                   file : Words \cup {Empty}]
    /\ phase \in Phases
    /\ logger \in [level : Levels, file : Words \cup {Empty}]
    /\ request \subseteq Requests
    /\ status \in {None, "0", "1", "2"}

Init ==
    /\ argv \in CommandLines
    /\ i = 1
    /\ options = [entry |-> FALSE, script |-> Empty, lines |-> <<>>,
                  level |-> "error", file |-> Empty]
    /\ phase = "command"
    /\ logger = [level |-> "error", file |-> Empty]
    /\ request = {}
    /\ status = None

Exit(s) == phase' = "exited" /\ status' = s

\* parse_line, with 0 for nullopt.  stoul throws beyond ULONG_MAX and takes a
\* sign: -1 is the largest line.
ParseLine(word) ==
    IF word \notin DOMAIN Numeral \/ Numeral[word].value > MaxLine THEN 0
    ELSE IF Numeral[word].negative
      THEN (MaxLine + 1 - Numeral[word].value) % (MaxLine + 1)
      ELSE Numeral[word].value

\* parse_log_level, of a word that it knows.
ParseLogLevel(word) == IF word = "errors" THEN "error" ELSE word

\* A value that its option refuses.
ValueIsBad(option, value) ==
    \/ option = "--log-level" /\ value \notin Levels
    \/ option = "--break" /\ ParseLine(value) = 0

\* The first argument: the version, the usage, or a command.
ReadCommand ==
    /\ phase = "command"
    /\ IF argv \in {<<>>, <<"--version">>} THEN Exit("0") /\ i' = i
       ELSE IF Len(argv) < 2 \/ argv[1] \notin Commands
         THEN Exit("2") /\ i' = i
         ELSE phase' = "arguments" /\ i' = 2 /\ status' = status
    /\ UNCHANGED <<argv, options, logger, request>>

Reading == phase = "arguments" /\ i <= Len(argv)

\* What an option makes of its value.
TakeValue(option, value) ==
    [options EXCEPT
        !.level = IF option = "--log-level" THEN ParseLogLevel(value) ELSE @,
        !.file = IF option = "--log-file" THEN value ELSE @,
        !.lines = IF option = "--break" THEN Append(@, ParseLine(value)) ELSE @]

\* Mutant: a value that looks like an option is not taken.
ReadValueUnlessOption ==
    /\ Reading
    /\ argv[i] \in ValueOptions
    /\ IF i = Len(argv) \/ argv[i + 1] \in Options
         THEN Exit("2") /\ UNCHANGED <<i, options>>
         ELSE /\ i' = i + 2
              /\ options' = TakeValue(argv[i], argv[i + 1])
              /\ UNCHANGED <<phase, status>>
    /\ UNCHANGED <<argv, logger, request>>

\* An option with a value: there must be one, and a good one.
ReadValue ==
    /\ Reading
    /\ argv[i] \in ValueOptions
    /\ IF i = Len(argv) \/ ValueIsBad(argv[i], argv[i + 1])
         THEN Exit("2") /\ UNCHANGED <<i, options>>
         ELSE /\ i' = i + 2
              /\ options' = TakeValue(argv[i], argv[i + 1])
              /\ UNCHANGED <<phase, status>>
    /\ UNCHANGED <<argv, logger, request>>

ReadBreakOnEntry ==
    /\ Reading
    /\ argv[i] = "--break-on-entry"
    /\ options' = [options EXCEPT !.entry = TRUE]
    /\ i' = i + 1
    /\ UNCHANGED <<argv, phase, logger, request, status>>

\* Mutant: of several scripts the last is run.
ReadScriptLast ==
    /\ Reading
    /\ argv[i] \notin Options
    /\ options' = [options EXCEPT !.script = argv[i]]
    /\ i' = i + 1
    /\ UNCHANGED <<argv, phase, logger, request, status>>

\* Anything else is the script, unless there is one.
ReadScript ==
    /\ Reading
    /\ argv[i] \notin Options
    /\ IF options.script = Empty
         THEN /\ options' = [options EXCEPT !.script = argv[i]]
              /\ i' = i + 1
              /\ UNCHANGED <<phase, status>>
         ELSE Exit("2") /\ UNCHANGED <<i, options>>
    /\ UNCHANGED <<argv, logger, request>>

\* All is read: without a script nothing happens; otherwise the logger is told,
\* and unless the script is of an unknown kind the breakpoints are added and run
\* is called, with a control and on a thread of its own if anything asks for
\* debugging.
Launch ==
    /\ phase = "arguments"
    /\ i > Len(argv)
    /\ logger' = IF options.script = Empty THEN logger
                 ELSE [level |-> options.level, file |-> options.file]
    /\ IF options.script \notin Scripts
         THEN Exit("2") /\ request' = request
         ELSE /\ phase' = "running"
              /\ LET debug == \/ argv[1] = "debug"
                              \/ options.lines # <<>>
                              \/ options.entry
                 IN  request' = {[script |-> options.script,
                                  lines |-> options.lines,
                                  debug |-> debug,
                                  entry |-> debug /\ options.entry,
                                  control |-> debug]}
              /\ status' = status
    /\ UNCHANGED <<argv, i, options>>

\* run returns, and the worker, if there is one, is joined.
Return ==
    /\ phase = "running"
    /\ \E ok \in BOOLEAN : Exit(IF ok THEN "0" ELSE "1")
    /\ UNCHANGED <<argv, i, options, logger, request>>

Next ==
    \/ ReadCommand \/ ReadValue \/ ReadBreakOnEntry \/ ReadScript
    \/ Launch \/ Return

Spec == Init /\ [][Next]_vars

-----------------------------------------------------------------------------
(* The usage text, which says nothing of how a line is read:               *)
(*                                                                         *)
(*   run [--log-level off|error|debug|trace] [--log-file path] script      *)
(*   debug [--break line] [--break-on-entry]                               *)
(*         [--log-level off|error|debug|trace] [--log-file path] script    *)
(*                                                                         *)
(* The options are taken to come in any order, and more than once.  wmain  *)
(* accepts more than that: the options of debug with run, options after    *)
(* the script, "errors", --break -1, empty words before the script.        *)

UsageLevels == {"off", "error", "debug", "trace"}

UsageOptions(command) ==
    {"--log-level", "--log-file"} \cup
    (IF command = "debug" THEN {"--break", "--break-on-entry"} ELSE {})

\* A number that is a line.
IsLine(word) ==
    word \in DOMAIN Numeral /\ Numeral[word].value \in 1 .. MaxLine

UsageValue(option, value) ==
    /\ option = "--log-level" => value \in UsageLevels
    /\ option = "--log-file" => value # Empty
    /\ option = "--break" => IsLine(value) /\ ~Numeral[value].negative

\* Heads are the words of a line that are not the value of the word before.
HeadsUpTo(line, heads, n) ==
    \A k \in 2 .. n :
        k \in heads <=> (k - 1 \in heads => line[k - 1] \notin ValueOptions)

\* A line that the usage text allows: a command, its options with their values,
\* and a script at the end.
Sentence(line, heads) ==
    /\ Len(line) > 1
    /\ line[1] \in Commands
    /\ Len(line) \in heads /\ line[Len(line)] \in Scripts
    /\ HeadsUpTo(line, heads, Len(line))
    /\ \A k \in heads \ {Len(line)} :
          /\ line[k] \in UsageOptions(line[1])
          /\ UsageValue(line[k], line[k + 1])

\* The breakpoints that a sentence names, in their order.
BreaksInOrder(line, heads, lines) ==
    \E at \in [1 .. Len(lines) -> heads] :
        /\ \A n \in 2 .. Len(lines) : at[n - 1] < at[n]
        /\ {at[n] : n \in 1 .. Len(lines)} = {k \in heads : line[k] = "--break"}
        /\ \A n \in 1 .. Len(lines) : lines[n] = Numeral[line[at[n] + 1]].value

\* The value that a sentence gives an option: the last one, if there is one.
Names(line, heads, option, default, value) ==
    IF \A k \in heads : line[k] # option
    THEN value = default
    ELSE \E k \in heads :
            /\ line[k] = option /\ line[k + 1] = value
            /\ \A j \in heads : line[j] = option => j <= k

\* A mistake that no reading of the usage text forgives: no command, no value
\* or no such value, no script, or a word beside it that is no option.
Mistaken(line, heads) ==
    /\ line \notin {<<>>, <<"--version">>}
    /\ HeadsUpTo(line, heads, Len(line))
    /\ \/ line[1] \notin Commands
       \/ Len(line) \in heads /\ line[Len(line)] \in ValueOptions
       \/ \E k \in heads \ {Len(line)} :
             \/ line[k] = "--log-level" /\ line[k + 1] \notin Levels
             \/ line[k] = "--break" /\ ~IsLine(line[k + 1])
       \/ \A k \in heads : line[k] \notin Scripts
       \/ \E j, k \in heads :
             j # k /\ {line[j], line[k]} \cap (Options \cup {Empty}) = {}

-----------------------------------------------------------------------------
(* Properties. *)

\* wmain accepts what its usage text allows and takes it for what it says: what
\* follows an option with a value is its value, be it an option itself; exactly
\* the script that is named runs, debugged with a control if debug was said,
\* with the breakpoints that are named, in their order, and the logger is told
\* the level and the file.
AcceptsSentences ==
    \A heads \in SUBSET (2 .. Len(argv)) : Sentence(argv, heads) =>
        /\ phase = "exited" => request # {}
        /\ \A r \in request :
              /\ r.script = argv[Len(argv)]
              /\ r.debug = (argv[1] = "debug") /\ r.control = r.debug
              /\ r.entry <=> \E k \in heads : argv[k] = "--break-on-entry"
              /\ BreaksInOrder(argv, heads, r.lines)
              /\ Names(argv, heads, "--log-level", "error", logger.level)
              /\ Names(argv, heads, "--log-file", Empty, logger.file)

\* A mistake anywhere on the line, before or after the script, is noticed before
\* anything is run, and the status says so.
RefusesMistakes ==
    (\E heads \in SUBSET (2 .. Len(argv)) : Mistaken(argv, heads)) =>
        /\ request = {}
        /\ phase = "exited" => status = "2"

=============================================================================
