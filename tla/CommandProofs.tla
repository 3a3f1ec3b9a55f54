---------------------------- MODULE CommandProofs ----------------------------
(***************************************************************************)
(* What TLAPS proves of what the user asks wshdbg for: of the command line *)
(* (CommandLine), for any words and any length, and of the commands at the *)
(* prompt that evaluate (ExpressionEvaluation), for any timeout, whichever *)
(* calls fail and whenever expressions complete.                           *)
(***************************************************************************)
EXTENDS CommandLine, ExpressionEvaluation, TLAPS

-----------------------------------------------------------------------------
(* The command line. *)

\* What has been read of a command line whose heads up to i are these.
HeadsRead(heads) ==
    /\ heads \subseteq 2 .. i - 1
    /\ HeadsUpTo(argv, heads, i - 1)
    /\ i - 1 \in heads => argv[i - 1] \notin ValueOptions
    /\ \A k \in heads : argv[k] \in ValueOptions =>
          k < i - 1 /\ ~ValueIsBad(argv[k], argv[k + 1])

\* There is no other way to read it: the heads of the whole command line, if it
\* has any, begin with these, and the word to be read next is one.
NoOtherHeads(heads) ==
    \A all \in SUBSET (2 .. Len(argv)) :
        HeadsUpTo(argv, all, Len(argv)) =>
            /\ all \cap (2 .. i - 1) = heads
            /\ i <= Len(argv) => i \in all

\* The script is the one head that is no option, but for empty words before it.
ScriptRead(heads) ==
    IF options.script = Empty
    THEN \A k \in heads : argv[k] \in Options \cup {Empty}
    ELSE \E script \in heads :
            /\ argv[script] = options.script
            /\ options.script \notin Options
            /\ \A k \in heads \ {script} :
                  argv[k] \in Options \/ (argv[k] = Empty /\ k < script)

\* The lines read so far are those of the --break heads, in their order.
BreaksRead(line, heads, lines) ==
    \E at \in [1 .. Len(lines) -> heads] :
        /\ \A n \in 2 .. Len(lines) : at[n - 1] < at[n]
        /\ {at[n] : n \in 1 .. Len(lines)} = {k \in heads : line[k] = "--break"}
        /\ \A n \in 1 .. Len(lines) : lines[n] = ParseLine(line[at[n] + 1])

\* The level is what the last --log-level says.
LevelRead(line, heads, level) ==
    \E word : /\ Names(line, heads, "--log-level", "error", word)
              /\ level = ParseLogLevel(word)

Read(heads) ==
    /\ HeadsRead(heads)
    /\ NoOtherHeads(heads)
    /\ ScriptRead(heads)
    /\ options.entry <=> (\E k \in heads : argv[k] = "--break-on-entry")
    /\ BreaksRead(argv, heads, options.lines)
    /\ LevelRead(argv, heads, options.level)
    /\ Names(argv, heads, "--log-file", Empty, options.file)

Inv ==
    /\ phase = "command" => i = 1 /\ options.script = Empty /\ request = {}
                            /\ ~options.entry /\ options.lines = <<>>
                            /\ options.level = "error" /\ options.file = Empty
    /\ phase = "arguments" =>
          /\ i >= 2 /\ Len(argv) > 1 /\ argv[1] \in Commands /\ request = {}
          /\ \E heads \in SUBSET (2 .. Len(argv)) : Read(heads)
    /\ phase = "running" => request # {}
    /\ AcceptsSentences
    /\ RefusesMistakes

\* No SMT solver is given the empty word itself.
LEMMA EmptyIsNoOption == Empty \notin Options
  BY Zenon DEF Empty, Options, ValueOptions

LEMMA ParseLineType ==
    ASSUME NEW word
    PROVE  ParseLine(word) \in 0 .. MaxLine
<1> USE CommandLineAssumption DEF CommandLineAssumption
<1>1. CASE word \notin DOMAIN Numeral \/ Numeral[word].value > MaxLine
  BY <1>1 DEF ParseLine
<1>2. CASE word \in DOMAIN Numeral /\ ~(Numeral[word].value > MaxLine)
  <2> DEFINE v == Numeral[word].value
  <2>1. v \in 0 .. MaxLine /\ MaxLine \in Nat
    BY <1>2
  <2>2. (MaxLine + 1 - v) % (MaxLine + 1) \in 0 .. MaxLine
    BY <2>1
  <2> QED
    BY <1>2, <2>1, <2>2 DEF ParseLine
<1> QED
  BY <1>1, <1>2

\* What has been read, as TypeOK has it.
OptionsRead ==
    [entry : BOOLEAN, script : Words \cup {Empty}, lines : Seq(1 .. MaxLine),
     level : Levels, file : Words \cup {Empty}]

LEMMA TypeInit == Init => TypeOK
<1> SUFFICES ASSUME Init PROVE TypeOK
  OBVIOUS
<1>1. argv \in Seq(Words)
  BY CommandLineAssumption DEF CommandLineAssumption, Init
<1> QED
  BY <1>1 DEF Init, TypeOK, Phases, None, Levels

LEMMA TypeStep == TypeOK /\ [Next]_vars => TypeOK'
<1> SUFFICES ASSUME TypeOK, [Next]_vars PROVE TypeOK'
  OBVIOUS
<1> USE DEF TypeOK, Phases, Requests, Exit, None
<1>1. CASE ReadCommand
  BY <1>1 DEF ReadCommand
<1>2. CASE ReadValue
  <2>1. ASSUME ~ValueIsBad(argv[i], argv[i + 1]), argv[i] = "--break"
        PROVE  ParseLine(argv[i + 1]) \in 1 .. MaxLine
    BY <2>1, ParseLineType, CommandLineAssumption DEF CommandLineAssumption, ValueIsBad
  <2>2. CASE i = Len(argv) \/ ValueIsBad(argv[i], argv[i + 1])
    BY <1>2, <2>2 DEF ReadValue, Reading
  <2>3. CASE i # Len(argv) /\ ~ValueIsBad(argv[i], argv[i + 1])
    <3>1. i' \in 1 .. Len(argv') + 1
      BY <1>2, <2>3 DEF ReadValue, Reading
    <3>2. options' = TakeValue(argv[i], argv[i + 1])
      BY <1>2, <2>3 DEF ReadValue
    <3>3. argv[i] = "--break" =>
            Append(options.lines, ParseLine(argv[i + 1])) \in Seq(1 .. MaxLine)
      BY <2>1, <2>3
    <3>4. argv[i] = "--log-level" => ParseLogLevel(argv[i + 1]) \in Levels
      BY <2>3 DEF ValueIsBad, ParseLogLevel, Levels
    <3>5. argv[i + 1] \in Words
      BY <1>2, <2>3 DEF ReadValue, Reading
    <3>6. options' \in OptionsRead
      BY <3>2, <3>3, <3>4, <3>5 DEF TakeValue, OptionsRead
    <3> QED
      BY <1>2, <2>3, <3>1, <3>6 DEF ReadValue, Reading, OptionsRead
  <2> QED
    BY <2>2, <2>3
<1>3. CASE ReadBreakOnEntry
  <2>1. options' = [options EXCEPT !.entry = TRUE] /\ i' = i + 1 /\ i <= Len(argv)
    BY <1>3 DEF ReadBreakOnEntry, Reading
  <2>2. options' \in OptionsRead
    BY <2>1 DEF OptionsRead
  <2> QED
    BY <1>3, <2>1, <2>2 DEF ReadBreakOnEntry, OptionsRead
<1>4. CASE ReadScript
  <2>1. argv[i] \in Words
    BY <1>4 DEF ReadScript, Reading
  <2> QED
    BY <1>4, <2>1 DEF ReadScript, Reading
<1>5. CASE Launch
  <2>1. request' \subseteq Requests
    <3> DEFINE debug == \/ argv[1] = "debug"
                        \/ options.lines # <<>>
                        \/ options.entry
    <3>1. debug \in BOOLEAN /\ (debug /\ options.entry) \in BOOLEAN
      BY Zenon
    <3>2. request' = request \/
          /\ options.script \in Scripts
          /\ request' = {[script |-> options.script, lines |-> options.lines,
                          debug |-> debug, entry |-> debug /\ options.entry,
                          control |-> debug]}
      BY <1>5, Zenon DEF Launch
    <3> HIDE DEF debug
    <3>3. options.script \in Scripts => options.script \in Words
      BY CommandLineAssumption DEF CommandLineAssumption
    <3>4. options.script \in Scripts =>
          [script |-> options.script, lines |-> options.lines,
           debug |-> debug, entry |-> debug /\ options.entry,
           control |-> debug] \in Requests
      BY <3>1, <3>3
    <3> QED
      BY <3>2, <3>4
  <2>2. logger' \in [level : Levels, file : Words \cup {Empty}]
    BY <1>5 DEF Launch
  <2> QED
    BY <1>5, <2>1, <2>2 DEF Launch
<1>6. CASE Return
  BY <1>6 DEF Return
<1>7. CASE UNCHANGED vars
  BY <1>7 DEF vars
<1> QED
  BY <1>1, <1>2, <1>3, <1>4, <1>5, <1>6, <1>7 DEF Next

\* The variables of CommandLine keep their types; in particular, each line that
\* is kept is one that a breakpoint can be set at.
THEOREM TypeCorrect == Spec => []TypeOK
  BY TypeInit, TypeStep, PTL DEF Spec

-----------------------------------------------------------------------------
(* Reading, from one head to the next. *)

\* The next head takes no value.
LEMMA NextHead ==
    ASSUME argv \in Seq(Words), i \in 2 .. Len(argv),
           NEW heads \in SUBSET (2 .. Len(argv)),
           HeadsRead(heads), NoOtherHeads(heads),
           argv[i] \notin ValueOptions,
           argv' = argv, i' = i + 1,
           NEW more, more = heads \cup {i}
    PROVE  HeadsRead(more)' /\ NoOtherHeads(more)'
<1>1. HeadsRead(more)'
  BY DEF HeadsRead, HeadsUpTo
<1>2. ASSUME NEW all \in SUBSET (2 .. Len(argv)), HeadsUpTo(argv, all, Len(argv))
      PROVE  all \cap (2 .. i) = more /\ (i + 1 <= Len(argv) => i + 1 \in all)
  <2>1. all \cap (2 .. i - 1) = heads /\ i \in all
    BY <1>2 DEF NoOtherHeads
  <2>2. i + 1 <= Len(argv) => i + 1 \in all
    BY <1>2 DEF HeadsUpTo
  <2> QED
    BY <2>1, <2>2
<1> QED
  BY <1>1, <1>2 DEF NoOtherHeads

\* The next head takes the word after it for its value.
LEMMA NextHeadWithValue ==
    ASSUME argv \in Seq(Words), i \in 2 .. Len(argv),
           NEW heads \in SUBSET (2 .. Len(argv)),
           HeadsRead(heads), NoOtherHeads(heads),
           argv[i] \in ValueOptions, i # Len(argv),
           ~ValueIsBad(argv[i], argv[i + 1]),
           argv' = argv, i' = i + 2,
           NEW more, more = heads \cup {i}
    PROVE  HeadsRead(more)' /\ NoOtherHeads(more)'
<1>1. HeadsRead(more)'
  <2>1. ASSUME NEW k \in 2 .. i + 1
        PROVE  k \in more <=> (k - 1 \in more => argv[k - 1] \notin ValueOptions)
    BY <2>1 DEF HeadsRead, HeadsUpTo
  <2>2. more \subseteq 2 .. i + 1 /\ i + 1 \notin more
    BY DEF HeadsRead
  <2>3. ASSUME NEW k \in more, argv[k] \in ValueOptions
        PROVE  k < i + 1 /\ ~ValueIsBad(argv[k], argv[k + 1])
    BY <2>3 DEF HeadsRead
  <2> QED
    BY <2>1, <2>2, <2>3 DEF HeadsRead, HeadsUpTo
<1>2. ASSUME NEW all \in SUBSET (2 .. Len(argv)), HeadsUpTo(argv, all, Len(argv))
      PROVE  /\ all \cap (2 .. i + 1) = more
             /\ i + 2 <= Len(argv) => i + 2 \in all
  <2>1. all \cap (2 .. i - 1) = heads /\ i \in all
    BY <1>2 DEF NoOtherHeads
  <2>2. i + 1 \notin all
    BY <1>2, <2>1 DEF HeadsUpTo
  <2>3. i + 2 <= Len(argv) => i + 2 \in all
    BY <1>2, <2>2 DEF HeadsUpTo
  <2> QED
    BY <2>1, <2>2, <2>3
<1> QED
  BY <1>1, <1>2 DEF NoOtherHeads

\* A head that is no --break leaves the breakpoints as they are.
LEMMA NoBreak ==
    ASSUME NEW line, NEW heads, NEW lines, NEW k, line[k] # "--break",
           BreaksRead(line, heads, lines)
    PROVE  BreaksRead(line, heads \cup {k}, lines)
<1>1. PICK at \in [1 .. Len(lines) -> heads] :
          /\ \A n \in 2 .. Len(lines) : at[n - 1] < at[n]
          /\ {at[n] : n \in 1 .. Len(lines)} = {j \in heads : line[j] = "--break"}
          /\ \A n \in 1 .. Len(lines) : lines[n] = ParseLine(line[at[n] + 1])
  BY DEF BreaksRead
<1>2. at \in [1 .. Len(lines) -> heads \cup {k}]
  OBVIOUS
<1>3. {j \in heads \cup {k} : line[j] = "--break"}
        = {j \in heads : line[j] = "--break"}
  OBVIOUS
<1> QED
  BY <1>1, <1>2, <1>3 DEF BreaksRead

\* A --break adds its line at the end.
LEMMA OneMoreBreak ==
    ASSUME NEW line, NEW lines \in Seq(1 .. MaxLine), NEW k \in Nat,
           NEW heads \in SUBSET (2 .. k - 1), line[k] = "--break",
           BreaksRead(line, heads, lines)
    PROVE  BreaksRead(line, heads \cup {k},
                         Append(lines, ParseLine(line[k + 1])))
<1> DEFINE more == Append(lines, ParseLine(line[k + 1]))
<1>1. PICK at \in [1 .. Len(lines) -> heads] :
          /\ \A n \in 2 .. Len(lines) : at[n - 1] < at[n]
          /\ {at[n] : n \in 1 .. Len(lines)} = {j \in heads : line[j] = "--break"}
          /\ \A n \in 1 .. Len(lines) : lines[n] = ParseLine(line[at[n] + 1])
  BY DEF BreaksRead
<1> DEFINE both == [n \in 1 .. Len(lines) + 1 |-> IF n = Len(lines) + 1 THEN k ELSE at[n]]
<1>2. /\ Len(lines) \in Nat
      /\ Len(more) = Len(lines) + 1
      /\ more[Len(lines) + 1] = ParseLine(line[k + 1])
      /\ \A n \in 1 .. Len(lines) : more[n] = lines[n]
  OBVIOUS
<1> HIDE DEF more
<1>3. /\ both \in [1 .. Len(more) -> heads \cup {k}]
      /\ both[Len(lines) + 1] = k
      /\ \A n \in 1 .. Len(lines) : both[n] = at[n]
  BY <1>2
<1> HIDE DEF both
<1>4. \A n \in 2 .. Len(more) : both[n - 1] < both[n]
  <2> SUFFICES ASSUME NEW n \in 2 .. Len(lines) + 1
               PROVE  both[n - 1] < both[n]
    BY <1>2
  <2>1. n - 1 \in 1 .. Len(lines)
    BY <1>2
  <2>2. both[n - 1] = at[n - 1] /\ at[n - 1] \in 2 .. k - 1
    BY <1>3, <2>1
  <2>3. CASE n = Len(lines) + 1
    BY <1>3, <2>2, <2>3
  <2>4. CASE n # Len(lines) + 1
    <3>1. n \in 1 .. Len(lines) /\ n \in 2 .. Len(lines)
      BY <1>2, <2>4
    <3> QED
      BY <1>1, <1>3, <2>2, <3>1
  <2> QED
    BY <2>3, <2>4
<1>5. {both[n] : n \in 1 .. Len(more)}
        = {j \in heads \cup {k} : line[j] = "--break"}
  <2>1. 1 .. Len(more) = (1 .. Len(lines)) \cup {Len(lines) + 1}
    BY <1>2
  <2>2. \A j : (\E n \in 1 .. Len(more) : both[n] = j)
                <=> j = k \/ (\E n \in 1 .. Len(lines) : at[n] = j)
    BY <1>3, <2>1, Zenon
  <2>3. \A j : (\E n \in 1 .. Len(lines) : at[n] = j)
                <=> j \in heads /\ line[j] = "--break"
    BY <1>1
  <2> QED
    BY <2>2, <2>3
<1>6. \A n \in 1 .. Len(more) : more[n] = ParseLine(line[both[n] + 1])
  BY <1>1, <1>2, <1>3
<1> QED
  BY <1>3, <1>4, <1>5, <1>6 DEF BreaksRead, more

\* A head that is not the option leaves its value as it is.
LEMMA NotTheOption ==
    ASSUME NEW line, NEW heads, NEW option, NEW default, NEW given, NEW k,
           line[k] # option, Names(line, heads, option, default, given)
    PROVE  Names(line, heads \cup {k}, option, default, given)
  BY DEF Names

\* The option, come to last, gives its value.
LEMMA TheOption ==
    ASSUME NEW line, NEW k \in Nat, NEW heads \in SUBSET (2 .. k - 1),
           NEW option, NEW default, line[k] = option
    PROVE  Names(line, heads \cup {k}, option, default, line[k + 1])
  BY DEF Names

\* What TakeValue leaves alone, and what it sets.
LEMMA ValueTaken ==
    ASSUME TypeOK, NEW option, NEW given, options' = TakeValue(option, given)
    PROVE  /\ options'.entry = options.entry /\ options'.script = options.script
           /\ options'.level = IF option = "--log-level"
                                THEN ParseLogLevel(given) ELSE options.level
           /\ options'.file = IF option = "--log-file" THEN given
                                                       ELSE options.file
           /\ options'.lines = IF option = "--break"
                                THEN Append(options.lines, ParseLine(given))
                                ELSE options.lines
  BY DEF TypeOK, TakeValue

-----------------------------------------------------------------------------
(* The usage text and mistakes, against what the options accept. *)

\* What the usage text allows is accepted, and a line of it is itself.
LEMMA UsageIsGood ==
    ASSUME NEW option, NEW given, UsageValue(option, given)
    PROVE  /\ ~ValueIsBad(option, given)
           /\ option = "--break" => ParseLine(given) = Numeral[given].value
           /\ option = "--log-level" => ParseLogLevel(given) = given
<1>1. option = "--log-level" => given \in UsageLevels
  BY DEF UsageValue
<1>2. given \in UsageLevels => given \in Levels /\ given # "errors"
  BY DEF UsageLevels, Levels
<1>3. option = "--break" =>
        ParseLine(given) = Numeral[given].value /\ ParseLine(given) # 0
  BY CommandLineAssumption
     DEF CommandLineAssumption, UsageValue, IsLine, ParseLine
<1> QED
  BY <1>1, <1>2, <1>3 DEF ValueIsBad, ParseLogLevel

\* What is no line is refused, however its sign is taken.
LEMMA NoLineIsRefused ==
    ASSUME NEW word, ~IsLine(word)
    PROVE  ParseLine(word) = 0
<1>1. CASE word \notin DOMAIN Numeral \/ Numeral[word].value > MaxLine
  BY <1>1 DEF ParseLine
<1>2. CASE word \in DOMAIN Numeral /\ ~(Numeral[word].value > MaxLine)
  <2>1. Numeral[word].value = 0 /\ MaxLine \in Nat
    BY <1>2, CommandLineAssumption DEF CommandLineAssumption, IsLine
  <2>2. (MaxLine + 1 - 0) % (MaxLine + 1) = 0
    BY <2>1
  <2> QED
    BY <1>2, <2>1, <2>2 DEF ParseLine
<1> QED
  BY <1>1, <1>2

\* An option of the usage text is one, and no script is.
LEMMA UsageOptionsAreOptions ==
    /\ \A name : UsageOptions(name) \subseteq Options
    /\ Scripts \cap (Options \cup {Empty}) = {}
    /\ ValueOptions \subseteq Options
    /\ "--break-on-entry" \in Options \ ValueOptions
  BY CommandLineAssumption
     DEF CommandLineAssumption, UsageOptions, Options, ValueOptions

-----------------------------------------------------------------------------
(* The steps of wmain. *)

LEMMA InvInit == Init => Inv
  BY DEF Init, Inv, AcceptsSentences, RefusesMistakes

LEMMA ReadCommandInv ==
    ASSUME TypeOK, Inv, ReadCommand
    PROVE  Inv'
<1> USE DEF ReadCommand, Exit
<1>1. CASE phase' = "exited"
  <2>1. /\ request' = {} /\ UNCHANGED argv
        /\ status' = "2" \/ argv \in {<<>>, <<"--version">>}
    BY <1>1 DEF Inv
  <2>2. \A heads \in SUBSET (2 .. Len(argv)) : ~Sentence(argv, heads)
    BY <1>1 DEF Sentence, TypeOK
  <2>3. AcceptsSentences'
    BY <2>1, <2>2 DEF AcceptsSentences
  <2>4. RefusesMistakes'
    BY <2>1 DEF RefusesMistakes, Mistaken
  <2> QED
    BY <1>1, <2>3, <2>4 DEF Inv
<1>2. CASE phase' = "arguments"
  <2>1. i' = 2 /\ argv' = argv /\ options' = options /\ request' = {}
          /\ Len(argv) > 1 /\ argv[1] \in Commands
    BY <1>2 DEF Inv, TypeOK
  <2>2. HeadsRead({})' /\ NoOtherHeads({})'
    BY <2>1 DEF HeadsRead, NoOtherHeads, HeadsUpTo
  <2>3. ScriptRead({})' /\ ~options'.entry
    BY <1>2, <2>1 DEF ScriptRead, Inv
  <2>4. Names(argv, {}, "--log-file", Empty, options.file)'
    BY <1>2, <2>1 DEF Names, Inv
  <2>5. LevelRead(argv, {}, options.level)'
    <3>1. options'.level = "error" /\ ParseLogLevel("error") = "error"
      BY <1>2, <2>1 DEF Inv, ParseLogLevel
    <3> QED
      BY <3>1 DEF LevelRead, Names
  <2>6. BreaksRead(argv, {}, options.lines)'
    <3>1. options'.lines = <<>> /\ Len(options'.lines) = 0
      BY <1>2, <2>1 DEF Inv
    <3>2. 1 .. Len(options'.lines) = {} /\ 2 .. Len(options'.lines) = {}
      BY <3>1
    <3>3. [n \in 1 .. Len(options'.lines) |-> n]
              \in [1 .. Len(options'.lines) -> {}]
      BY <3>2
    <3> QED
      BY <3>2, <3>3 DEF BreaksRead
  <2>7. Read({})'
    BY <2>2, <2>3, <2>4, <2>5, <2>6 DEF Read
  <2>8. AcceptsSentences' /\ RefusesMistakes'
    BY <1>2, <2>1 DEF AcceptsSentences, RefusesMistakes
  <2> QED
    BY <1>2, <2>1, <2>7, <2>8 DEF Inv
<1> QED
  BY <1>1, <1>2

\* A reading step that goes on keeps Inv if it has read one head more.
LEMMA ReadOn ==
    ASSUME TypeOK, Inv, Reading, phase' = phase, request' = request,
           argv' = argv, i' \in Nat, i' > i,
           NEW more \in SUBSET (2 .. Len(argv)), Read(more)'
    PROVE  Inv'
  BY DEF Inv, TypeOK, Reading, AcceptsSentences, RefusesMistakes

\* What refuses a command line must show that no sentence begins like it.
LEMMA Refuse ==
    ASSUME Inv, phase = "arguments", Exit("2"), request' = request,
           argv' = argv,
           \A all \in SUBSET (2 .. Len(argv)) : ~Sentence(argv, all)
    PROVE  Inv'
  BY DEF Inv, Exit, AcceptsSentences, RefusesMistakes

LEMMA ReadValueInv ==
    ASSUME TypeOK, Inv, ReadValue
    PROVE  Inv'
<1>1. PICK heads \in SUBSET (2 .. Len(argv)) : Read(heads)
  BY DEF ReadValue, Reading, Inv
<1>2. i \in 2 .. Len(argv) /\ argv' = argv /\ request' = request
  BY DEF ReadValue, Reading, Inv, TypeOK
<1>3. CASE i = Len(argv) \/ ValueIsBad(argv[i], argv[i + 1])
  <2>1. ASSUME NEW all \in SUBSET (2 .. Len(argv)), Sentence(argv, all)
        PROVE  FALSE
    <3>1. i \in all /\ argv[i] \notin Scripts
      BY <1>1, <1>2, <2>1, UsageOptionsAreOptions
         DEF Read, NoOtherHeads, Sentence, ReadValue
    <3>2. i # Len(argv) /\ UsageValue(argv[i], argv[i + 1])
      BY <2>1, <3>1 DEF Sentence
    <3> QED
      BY <1>3, <3>2, UsageIsGood
  <2> QED
    BY <1>2, <1>3, <2>1, Refuse DEF ReadValue, Reading
<1>4. CASE i # Len(argv) /\ ~ValueIsBad(argv[i], argv[i + 1])
  <2>1. PICK more : more = heads \cup {i}
    OBVIOUS
  <2>2. i' = i + 2 /\ phase' = phase
    BY <1>4 DEF ReadValue
  <2>3. HeadsRead(more)' /\ NoOtherHeads(more)'
    BY <1>1, <1>2, <1>4, <2>1, <2>2, NextHeadWithValue DEF Read, ReadValue, TypeOK
  <2>4. /\ options' = TakeValue(argv[i], argv[i + 1])
        /\ options'.script = options.script /\ options'.entry = options.entry
    BY <1>4, ValueTaken DEF ReadValue
  <2>5. argv[i] \in Options /\ argv[i] # "--break-on-entry"
    BY DEF ReadValue, Options, ValueOptions
  <2>6. ScriptRead(more)'
    BY <1>1, <1>2, <2>1, <2>4, <2>5 DEF Read, ScriptRead
  <2>7. options'.entry <=> (\E k \in more : argv'[k] = "--break-on-entry")
    BY <1>1, <1>2, <2>1, <2>4, <2>5 DEF Read
  <2>8. BreaksRead(argv, more, options.lines)'
    <3>1. CASE argv[i] # "--break"
      <4>1. options'.lines = options.lines
        BY <2>4, <3>1, ValueTaken
      <4> QED
        BY <1>1, <1>2, <2>1, <3>1, <4>1, NoBreak DEF Read
    <3>2. CASE argv[i] = "--break"
      <4>1. options'.lines = Append(options.lines, ParseLine(argv[i + 1]))
        BY <2>4, <3>2, ValueTaken
      <4>2. heads \subseteq 2 .. i - 1
        BY <1>1 DEF Read, HeadsRead
      <4>3. options.lines \in Seq(1 .. MaxLine) /\ i \in Nat
        BY <1>2 DEF TypeOK
      <4>4. BreaksRead(argv, heads, options.lines)
        BY <1>1 DEF Read
      <4>5. BreaksRead(argv, more, options'.lines)
        BY <2>1, <3>2, <4>1, <4>2, <4>3, <4>4, OneMoreBreak
      <4> QED
        BY <1>2, <4>5
    <3> QED
      BY <3>1, <3>2
  <2>9. heads \in SUBSET (2 .. i - 1) /\ i \in Nat
    BY <1>1, <1>2 DEF Read, HeadsRead
  <2>10. Names(argv, more, "--log-file", Empty, options.file)'
    <3>1. CASE argv[i] # "--log-file"
      <4>1. options'.file = options.file
        BY <2>4, <3>1, ValueTaken
      <4> QED
        BY <1>1, <1>2, <2>1, <3>1, <4>1, NotTheOption DEF Read
    <3>2. CASE argv[i] = "--log-file"
      <4>1. options'.file = argv[i + 1]
        BY <2>4, <3>2, ValueTaken
      <4> QED
        BY <1>2, <2>1, <2>9, <3>2, <4>1, TheOption
    <3> QED
      BY <3>1, <3>2
  <2>11. LevelRead(argv, more, options.level)'
    <3>1. CASE argv[i] # "--log-level"
      <4>1. options'.level = options.level
        BY <2>4, <3>1, ValueTaken
      <4>2. LevelRead(argv, more, options.level)
        BY <1>1, <2>1, <3>1, NotTheOption DEF Read, LevelRead
      <4> QED
        BY <1>2, <4>1, <4>2
    <3>2. CASE argv[i] = "--log-level"
      <4>1. options'.level = ParseLogLevel(argv[i + 1])
        BY <2>4, <3>2, ValueTaken
      <4>2. Names(argv, more, "--log-level", "error", argv[i + 1])
        BY <2>1, <2>9, <3>2, TheOption
      <4> QED
        BY <1>2, <4>1, <4>2 DEF LevelRead
    <3> QED
      BY <3>1, <3>2
  <2>12. more \in SUBSET (2 .. Len(argv)) /\ Read(more)'
    BY <1>2, <2>1, <2>3, <2>6, <2>7, <2>8, <2>10, <2>11 DEF Read
  <2> QED
    BY <1>2, <2>2, <2>12, ReadOn DEF ReadValue
<1> QED
  BY <1>3, <1>4

LEMMA ReadBreakOnEntryInv ==
    ASSUME TypeOK, Inv, ReadBreakOnEntry
    PROVE  Inv'
<1>1. PICK heads \in SUBSET (2 .. Len(argv)) : Read(heads)
  BY DEF ReadBreakOnEntry, Reading, Inv
<1>2. PICK more : more = heads \cup {i}
  OBVIOUS
<1>3. /\ i \in 2 .. Len(argv) /\ i' = i + 1 /\ argv[i] = "--break-on-entry"
      /\ UNCHANGED <<argv, request, phase>>
      /\ options'.script = options.script /\ options'.lines = options.lines
      /\ options'.level = options.level /\ options'.file = options.file
      /\ options'.entry
  BY DEF ReadBreakOnEntry, Reading, Inv, TypeOK
<1>4. argv[i] \in Options \ ValueOptions
      /\ argv[i] \notin {"--break", "--log-level", "--log-file"}
  BY <1>3 DEF Options, ValueOptions
<1>5. HeadsRead(more)' /\ NoOtherHeads(more)'
  BY <1>1, <1>2, <1>3, <1>4, NextHead DEF Read, TypeOK
<1>6. ScriptRead(more)'
  BY <1>1, <1>2, <1>3, <1>4 DEF Read, ScriptRead
<1>7. options'.entry <=> (\E k \in more : argv'[k] = "--break-on-entry")
  BY <1>2, <1>3
<1>8. BreaksRead(argv, more, options.lines)'
  BY <1>1, <1>2, <1>3, <1>4, NoBreak DEF Read
<1>9. Names(argv, more, "--log-file", Empty, options.file)'
        /\ LevelRead(argv, more, options.level)'
  BY <1>1, <1>2, <1>3, <1>4, NotTheOption DEF Read, LevelRead
<1>10. more \in SUBSET (2 .. Len(argv)) /\ Read(more)'
  BY <1>2, <1>3, <1>5, <1>6, <1>7, <1>8, <1>9 DEF Read
<1> QED
  BY <1>3, <1>10, ReadOn DEF ReadBreakOnEntry

LEMMA ReadScriptInv ==
    ASSUME TypeOK, Inv, ReadScript
    PROVE  Inv'
<1>1. PICK heads \in SUBSET (2 .. Len(argv)) : Read(heads)
  BY DEF ReadScript, Reading, Inv
<1>2. /\ i \in 2 .. Len(argv) /\ argv[i] \notin Options
      /\ argv' = argv /\ request' = request
  BY DEF ReadScript, Reading, Inv, TypeOK
<1>3. heads \subseteq 2 .. i - 1
  BY <1>1 DEF Read, HeadsRead
\* Behind a word that is no option comes nothing in a sentence.
<1>4. CASE options.script # Empty
  <2>1. PICK script \in heads : argv[script] = options.script
                                /\ options.script \notin Options
    BY <1>1, <1>4 DEF Read, ScriptRead
  <2>2. ASSUME NEW all \in SUBSET (2 .. Len(argv)), Sentence(argv, all)
        PROVE  FALSE
    <3>1. script \in all \ {Len(argv)}
      BY <1>1, <1>2, <1>3, <2>1, <2>2 DEF Read, NoOtherHeads, Sentence
    <3> QED
      BY <2>1, <2>2, <3>1, UsageOptionsAreOptions DEF Sentence
  <2> QED
    BY <1>2, <1>4, <2>2, Refuse DEF ReadScript, Reading
<1>5. CASE options.script = Empty
  <2>1. PICK more : more = heads \cup {i}
    OBVIOUS
  <2>2. /\ i' = i + 1 /\ phase' = phase
        /\ options'.script = argv[i] /\ options'.lines = options.lines
        /\ options'.entry = options.entry
        /\ options'.level = options.level /\ options'.file = options.file
    BY <1>5 DEF ReadScript, TypeOK
  <2>3. /\ argv[i] \notin ValueOptions
        /\ argv[i] \notin {"--break-on-entry", "--break", "--log-level", "--log-file"}
    BY <1>2 DEF Options, ValueOptions
  <2>4. HeadsRead(more)' /\ NoOtherHeads(more)'
    BY <1>1, <1>2, <2>1, <2>2, <2>3, NextHead DEF Read, TypeOK
  <2>5. ScriptRead(more)'
    <3>1. \A k \in heads : (argv[k] \in Options \/ argv[k] = Empty) /\ k < i
      BY <1>1, <1>2, <1>3, <1>5 DEF Read, ScriptRead
    <3>2. CASE argv[i] = Empty
      BY <1>2, <2>1, <2>2, <3>1, <3>2 DEF ScriptRead
    <3>3. CASE argv[i] # Empty
      BY <1>2, <2>1, <2>2, <3>1, <3>3 DEF ScriptRead
    <3> QED
      BY <3>2, <3>3
  <2>6. options'.entry <=> (\E k \in more : argv'[k] = "--break-on-entry")
    BY <1>1, <1>2, <2>1, <2>2, <2>3 DEF Read
  <2>7. BreaksRead(argv, more, options.lines)'
    BY <1>1, <1>2, <2>1, <2>2, <2>3, NoBreak DEF Read
  <2>8. Names(argv, more, "--log-file", Empty, options.file)'
          /\ LevelRead(argv, more, options.level)'
    BY <1>1, <1>2, <2>1, <2>2, <2>3, NotTheOption DEF Read, LevelRead
  <2>9. more \in SUBSET (2 .. Len(argv)) /\ Read(more)'
    BY <1>2, <2>1, <2>4, <2>5, <2>6, <2>7, <2>8 DEF Read
  <2> QED
    BY <1>2, <2>2, <2>9, ReadOn DEF ReadScript
<1> QED
  BY <1>4, <1>5

\* When all is read, the heads are those of every reading, and what is no option
\* among them is the script, but for empty words.
LEMMA OneReading ==
    ASSUME TypeOK, i = Len(argv) + 1,
           NEW heads \in SUBSET (2 .. Len(argv)), Read(heads),
           NEW all \in SUBSET (2 .. Len(argv)), HeadsUpTo(argv, all, Len(argv))
    PROVE  all = heads
<1>1. all \cap (2 .. i - 1) = heads
  BY DEF Read, NoOtherHeads
<1>2. i - 1 = Len(argv)
  BY DEF TypeOK
<1> QED
  BY <1>1, <1>2

\* The script of a sentence is what has been read as the script.
LEMMA ScriptOfSentence ==
    ASSUME NEW heads, ScriptRead(heads), Sentence(argv, heads)
    PROVE  options.script = argv[Len(argv)]
<1>1. Len(argv) \in heads /\ argv[Len(argv)] \notin Options \cup {Empty}
  BY UsageOptionsAreOptions DEF Sentence
<1> QED
  BY <1>1 DEF ScriptRead

\* So are the lines of its breakpoints.
LEMMA BreaksOfSentence ==
    ASSUME NEW heads, NEW lines, Sentence(argv, heads),
           BreaksRead(argv, heads, lines)
    PROVE  BreaksInOrder(argv, heads, lines)
<1>1. PICK at \in [1 .. Len(lines) -> heads] :
        /\ \A n \in 2 .. Len(lines) : at[n - 1] < at[n]
        /\ {at[n] : n \in 1 .. Len(lines)} = {k \in heads : argv[k] = "--break"}
        /\ \A n \in 1 .. Len(lines) : lines[n] = ParseLine(argv[at[n] + 1])
  BY DEF BreaksRead
<1>2. ASSUME NEW n \in 1 .. Len(lines)
      PROVE  lines[n] = Numeral[argv[at[n] + 1]].value
  <2>1. at[n] \in heads /\ argv[at[n]] = "--break"
    BY <1>1
  <2>2. at[n] # Len(argv)
    BY <2>1, UsageOptionsAreOptions DEF Sentence, ValueOptions
  <2>3. UsageValue("--break", argv[at[n] + 1])
    BY <2>1, <2>2 DEF Sentence
  <2> QED
    BY <1>1, <2>3, UsageIsGood
<1> QED
  BY <1>1, <1>2 DEF BreaksInOrder

\* And so is its level.
LEMMA LevelOfSentence ==
    ASSUME NEW heads, NEW level, Sentence(argv, heads),
           LevelRead(argv, heads, level)
    PROVE  Names(argv, heads, "--log-level", "error", level)
<1>1. PICK word : /\ Names(argv, heads, "--log-level", "error", word)
                  /\ level = ParseLogLevel(word)
  BY DEF LevelRead
<1>2. CASE \A k \in heads : argv[k] # "--log-level"
  BY <1>1, <1>2 DEF Names, ParseLogLevel
<1>3. CASE \E k \in heads : argv[k] = "--log-level"
  <2>1. PICK k \in heads : argv[k] = "--log-level" /\ argv[k + 1] = word
    BY <1>1, <1>3 DEF Names
  <2>2. k # Len(argv)
    BY <2>1, UsageOptionsAreOptions DEF Sentence, ValueOptions
  <2>3. UsageValue("--log-level", word)
    BY <2>1, <2>2 DEF Sentence
  <2>4. level = word
    BY <1>1, <2>3, UsageIsGood
  <2> QED
    BY <1>1, <2>4
<1> QED
  BY <1>2, <1>3

\* A run that sentences do not debug names no breakpoint and no stop on entry.
LEMMA DebugOfSentence ==
    ASSUME TypeOK, NEW heads \in SUBSET (2 .. Len(argv)), Read(heads),
           Sentence(argv, heads), options.lines # <<>> \/ options.entry
    PROVE  argv[1] = "debug"
<1>1. PICK k \in heads : argv[k] \in {"--break", "--break-on-entry"}
  <2>1. CASE options.entry
    BY <2>1 DEF Read
  <2>2. CASE options.lines # <<>>
    <3>1. 1 \in 1 .. Len(options.lines)
      BY <2>2 DEF TypeOK
    <3>2. PICK at \in [1 .. Len(options.lines) -> heads] :
            {at[n] : n \in 1 .. Len(options.lines)}
              = {j \in heads : argv[j] = "--break"}
      BY DEF Read, BreaksRead
    <3> QED
      BY <3>1, <3>2
  <2> QED
    BY <2>1, <2>2
<1>2. argv[k] \in Options
  BY <1>1 DEF Options, ValueOptions
<1>3. argv[k] \in UsageOptions(argv[1])
  BY <1>2, UsageOptionsAreOptions DEF Sentence
<1> QED
  BY <1>1, <1>3 DEF UsageOptions

\* No mistake is left when all is read and the script is one.
LEMMA NoMistakeRead ==
    ASSUME TypeOK, Len(argv) > 1, argv[1] \in Commands, i = Len(argv) + 1,
           options.script \in Scripts,
           NEW heads \in SUBSET (2 .. Len(argv)), Read(heads)
    PROVE  ~Mistaken(argv, heads)
<1>1. PICK script \in heads :
        /\ argv[script] = options.script
        /\ \A k \in heads \ {script} : argv[k] \in Options \cup {Empty}
  BY UsageOptionsAreOptions DEF Read, ScriptRead
<1>2. \A k \in heads : argv[k] \in ValueOptions =>
          k < Len(argv) /\ ~ValueIsBad(argv[k], argv[k + 1])
  BY DEF Read, HeadsRead, TypeOK
<1>3. ~(Len(argv) \in heads /\ argv[Len(argv)] \in ValueOptions)
  BY <1>2
<1>4. ASSUME NEW k \in heads
      PROVE  /\ ~(argv[k] = "--log-level" /\ argv[k + 1] \notin Levels)
             /\ ~(argv[k] = "--break" /\ ~IsLine(argv[k + 1]))
  BY <1>2, NoLineIsRefused DEF ValueIsBad, ValueOptions
<1>5. ~(\A k \in heads : argv[k] \notin Scripts)
  BY <1>1
<1>6. ASSUME NEW j \in heads, NEW k \in heads, j # k
      PROVE  {argv[j], argv[k]} \cap (Options \cup {Empty}) # {}
  BY <1>1, <1>6
<1> QED
  BY <1>3, <1>4, <1>5, <1>6 DEF Mistaken

LEMMA LaunchInv ==
    ASSUME TypeOK, Inv, Launch
    PROVE  Inv'
<1>1. PICK heads \in SUBSET (2 .. Len(argv)) : Read(heads)
  BY DEF Launch, Inv
<1>2. /\ phase = "arguments" /\ i = Len(argv) + 1 /\ request = {}
      /\ Len(argv) > 1 /\ argv[1] \in Commands
      /\ UNCHANGED <<argv, i, options>>
  BY DEF Launch, Inv, TypeOK
<1>3. ASSUME NEW all \in SUBSET (2 .. Len(argv)), HeadsUpTo(argv, all, Len(argv))
      PROVE  all = heads
  BY <1>1, <1>2, <1>3, OneReading
<1>4. CASE options.script \notin Scripts
  <2>1. ASSUME NEW all \in SUBSET (2 .. Len(argv)), Sentence(argv, all)
        PROVE  FALSE
    <3>1. Sentence(argv, heads)
      BY <1>3, <2>1 DEF Sentence
    <3> QED
      BY <1>1, <1>4, <3>1, ScriptOfSentence DEF Read, Sentence
  <2> QED
    BY <1>2, <1>4, <2>1, Refuse DEF Launch
<1>5. CASE options.script \in Scripts
  <2> DEFINE debug == \/ argv[1] = "debug"
                      \/ options.lines # <<>>
                      \/ options.entry
  <2>1. request' = {[script |-> options.script, lines |-> options.lines,
                     debug |-> debug, entry |-> debug /\ options.entry,
                     control |-> debug]}
    BY <1>5, Zenon DEF Launch
  <2>2. options.entry => debug
    OBVIOUS
  <2>3. Sentence(argv, heads) => debug = (argv[1] = "debug")
    <3>1. Sentence(argv, heads) => (debug <=> argv[1] = "debug")
      BY <1>1, DebugOfSentence
    <3>2. debug \in BOOLEAN /\ (argv[1] = "debug") \in BOOLEAN
      BY Zenon
    <3> QED
      BY <3>1, <3>2
  <2> HIDE DEF debug
  <2>4. phase' = "running" /\ request' # {}
    BY <1>5, <2>1 DEF Launch
  <2>5. logger'.level = options.level /\ logger'.file = options.file
    BY <1>5, UsageOptionsAreOptions DEF Launch
  <2>6. RefusesMistakes'
    <3>1. \A all \in SUBSET (2 .. Len(argv)) : ~Mistaken(argv, all)
      BY <1>1, <1>2, <1>3, <1>5, NoMistakeRead DEF Mistaken
    <3> QED
      BY <1>2, <3>1 DEF RefusesMistakes
  <2>7. ASSUME NEW r \in request', Sentence(argv, heads)
        PROVE  /\ r.script = argv[Len(argv)]
               /\ r.debug = (argv[1] = "debug") /\ r.control = r.debug
               /\ r.entry <=> \E k \in heads : argv[k] = "--break-on-entry"
               /\ BreaksInOrder(argv, heads, r.lines)
    <3>1. /\ r.script = options.script /\ r.lines = options.lines
          /\ r.debug = debug /\ r.control = debug
          /\ r.entry = (debug /\ options.entry)
      BY <2>1
    <3>2. r.script = argv[Len(argv)]
      BY <1>1, <2>7, <3>1, ScriptOfSentence DEF Read
    <3>3. BreaksInOrder(argv, heads, r.lines)
      BY <1>1, <2>7, <3>1, BreaksOfSentence DEF Read
    <3>4. r.debug = (argv[1] = "debug") /\ r.control = r.debug
      BY <2>3, <2>7, <3>1
    <3>5. options.entry <=> \E k \in heads : argv[k] = "--break-on-entry"
      BY <1>1 DEF Read
    <3>6. r.entry <=> \E k \in heads : argv[k] = "--break-on-entry"
      BY <2>2, <3>1, <3>5, Zenon
    <3> QED
      BY <3>2, <3>3, <3>4, <3>6
  <2>8. ASSUME Sentence(argv, heads)
        PROVE  /\ Names(argv, heads, "--log-level", "error", logger'.level)
               /\ Names(argv, heads, "--log-file", Empty, logger'.file)
    BY <1>1, <2>5, <2>8, LevelOfSentence DEF Read
  <2>9. AcceptsSentences'
    <3>1. \A all \in SUBSET (2 .. Len(argv)) :
            Sentence(argv, all) => all = heads
      BY <1>3 DEF Sentence
    <3> QED
      BY <1>2, <2>4, <2>7, <2>8, <3>1 DEF AcceptsSentences
  <2> QED
    BY <2>4, <2>6, <2>9 DEF Inv
<1> QED
  BY <1>4, <1>5

LEMMA ReturnInv ==
    ASSUME TypeOK, Inv, Return
    PROVE  Inv'
<1>1. phase' = "exited" /\ request # {} /\ UNCHANGED <<argv, logger, request>>
  BY DEF Inv, Return, Exit
<1>2. AcceptsSentences'
  BY <1>1 DEF Inv, AcceptsSentences
<1>3. RefusesMistakes'
  BY <1>1 DEF Inv, RefusesMistakes
<1> QED
  BY <1>1, <1>2, <1>3 DEF Inv

LEMMA StutterInv ==
    ASSUME Inv, UNCHANGED vars
    PROVE  Inv'
  BY DEF vars, Inv, Read, HeadsRead, NoOtherHeads, ScriptRead, LevelRead,
         AcceptsSentences, RefusesMistakes

LEMMA Invariance == Spec => []Inv
<1>1. TypeOK /\ Inv /\ [Next]_vars => Inv'
  BY ReadCommandInv, ReadValueInv, ReadBreakOnEntryInv, ReadScriptInv, LaunchInv,
     ReturnInv, StutterInv DEF Next
<1> QED
  BY <1>1, InvInit, TypeCorrect, PTL DEF Spec

\* For command lines of any length: what the usage text allows is run, for what
\* it says, with the breakpoints, the level and the log file that it names.
THEOREM SentencesAreAccepted == Spec => []AcceptsSentences
<1>1. Inv => AcceptsSentences
  BY DEF Inv
<1> QED
  BY <1>1, Invariance, PTL

\* Nothing is run for a line with a mistake, wherever it stands.
THEOREM MistakesAreRefused == Spec => []RefusesMistakes
<1>1. Inv => RefusesMistakes
  BY DEF Inv
<1> QED
  BY <1>1, Invariance, PTL

-----------------------------------------------------------------------------
(* The commands that evaluate. *)

UnderWay == pc \in {"parse", "start", "poll", "sleep", "result"}
Waiting == pc \in {"poll", "sleep"}

EvalTypes ==
    /\ EvalTypeOK
    /\ pc = "sleep" => elapsed < Timeout
    /\ UnderWay => command \in Expressions

LEMMA EvalTypesStep ==
    ASSUME EvalTypes, [EvalNext]_evalVars
    PROVE  EvalTypes'
<1> USE EvaluationAssumption DEF EvalTypes, UnderWay, EvaluationAssumption, EvalTypeOK,
    Results, Answer, Expressions
<1>1. CASE Command
  BY <1>1 DEF Command, debuggee
<1>2. CASE Start
  <2>1. <<command, kind>> \in Expressions \X {"print", "exec"}
    BY <1>2 DEF Start
  <2>2. CASE pc' = "poll"
    <3>1. /\ running' = running \cup {<<command, kind>>}
          /\ complete' = FALSE /\ elapsed' = 0
          /\ UNCHANGED <<command, kind, result, shown, value, outcome, abandoned>>
      BY <1>2, <2>2 DEF Start, Current
    <3>2. 0 \in 0 .. Timeout
      OBVIOUS
    <3> QED
      BY <2>1, <2>2, <3>1, <3>2
  <2>3. CASE pc' = "prompt"
    BY <1>2, <2>3 DEF Start, debuggee
  <2> QED
    BY <1>2, <2>2, <2>3 DEF Start
<1>3. CASE Poll
  BY <1>3 DEF Poll, Current, debuggee
<1>4. CASE Parse \/ GiveUp \/ GetResult \/ Sleep
  BY <1>4 DEF Parse, GiveUp, GetResult, Sleep, debuggee
<1>5. CASE Complete
  BY <1>5 DEF Complete
<1>6. CASE Resume \/ StopAgain \/ UNCHANGED evalVars
  BY <1>6 DEF Resume, StopAgain, evalVars, debuggee
<1> QED
  BY <1>1, <1>2, <1>3, <1>4, <1>5, <1>6 DEF EvalNext, Controller, User

LEMMA EvalTypesInvariant == EvalSpec => []EvalTypes
<1>1. ASSUME EvalInit PROVE EvalTypes
  <2>1. 0 \in 0 .. Timeout /\ 0 \in 0 .. MaxCommands
    BY EvaluationAssumption DEF EvaluationAssumption
  <2> QED
    BY <1>1, <2>1 DEF EvalInit, EvalTypes, UnderWay, EvalTypeOK, Results
<1> QED
  BY <1>1, EvalTypesStep, PTL DEF EvalSpec

\* A complete expression no longer runs.
CompleteIsOver == Waiting /\ complete => Current \notin running

\* As long as nothing has been abandoned, what an expression has come to is the
\* value of the variable until its command has shown it.
OutcomeIsValue ==
    abandoned = {} /\ (pc = "result" \/ (Waiting /\ complete)) => outcome = value

EvalInv == NothingLeftRunning /\ CompleteIsOver /\ OutcomeIsValue

\* An expression that completes is the one that is waited for, or was abandoned.
LEMMA CompleteInv ==
    ASSUME EvalInv, Complete
    PROVE  EvalInv'
<1>1. PICK e \in running :
          /\ running' = running \ {e}
          /\ complete' = (e = Current \/ complete)
          /\ outcome' = IF e = Current THEN value' ELSE outcome
          /\ UNCHANGED <<pc, command, kind, abandoned>>
  BY DEF Complete
<1>2. NothingLeftRunning' /\ CompleteIsOver'
  BY <1>1 DEF EvalInv, NothingLeftRunning, CompleteIsOver, Waiting,
     Current
<1>3. OutcomeIsValue'
  <2>1. ASSUME abandoned = {} PROVE e = Current /\ Waiting
    BY <2>1 DEF EvalInv, NothingLeftRunning, Waiting
  <2> QED
    BY <1>1, <2>1 DEF OutcomeIsValue, Waiting
<1> QED
  BY <1>2, <1>3 DEF EvalInv

LEMMA EvalStep ==
    ASSUME EvalInv, [EvalNext]_evalVars
    PROVE  EvalInv'
<1> USE DEF EvalInv, NothingLeftRunning, CompleteIsOver, OutcomeIsValue,
    Waiting, Current, Answer, debuggee
<1>1. CASE Command
  <2>1. pc = "prompt" /\ pc' = "parse" /\ UNCHANGED <<running, abandoned>>
    BY <1>1 DEF Command
  <2>2. running \ abandoned = {}
    BY <2>1
  <2> QED
    BY <2>1, <2>2
<1>2. CASE Parse \/ Start
  BY <1>2 DEF Parse, Start
<1>3. CASE Poll \/ Sleep
  BY <1>3 DEF Poll, Sleep
<1>4. CASE GiveUp \/ GetResult
  BY <1>4 DEF GiveUp, GetResult
<1>5. CASE Resume \/ StopAgain \/ UNCHANGED evalVars
  BY <1>5 DEF Resume, StopAgain, evalVars
<1> QED
  BY <1>1, <1>2, <1>3, <1>4, <1>5, CompleteInv
     DEF EvalNext, Controller, User

LEMMA EvalInvariant == EvalSpec => []EvalInv
<1>1. EvalInit => EvalInv
  BY DEF EvalInit, EvalInv, NothingLeftRunning, CompleteIsOver,
     OutcomeIsValue, Waiting
<1> QED
  BY <1>1, EvalStep, PTL DEF EvalSpec

\* No expression runs on after its command has returned, but those whose query
\* has failed: a timed out one is aborted, a complete one is over.
THEOREM NothingRunsOn == EvalSpec => []NothingLeftRunning
<1>1. EvalInv => NothingLeftRunning
  BY DEF EvalInv
<1> QED
  BY <1>1, EvalInvariant, PTL

\* What p EXPR shows is the value that the variable has then, as long as no
\* failed query has left an expression running.
THEOREM ShownValueIsCurrent == EvalSpec => ShownIsCurrent
<1>1. EvalInv /\ [EvalNext]_evalVars =>
        (abandoned = {} /\ pc = "result" /\ kind = "print" /\ pc' = "prompt"
           /\ result' = "success" => shown' = value')
  <2> SUFFICES ASSUME EvalInv, EvalNext, abandoned = {}, pc = "result",
                      pc' = "prompt", result' = "success"
               PROVE  shown' = value'
    BY DEF evalVars
  <2>1. GetResult
    BY DEF EvalNext, Controller, User, Command, Parse,
       Start, Poll, Sleep, GiveUp, Resume,
       StopAgain, Complete
  <2>2. shown' = outcome /\ value' = value
    BY <2>1 DEF GetResult, Answer, debuggee
  <2> QED
    BY <2>2 DEF EvalInv, OutcomeIsValue
<1> QED
  BY <1>1, EvalInvariant, PTL DEF EvalSpec, ShownIsCurrent

\* The steps that a command still takes, at most.
StepsLeft ==
    CASE pc = "parse" -> 2 * Timeout + 4
      [] pc = "start" -> 2 * Timeout + 3
      [] pc = "poll" -> 2 * (Timeout - elapsed) + 2
      [] pc = "sleep" -> 2 * (Timeout - elapsed) + 1
      [] pc = "result" -> 1
      [] OTHER -> 0

\* Whatever the expression does, a command is over after a number of steps of
\* the controller's thread that only the timeout decides: each of them brings it
\* nearer to the prompt, and nobody else's takes it back.
CommandsAreBounded ==
    [][UnderWay => /\ StepsLeft \in 1 .. 2 * Timeout + 4
                   /\ Controller => StepsLeft' < StepsLeft
                   /\ ~Controller => StepsLeft' = StepsLeft]_evalVars

THEOREM CommandsTakeBoundedSteps == EvalSpec => CommandsAreBounded
<1>1. ASSUME EvalTypes, UnderWay
      PROVE  StepsLeft \in 1 .. 2 * Timeout + 4
  BY <1>1, EvaluationAssumption
  DEF EvalTypes, UnderWay, StepsLeft, EvalTypeOK, EvaluationAssumption
<1>2. ASSUME EvalTypes, UnderWay, Controller
      PROVE  StepsLeft' < StepsLeft
  <2> USE <1>2, EvaluationAssumption DEF EvalTypes, EvalTypeOK, EvaluationAssumption, StepsLeft,
      Answer
  <2>1. CASE Parse \/ Start
    BY <2>1 DEF Parse, Start
  <2>2. CASE Poll \/ Sleep
    BY <2>2 DEF Poll, Sleep
  <2>3. CASE GiveUp \/ GetResult
    BY <2>3 DEF GiveUp, GetResult
  <2> QED
    BY <2>1, <2>2, <2>3 DEF Controller
<1>3. ASSUME UnderWay, [EvalNext]_evalVars, ~Controller
      PROVE  StepsLeft' = StepsLeft
  <2>1. UNCHANGED <<pc, elapsed>>
    BY <1>3 DEF UnderWay, EvalNext, User, Command, Resume,
       StopAgain, Complete, evalVars
  <2> QED
    BY <2>1 DEF StepsLeft
<1> QED
  BY <1>1, <1>2, <1>3, EvalTypesInvariant, PTL DEF EvalSpec, CommandsAreBounded

=============================================================================
