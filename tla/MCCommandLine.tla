---------------------------- MODULE MCCommandLine ----------------------------
(***************************************************************************)
(* Instances of CommandLine for TLC: all command lines of up to four words *)
(* out of sixteen; longer ones made of phrases, right and wrong; and lines *)
(* of three bits.                                                          *)
(***************************************************************************)
EXTENDS CommandLine, TLC

AllWords ==
    {"run", "debug", "--version", "--log-level", "--log-file", "--break",
     "--break-on-entry", "3", "5", "-1", "9", "error", "errors",
     "trace", "", "script.vbs"}

SomeScripts == {"script.vbs"}

\* Two lines, one below zero, and one beyond the last.
SomeNumeral ==
    ("3" :> [negative |-> FALSE, value |-> 3]) @@
    ("5" :> [negative |-> FALSE, value |-> 5]) @@
    ("-1" :> [negative |-> TRUE, value |-> 1]) @@
    ("9" :> [negative |-> FALSE, value |-> 9])

ShortLines == UNION {[1 .. n -> AllWords] : n \in 0 .. 4}

\* What may stand between the command and the script.
Phrases ==
    {<<>>, <<"--break", "3">>, <<"--break", "5">>, <<"--break-on-entry">>,
     <<"--log-level", "trace">>, <<"--log-level", "error">>,
     <<"--log-file", "trace">>, <<"--log-file", "--break">>, <<"--break", "9">>}

\* And at the end.
Endings == {<<"script.vbs">>, <<>>, <<"script.vbs", "--break-on-entry">>}

LongLines ==
    {<<command>> \o a \o b \o c \o ending :
        command \in Commands, a \in Phrases, b \in Phrases, c \in Phrases,
        ending \in Endings}

SomeCommandLines == ShortLines \cup LongLines

=============================================================================
