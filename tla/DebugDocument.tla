---------------------------- MODULE DebugDocument ----------------------------
(***************************************************************************)
(* DebugDocument: the index of the lines of a script's text, built by the  *)
(* loop of build_line_index, and what is looked up in it: the offset of a  *)
(* breakpoint and the line and column of a stop.                           *)
(*                                                                         *)
(* Of the text only its length and the places of its newlines matter.      *)
(* Lines, columns and offsets are unsigned numbers below Modulus (2^32 in  *)
(* the code).                                                              *)
(***************************************************************************)
EXTENDS Naturals, Sequences

CONSTANTS
    MaxSize,   \* bound: characters of the text
    Modulus    \* one more than the greatest line, column or offset

ASSUME DocumentAssumption ==
    /\ MaxSize \in Nat
    /\ Modulus \in Nat
    /\ MaxSize + 1 < Modulus

VARIABLES
    size,          \* source_.size()
    newlines,      \* the offsets of its newlines
    lineOffsets,   \* line_offsets_: where each line begins
    i,             \* the loop's counter
    indexed        \* the constructor has returned

vars == <<size, newlines, lineOffsets, i, indexed>>

TypeOK ==
    /\ size \in 0 .. MaxSize
    /\ newlines \subseteq 0 .. size - 1
    /\ lineOffsets \in Seq(0 .. size)
    /\ lineOffsets # <<>>
    /\ i \in 0 .. size
    /\ indexed \in BOOLEAN

Init ==
    /\ size \in 0 .. MaxSize
    /\ newlines \in SUBSET (0 .. size - 1)
    /\ lineOffsets = <<0>>
    /\ i = 0
    /\ indexed = FALSE

\* Mutant: a newline at the very end begins a line too.
BeginsLineAtEnd == i \in newlines

\* The next character begins a line, if there is one.
BeginsLine == i \in newlines /\ i + 1 < size

\* One round of the loop.
IndexCharacter ==
    /\ ~indexed
    /\ i < size
    /\ lineOffsets' = IF BeginsLine
                        THEN Append(lineOffsets, (i + 1) % Modulus)
                        ELSE lineOffsets
    /\ i' = (i + 1) % Modulus
    /\ UNCHANGED <<size, newlines, indexed>>

EndIndex ==
    /\ ~indexed
    /\ i >= size
    /\ indexed' = TRUE
    /\ UNCHANGED <<size, newlines, lineOffsets, i>>

Next == IndexCharacter \/ EndIndex

Spec == Init /\ [][Next]_vars

-----------------------------------------------------------------------------
(* What is looked up. *)

\* std::nullopt, for an offset (none is so great) and for a line and column.
NoOffset == Modulus
NoLocation == [line |-> 0, column |-> 0]

Lines == 1 .. Len(lineOffsets)

\* Mutant: the check of the sum is forgotten.
OffsetForLineColumnAny(line, column) ==
    IF line \notin Lines \/ column = 0 THEN NoOffset
    ELSE (lineOffsets[line] + column - 1) % Modulus

\* offset_for_line_column: the sum is one of 32 bits.
OffsetForLineColumn(line, column) ==
    IF line \notin Lines \/ column = 0 THEN NoOffset
    ELSE LET offset == (lineOffsets[line] + column - 1) % Modulus
         IN  IF offset > size THEN NoOffset ELSE offset

\* Mutant: lower_bound.
LineAtLower(offset) ==
    CHOOSE k \in Lines :
        /\ k = 1 \/ lineOffsets[k] < offset
        /\ k + 1 \in Lines => offset <= lineOffsets[k + 1]

\* The line before the upper_bound of an offset.
LineAt(offset) ==
    CHOOSE k \in Lines :
        /\ lineOffsets[k] <= offset
        /\ k + 1 \in Lines => offset < lineOffsets[k + 1]

LineColumnForOffset(offset) ==
    IF offset > size THEN NoLocation
    ELSE LET k == LineAt(offset)
         IN  [line |-> k, column |-> (offset - lineOffsets[k] + 1) % Modulus]

\* source_location: the engine may not know the position of a stop.
SourceLocation(position) ==
    IF position = NoOffset THEN NoLocation ELSE LineColumnForOffset(position)

\* Mutant: without a location, a stop is at line 0.
StopLocationZero(position) ==
    IF SourceLocation(position) = NoLocation
      THEN [line |-> 0, column |-> 1]
      ELSE SourceLocation(position)

\* Where onHandleBreakPoint says that the script stopped.  (An error brings its
\* own line and column, of which nothing is known.)
StopLocation(position) ==
    IF SourceLocation(position) = NoLocation
      THEN [line |-> 1, column |-> 1]
      ELSE SourceLocation(position)

-----------------------------------------------------------------------------
(* Properties. *)

Numbers == 0 .. Modulus - 1

\* The lines are those of the text: the first begins at 0, and one begins after
\* each newline but one that ends the text, in their order.
IndexIsExact ==
    indexed =>
        /\ {lineOffsets[k] : k \in Lines}
             = {0} \cup {n + 1 : n \in {m \in newlines : m + 1 < size}}
        /\ \A j, k \in Lines : j < k => lineOffsets[j] < lineOffsets[k]

\* A breakpoint is reported where it was asked for: for each column that its
\* line has, the offset that the binder hands to the engine is the one that
\* onHandleBreakPoint turns back into the same line and column.
BreakpointIsReportedWhereSet ==
    indexed =>
        \A line \in Lines, column \in Numbers \ {0} :
            (lineOffsets[line] + column - 1 <= size
               /\ (line + 1 \in Lines =>
                     lineOffsets[line] + column - 1 < lineOffsets[line + 1]))
            => StopLocation(OffsetForLineColumn(line, column))
                 = [line |-> line, column |-> column]

\* A breakpoint can be set wherever a stop is reported, and is set at the very
\* character, whatever position the engine names or even without any.
StopCanBeFound ==
    indexed =>
        \A position \in Numbers \cup {NoOffset} :
            LET stop == StopLocation(position)
                offset == OffsetForLineColumn(stop.line, stop.column)
            IN  offset = IF position \in 0 .. size THEN position ELSE 0

\* The 32-bit sum of offset_for_line_column may wrap.  Whatever line and column
\* are asked for, an offset that is accepted is in the text; and it is before
\* its line only if the column is one that no text has.
WrappedOffsetStaysInText ==
    indexed =>
        \A line, column \in Numbers :
            LET offset == OffsetForLineColumn(line, column)
            IN  offset # NoOffset =>
                    /\ offset \in 0 .. size
                    /\ column <= Modulus - size => offset >= lineOffsets[line]

=============================================================================
