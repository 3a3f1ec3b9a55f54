------------------------- MODULE DebugDocumentProofs -------------------------
(***************************************************************************)
(* What TLAPS proves of DebugDocument, for any text and any modulus: what  *)
(* the loop of build_line_index builds, and that the two conversions are   *)
(* inverse as far as they should be.                                       *)
(***************************************************************************)
EXTENDS DebugDocument, TLAPS

\* A number of the code's width is its own remainder.
LEMMA SmallModulo ==
    ASSUME NEW n \in Nat, NEW m \in Nat, n < m
    PROVE  n % m = n
  OBVIOUS

LEMMA ModuloRange ==
    ASSUME NEW n \in Nat, NEW m \in Nat, 0 < m
    PROVE  n % m \in Nat
  OBVIOUS

LEMMA Element ==
    ASSUME NEW S, NEW s \in Seq(S), NEW k \in 1 .. Len(s)
    PROVE  s[k] \in S
  OBVIOUS

-----------------------------------------------------------------------------
(* The loop. *)

\* Line k is the one an offset is in.
InLine(offset, k) ==
    /\ lineOffsets[k] <= offset
    /\ k + 1 \in Lines => offset < lineOffsets[k + 1]

\* After i characters, the lines are those of that part of the text, in order,
\* and every offset is in one of them.
IndexInv ==
    /\ TypeOK
    /\ lineOffsets[1] = 0
    /\ \A k \in Lines : lineOffsets[k] <= i
    /\ {lineOffsets[k] : k \in Lines}
         = {0} \cup {n + 1 : n \in {m \in newlines : m < i /\ m + 1 < size}}
    /\ \A j, k \in Lines : j < k => lineOffsets[j] < lineOffsets[k]
    /\ \A offset \in 0 .. size : \E k \in Lines : InLine(offset, k)
    /\ indexed => i = size

\* What the types say of the numbers.
LEMMA Numbering ==
    ASSUME TypeOK
    PROVE  /\ size \in Nat /\ i \in Nat /\ i <= size
           /\ Modulus \in Nat /\ size + 1 < Modulus
           /\ \A m \in newlines : m \in Nat /\ m < size
           /\ Len(lineOffsets) \in Nat /\ Len(lineOffsets) >= 1
           /\ lineOffsets \in Seq(Nat)
           /\ \A k \in Lines : k \in Nat /\ lineOffsets[k] \in Nat
                                 /\ lineOffsets[k] <= size
<1>1. size \in Nat /\ i \in Nat /\ i <= size /\ Modulus \in Nat /\ size + 1 < Modulus
  BY DocumentAssumption DEF TypeOK
<1>2. \A m \in newlines : m \in 0 .. size - 1
  BY DEF TypeOK
<1>3. lineOffsets \in Seq(0 .. size) /\ lineOffsets # <<>>
  BY DEF TypeOK
<1>4. Len(lineOffsets) \in Nat /\ Len(lineOffsets) >= 1
  BY <1>3
<1>5. ASSUME NEW k \in Lines
      PROVE  k \in Nat /\ lineOffsets[k] \in 0 .. size
  <2>1. k \in 1 .. Len(lineOffsets)
    BY DEF Lines
  <2>2. lineOffsets[k] \in 0 .. size
    BY <1>3, <2>1, Element
  <2> QED
    BY <1>4, <2>1, <2>2
<1>6. lineOffsets \in Seq(Nat)
  BY <1>1, <1>3
<1> QED
  BY <1>1, <1>2, <1>4, <1>5, <1>6

LEMMA IndexInit == Init => IndexInv
<1> SUFFICES ASSUME Init PROVE IndexInv
  OBVIOUS
<1>1. /\ size \in Nat /\ lineOffsets = <<0>> /\ i = 0 /\ indexed = FALSE
      /\ newlines \subseteq 0 .. size - 1
  BY DocumentAssumption DEF Init
<1>2. TypeOK
  <2>1. lineOffsets \in Seq(0 .. size) /\ lineOffsets # <<>>
    BY <1>1
  <2>2. i \in 0 .. size
    BY <1>1
  <2> QED
    BY <1>1, <2>1, <2>2 DEF Init, TypeOK
<1>3. Lines = {1} /\ lineOffsets[1] = 0
  BY <1>1 DEF Lines
<1>4. \A offset \in 0 .. size : InLine(offset, 1)
  BY <1>1, <1>3 DEF InLine
<1>5. {m \in newlines : m < i /\ m + 1 < size} = {}
  <2>1. \A m \in newlines : ~(m < i)
    BY <1>1, <1>2, Numbering
  <2> QED
    BY <2>1
<1>6. {lineOffsets[k] : k \in Lines} = {0}
  BY <1>3
<1> QED
  BY <1>1, <1>2, <1>3, <1>4, <1>5, <1>6 DEF IndexInv

\* A round that begins a line adds it after the others, and takes its offsets
\* from the line before it.
LEMMA AddLine ==
    ASSUME IndexInv, BeginsLine, IndexCharacter
    PROVE  IndexInv'
<1> DEFINE n == Len(lineOffsets)
<1>1. /\ size \in Nat /\ i \in Nat /\ i + 1 < size /\ i + 1 < Modulus
      /\ Modulus \in Nat /\ i \in newlines
      /\ \A m \in newlines : m \in Nat /\ m < size
      /\ n \in Nat /\ n >= 1
      /\ \A k \in Lines : k \in Nat /\ lineOffsets[k] \in Nat
      /\ lineOffsets \in Seq(Nat)
  BY Numbering DEF IndexInv, BeginsLine
<1>2. i' = i + 1 /\ lineOffsets' = Append(lineOffsets, i + 1)
      /\ UNCHANGED <<size, newlines, indexed>>
  <2>1. i + 1 \in Nat
    BY <1>1
  <2>2. (i + 1) % Modulus = i + 1
    BY <1>1, <2>1, SmallModulo
  <2> QED
    BY <2>2 DEF IndexCharacter
<1>3. /\ Lines = 1 .. n /\ Lines' = 1 .. n + 1
      /\ \A k \in 1 .. n : lineOffsets'[k] = lineOffsets[k]
      /\ lineOffsets'[n + 1] = i + 1
  BY <1>1, <1>2 DEF Lines
<1>4. \A k \in 1 .. n : lineOffsets[k] \in Nat /\ lineOffsets[k] <= i
  BY <1>1, <1>3 DEF IndexInv
<1>5. TypeOK'
  <2>1. lineOffsets \in Seq(0 .. size)
    BY DEF IndexInv, TypeOK
  <2>2. i + 1 \in 0 .. size
    BY <1>1
  <2>3. Append(lineOffsets, i + 1) \in Seq(0 .. size)
    BY <2>1, <2>2
  <2>4. Append(lineOffsets, i + 1) # <<>>
    BY <2>1
  <2> QED
    BY <1>2, <2>2, <2>3, <2>4 DEF IndexInv, TypeOK
<1> HIDE DEF n
<1>6. lineOffsets'[1] = 0 /\ \A k \in Lines' : lineOffsets'[k] <= i'
  <2>1. lineOffsets'[1] = 0
    BY <1>1, <1>3 DEF IndexInv
  <2>2. ASSUME NEW k \in 1 .. n + 1
        PROVE  lineOffsets'[k] <= i + 1
    <3>1. CASE k \in 1 .. n
      BY <1>1, <1>3, <1>4, <3>1
    <3>2. CASE k = n + 1
      BY <1>1, <1>3, <3>2
    <3> QED
      BY <1>1, <3>1, <3>2
  <2> QED
    BY <1>2, <1>3, <2>1, <2>2
<1>7. {lineOffsets'[k] : k \in Lines'}
        = {0} \cup {m + 1 : m \in {o \in newlines' : o < i' /\ o + 1 < size'}}
  <2>1. Lines' = Lines \cup {n + 1}
    BY <1>1, <1>3
  <2>2. {lineOffsets'[k] : k \in Lines'} = {lineOffsets[k] : k \in Lines} \cup {i + 1}
    BY <1>3, <2>1
  <2>3. \A o \in newlines : (o < i + 1 /\ o + 1 < size)
                              <=> (o = i \/ (o < i /\ o + 1 < size))
    BY <1>1
  <2>4. {o \in newlines : o < i + 1 /\ o + 1 < size}
          = {o \in newlines : o < i /\ o + 1 < size} \cup {i}
    BY <1>1, <2>3
  <2> QED
    BY <1>2, <2>2, <2>4 DEF IndexInv
<1>8. \A j, k \in Lines' : j < k => lineOffsets'[j] < lineOffsets'[k]
  <2> SUFFICES ASSUME NEW j \in 1 .. n + 1, NEW k \in 1 .. n + 1, j < k
               PROVE  lineOffsets'[j] < lineOffsets'[k]
    BY <1>3
  <2>1. CASE k \in 1 .. n
    BY <1>1, <1>3, <2>1 DEF IndexInv
  <2>2. CASE k = n + 1
    BY <1>1, <1>3, <1>4, <2>2
  <2> QED
    BY <1>1, <2>1, <2>2
<1>9. ASSUME NEW offset \in 0 .. size'
      PROVE  \E k \in Lines' : InLine(offset, k)'
  <2>1. CASE i + 1 <= offset
    <3>1. PICK last : last = n + 1
      OBVIOUS
    <3>2. last \in Lines' /\ last + 1 \notin Lines'
      BY <1>1, <1>3, <3>1
    <3>3. InLine(offset, last)'
      BY <1>3, <2>1, <3>1, <3>2 DEF InLine
    <3> QED
      BY <3>2, <3>3
  <2>2. CASE offset < i + 1
    <3>1. PICK k \in Lines : InLine(offset, k)
      BY <1>2, <1>9 DEF IndexInv
    <3>2. InLine(offset, k)'
      BY <1>1, <1>3, <2>2, <3>1 DEF InLine
    <3> QED
      BY <1>1, <1>3, <3>2
  <2> QED
    BY <1>1, <1>2, <2>1, <2>2
<1>10. ~indexed'
  BY DEF IndexCharacter
<1> QED
  BY <1>2, <1>5, <1>6, <1>7, <1>8, <1>9, <1>10 DEF IndexInv

\* A round that does not, changes the counter alone.
LEMMA SkipCharacter ==
    ASSUME IndexInv, ~BeginsLine, IndexCharacter
    PROVE  IndexInv'
<1>1. /\ size \in Nat /\ i \in Nat /\ i < size /\ i + 1 < Modulus
      /\ Modulus \in Nat
      /\ \A m \in newlines : m \in Nat /\ m < size
      /\ \A k \in Lines : lineOffsets[k] \in Nat
  BY Numbering DEF IndexInv, IndexCharacter
<1>2. i' = i + 1 /\ UNCHANGED <<size, newlines, indexed, lineOffsets>>
  <2>1. i + 1 \in Nat
    BY <1>1
  <2>2. (i + 1) % Modulus = i + 1
    BY <1>1, <2>1, SmallModulo
  <2> QED
    BY <2>2 DEF IndexCharacter
<1>3. i + 1 \in 0 .. size
  BY <1>1
<1>4. \A k \in Lines : lineOffsets[k] <= i + 1
  BY <1>1 DEF IndexInv
<1>5. \A m \in newlines : (m < i + 1 /\ m + 1 < size) <=> (m < i /\ m + 1 < size)
  BY <1>1 DEF BeginsLine
<1>6. {m \in newlines : m < i + 1 /\ m + 1 < size}
        = {m \in newlines : m < i /\ m + 1 < size}
  BY <1>5
<1>7. Lines' = Lines /\ \A offset, k : InLine(offset, k)' <=> InLine(offset, k)
  BY <1>2 DEF Lines, InLine
<1>8. TypeOK'
  BY <1>2, <1>3 DEF IndexInv, TypeOK
<1> QED
  BY <1>2, <1>4, <1>6, <1>7, <1>8 DEF IndexInv, IndexCharacter

LEMMA IndexStep == IndexInv /\ [Next]_vars => IndexInv'
<1>1. CASE IndexInv /\ IndexCharacter
  BY <1>1, AddLine, SkipCharacter DEF IndexCharacter
<1>2. CASE IndexInv /\ EndIndex
  <2>1. UNCHANGED <<size, newlines, lineOffsets, i>> /\ indexed' = TRUE /\ i >= size
    BY <1>2 DEF EndIndex
  <2>2. i = size
    BY <1>2, <2>1, Numbering DEF IndexInv
  <2>3. TypeOK'
    BY <1>2, <2>1 DEF IndexInv, TypeOK
  <2>4. Lines' = Lines /\ \A offset, k : InLine(offset, k)' <=> InLine(offset, k)
    BY <2>1 DEF Lines, InLine
  <2> QED
    BY <1>2, <2>1, <2>2, <2>3, <2>4 DEF IndexInv
<1>3. CASE IndexInv /\ UNCHANGED vars
  BY <1>3 DEF vars, IndexInv, TypeOK, Lines, InLine
<1> QED
  BY <1>1, <1>2, <1>3 DEF Next

LEMMA IndexInvariant == Spec => []IndexInv
  BY IndexInit, IndexStep, PTL DEF Spec

\* The finished index has exactly the lines of the text, in their order.
THEOREM LinesAreExact == Spec => []IndexIsExact
<1>1. IndexInv => IndexIsExact
  <2> SUFFICES ASSUME IndexInv, indexed PROVE IndexIsExact
    BY DEF IndexIsExact
  <2>1. i = size /\ \A m \in newlines : m \in Nat /\ m < size
    BY Numbering DEF IndexInv
  <2>2. {m \in newlines : m < i /\ m + 1 < size} = {m \in newlines : m + 1 < size}
    BY <2>1
  <2> QED
    BY <2>2 DEF IndexInv, IndexIsExact
<1> QED
  BY <1>1, IndexInvariant, PTL

-----------------------------------------------------------------------------
(* What is looked up. *)

\* Binary search has one answer.
LEMMA LineFound ==
    ASSUME IndexInv, NEW offset \in Nat, NEW line \in Lines, InLine(offset, line)
    PROVE  LineAt(offset) = line
<1>1. /\ \A k \in Lines : lineOffsets[k] \in Nat
      /\ Lines = 1 .. Len(lineOffsets) /\ Len(lineOffsets) \in Nat
  BY Numbering DEF IndexInv, Lines
<1>2. \A j, k \in Lines : j < k => lineOffsets[j] < lineOffsets[k]
  BY DEF IndexInv
<1>3. ASSUME NEW j \in Lines, NEW k \in Lines, j < k,
             InLine(offset, j), InLine(offset, k)
      PROVE  FALSE
  <2>1. j + 1 \in Lines /\ (j + 1 = k \/ j + 1 < k)
    BY <1>1, <1>3
  <2>2. lineOffsets[j + 1] <= lineOffsets[k]
    BY <1>1, <1>2, <2>1
  <2> QED
    BY <1>1, <1>3, <2>1, <2>2 DEF InLine
<1>4. \A k \in Lines : InLine(offset, k) => k = line
  <2> SUFFICES ASSUME NEW k \in Lines, InLine(offset, k), k # line
               PROVE  FALSE
    OBVIOUS
  <2>1. k < line \/ line < k
    BY <1>1
  <2> QED
    BY <1>3, <2>1
<1>5. LineAt(offset) = CHOOSE k \in Lines : InLine(offset, k)
  BY DEF LineAt, InLine
<1> QED
  BY <1>4, <1>5

\* A line and column that lie on a line of the text are those of their offset.
LEMMA Lookup ==
    ASSUME IndexInv, NEW line \in Lines, NEW column \in Nat \ {0},
           NEW offset \in Nat, offset = lineOffsets[line] + column - 1,
           offset <= size, InLine(offset, line)
    PROVE  /\ OffsetForLineColumn(line, column) = offset
           /\ StopLocation(offset) = [line |-> line, column |-> column]
<1>1. /\ size \in Nat /\ Modulus \in Nat /\ size + 1 < Modulus
      /\ line \in Nat /\ line >= 1 /\ lineOffsets[line] \in Nat
  <2>1. line \in 1 .. Len(lineOffsets)
    BY DEF Lines
  <2> QED
    BY <2>1, Numbering DEF IndexInv
<1>2. offset % Modulus = offset
  BY <1>1, SmallModulo
<1>3. OffsetForLineColumn(line, column) = offset
  <2>1. (lineOffsets[line] + column - 1) % Modulus = offset
    BY <1>2
  <2>2. ~(offset > size)
    BY <1>1
  <2> QED
    BY <2>1, <2>2 DEF OffsetForLineColumn
<1>4. LineAt(offset) = line
  BY LineFound
<1>5. (offset - lineOffsets[line] + 1) % Modulus = column
  <2>1. offset - lineOffsets[line] + 1 = column /\ column < Modulus
    BY <1>1
  <2> QED
    BY <1>1, <2>1, SmallModulo
<1>6. LineColumnForOffset(offset) = [line |-> line, column |-> column]
  <2>1. ~(offset > size)
    BY <1>1
  <2> QED
    BY <1>4, <1>5, <2>1 DEF LineColumnForOffset
<1>7. SourceLocation(offset) = [line |-> line, column |-> column]
  <2>1. offset # NoOffset
    BY <1>1 DEF NoOffset
  <2> QED
    BY <1>6, <2>1 DEF SourceLocation
<1>8. [line |-> line, column |-> column] # NoLocation
  <2>1. line # 0
    BY <1>1
  <2> QED
    BY <2>1 DEF NoLocation
<1> QED
  BY <1>3, <1>7, <1>8 DEF StopLocation

\* For every text, a breakpoint is reported at the line and column it was set.
THEOREM BreakpointsAreReportedWhereSet == Spec => []BreakpointIsReportedWhereSet
<1>1. ASSUME IndexInv, NEW line \in Lines, NEW column \in Numbers \ {0},
             lineOffsets[line] + column - 1 <= size,
             line + 1 \in Lines =>
                 lineOffsets[line] + column - 1 < lineOffsets[line + 1]
      PROVE  StopLocation(OffsetForLineColumn(line, column))
               = [line |-> line, column |-> column]
  <2>1. column \in Nat \ {0} /\ lineOffsets[line] \in Nat
    BY <1>1, Numbering DEF IndexInv, Numbers
  <2>2. PICK offset \in Nat : offset = lineOffsets[line] + column - 1
    BY <2>1
  <2>3. InLine(offset, line)
    BY <1>1, <2>1, <2>2 DEF InLine
  <2> QED
    BY <1>1, <2>1, <2>2, <2>3, Lookup
<1>2. IndexInv => BreakpointIsReportedWhereSet
  BY <1>1 DEF BreakpointIsReportedWhereSet
<1> QED
  BY <1>2, IndexInvariant, PTL

\* For every text, a breakpoint can be set at the character where a stop is
\* reported.
THEOREM StopsCanBeFound == Spec => []StopCanBeFound
<1>1. ASSUME IndexInv, NEW position \in Numbers \cup {NoOffset}
      PROVE  OffsetForLineColumn(StopLocation(position).line,
                                 StopLocation(position).column)
               = IF position \in 0 .. size THEN position ELSE 0
  <2>1. /\ size \in Nat /\ Modulus \in Nat /\ size + 1 < Modulus
        /\ Len(lineOffsets) \in Nat /\ Len(lineOffsets) >= 1
    BY <1>1, Numbering DEF IndexInv
  <2>2. CASE position \in 0 .. size
    <3>1. PICK line \in Lines : InLine(position, line)
      BY <1>1, <2>2 DEF IndexInv
    <3>2. lineOffsets[line] \in Nat /\ position \in Nat
      BY <1>1, <2>1, <2>2, Numbering DEF IndexInv
    <3>3. PICK column \in Nat \ {0} : column = position - lineOffsets[line] + 1
      BY <3>1, <3>2 DEF InLine
    <3>4. position = lineOffsets[line] + column - 1 /\ position <= size
      BY <2>1, <2>2, <3>2, <3>3
    <3>5. /\ OffsetForLineColumn(line, column) = position
          /\ StopLocation(position) = [line |-> line, column |-> column]
      BY <1>1, <3>1, <3>2, <3>4, Lookup
    <3> QED
      BY <2>2, <3>5
  <2>3. CASE position \notin 0 .. size
    <3>1. position \in Nat /\ position > size
      BY <2>1, <2>3 DEF Numbers, NoOffset
    <3>2. SourceLocation(position) = NoLocation
      BY <3>1 DEF SourceLocation, LineColumnForOffset
    <3>3. StopLocation(position) = [line |-> 1, column |-> 1]
      BY <3>2 DEF StopLocation
    <3>4. 1 \in Lines /\ lineOffsets[1] = 0
      BY <1>1, <2>1 DEF Lines, IndexInv
    <3>5. (lineOffsets[1] + 1 - 1) % Modulus = 0
      BY <2>1, <3>4, SmallModulo
    <3>6. OffsetForLineColumn(1, 1) = 0
      BY <2>1, <3>4, <3>5 DEF OffsetForLineColumn
    <3> QED
      BY <2>3, <3>3, <3>6
  <2> QED
    BY <2>2, <2>3
<1>2. IndexInv => StopCanBeFound
  BY <1>1 DEF StopCanBeFound
<1> QED
  BY <1>2, IndexInvariant, PTL

\* For every text and every line and column, however the sum wraps.
THEOREM WrappedOffsetsStayInText == Spec => []WrappedOffsetStaysInText
<1>1. ASSUME IndexInv, NEW line \in Numbers, NEW column \in Numbers,
             OffsetForLineColumn(line, column) # NoOffset
      PROVE  /\ OffsetForLineColumn(line, column) \in 0 .. size
             /\ column <= Modulus - size =>
                   OffsetForLineColumn(line, column) >= lineOffsets[line]
  <2>1. /\ size \in Nat /\ Modulus \in Nat /\ size + 1 < Modulus
        /\ column \in Nat
    BY <1>1, Numbering DEF IndexInv, Numbers
  <2>2. line \in Lines /\ column # 0
    BY <1>1 DEF OffsetForLineColumn
  <2>3. lineOffsets[line] \in Nat /\ lineOffsets[line] <= size
    BY <1>1, <2>2, Numbering DEF IndexInv
  <2>4. PICK sum \in Nat : sum = lineOffsets[line] + column - 1
    BY <2>1, <2>2, <2>3
  <2>5. OffsetForLineColumn(line, column) = sum % Modulus /\ ~(sum % Modulus > size)
    BY <1>1, <2>2, <2>4 DEF OffsetForLineColumn
  <2>6. sum % Modulus \in Nat
    BY <2>1, ModuloRange
  <2>7. CASE column <= Modulus - size
    <3>1. sum < Modulus
      BY <2>1, <2>3, <2>4, <2>7
    <3>2. sum % Modulus = sum
      BY <2>1, <3>1, SmallModulo
    <3>3. sum >= lineOffsets[line]
      BY <2>1, <2>2, <2>3, <2>4
    <3> QED
      BY <2>1, <2>5, <2>6, <3>2, <3>3
  <2>8. CASE ~(column <= Modulus - size)
    BY <2>1, <2>5, <2>6, <2>8
  <2> QED
    BY <2>7, <2>8
<1>2. IndexInv => WrappedOffsetStaysInText
  BY <1>1 DEF WrappedOffsetStaysInText
<1> QED
  BY <1>2, IndexInvariant, PTL

=============================================================================
