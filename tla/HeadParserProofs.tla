-------------------------- MODULE HeadParserProofs --------------------------
(***************************************************************************)
(* The filter of the value scan, and the invariants of the head parsers,   *)
(* for every set of buffers, hints and capacities and every width of a     *)
(* word.                                                                   *)
(***************************************************************************)
EXTENDS HeadParser, TLAPS

-----------------------------------------------------------------------------
(***************************************************************************)
(* The filter never lets a byte pass that the byte loop would have had to  *)
(* decide, in words of any number of lanes.                                *)
(***************************************************************************)
LEMMA LaneBytes ==
  ASSUME NEW x \in Word, NEW i \in 0 .. Lanes - 1
  PROVE  x[i] \in 0 .. 255
  BY LanesAssumption DEF Word, Byte

(* Whatever it borrows, a lane below 0x20 has its high bit set. *)
LEMMA LessSound ==
  ASSUME NEW x \in Word, NEW i \in 0 .. Lanes - 1, x[i] < 32
  PROVE  less(x, i)
<1>1. x[i] \in 0 .. 31
  <2>1. x[i] \in 0 .. 255
    BY LaneBytes
  <2> QED
    BY <2>1
<1>2. borrow(x, i) \in {0, 1}
  BY DEF borrow
<1>3. (x[i] - 32 - borrow(x, i)) % 256 = x[i] - 32 - borrow(x, i) + 256
  BY <1>1, <1>2, SMTT(30)
<1> QED
  BY <1>1, <1>2, <1>3 DEF less, HighBit

(* Whatever is carried into it, a lane above 0x7e has its high bit set.    *)
LEMMA MoreSound ==
  ASSUME NEW x \in Word, NEW i \in 0 .. Lanes - 1, x[i] > 126
  PROVE  more(x, i)
<1>1. x[i] \in 127 .. 255
  <2>1. x[i] \in 0 .. 255
    BY LaneBytes
  <2> QED
    BY <2>1
<1>2. carry(x, i) \in {0, 1}
  BY DEF carry
<1>3. CASE x[i] \in HighBit
  BY <1>3 DEF more
<1>4. CASE x[i] = 127
  <2>1. (x[i] + 1 + carry(x, i)) % 256 = 128 + carry(x, i)
    BY <1>2, <1>4
  <2> QED
    BY <1>2, <2>1 DEF more, HighBit
<1> QED
  BY <1>1, <1>3, <1>4 DEF HighBit

(***************************************************************************)
(* "Clean-result implies every byte in range", which swar_filter_sound     *)
(* tests over two-byte combinations and carry cascades (core.rs:165).      *)
(***************************************************************************)
THEOREM FilterSound ==
  ASSUME NEW x \in Word, ~has_outside_printable(x)
  PROVE  \A i \in 0 .. Lanes - 1 : x[i] \in Printable
<1> SUFFICES ASSUME NEW i \in 0 .. Lanes - 1
             PROVE  x[i] \in Printable
  OBVIOUS
<1>1. x[i] \in 0 .. 255
  BY LaneBytes
<1>2. ~less(x, i) /\ ~more(x, i)
  BY DEF has_outside_printable
<1>3. ~(x[i] < 32) /\ ~(x[i] > 126)
  BY <1>2, LessSound, MoreSound
<1> QED
  BY <1>1, <1>3 DEF Printable

LEMMA PrintableStandsInValues == 32 .. 126 \subseteq ValueChars
<1> SUFFICES ASSUME NEW b \in 32 .. 126
             PROVE  b \in Byte /\ b \notin Controls
  BY DEF ValueChars
<1> QED
  BY DEF Byte, Controls

(***************************************************************************)
(* What the prescan skips: a clean word of the buffer is within it, and    *)
(* all of its bytes may stand in a value and end none.                     *)
(***************************************************************************)
THEOREM CleanSkipsNoDecision ==
  ASSUME NEW f \in Seq(Byte), NEW p \in 0 .. Len(f), Clean(f, p)
  PROVE  /\ p + Lanes <= Len(f)
         /\ \A i \in p + 1 .. p + Lanes : f[i] \in ValueChars
<1>1. p + Lanes <= Len(f)
  BY DEF Clean
<1> SUFFICES ASSUME NEW i \in p + 1 .. p + Lanes
             PROVE  f[i] \in ValueChars
  BY <1>1
<1>2. WordAt(f, p) \in Word
  <2>1. \A k \in 0 .. Lanes - 1 : f[p + k + 1] \in Byte
    BY <1>1, LanesAssumption
  <2> QED
    BY <2>1 DEF Word, WordAt
<1>3. \A k \in 0 .. Lanes - 1 : WordAt(f, p)[k] \in Printable
  BY <1>2, FilterSound DEF Clean
<1>4. i - p - 1 \in 0 .. Lanes - 1 /\ p + (i - p - 1) + 1 = i
  BY LanesAssumption
<1>5. f[i] \in 32 .. 126
  BY <1>3, <1>4 DEF WordAt, Printable
<1> QED
  BY <1>5, PrintableStandsInValues

-----------------------------------------------------------------------------
(***************************************************************************)
(* Where the cursors stand.  Only the gate may read past the end: the hint *)
(* is the caller's.                                                        *)
(***************************************************************************)
CursorsInBuffer ==
  /\ pc \notin {"idle", "gate"} => pos <= Len(buf)
  /\ pc # "idle" => start <= pos
  /\ pc = "gate" => start = 0 /\ breaks < 2
  /\ pc \in {"trim", "strip"} => start <= stop /\ stop < pos
  /\ pc = "status" => pos < start + 3

(***************************************************************************)
(* How much of the first line has been published at each of its parts, and *)
(* that no header is before it is over.                                    *)
(***************************************************************************)
FirstLineParts ==
  {"gate", "blank", "method", "before_path", "path", "before_version", "version",
   "eol", "space", "spaces", "status", "reason_words", "reason", "strip"}

FirstLineFirst ==
  /\ pc \in FirstLineParts => count = 0
  /\ pc \in {"gate", "blank", "method"} => line = NoLine
  /\ pc = "gate" => \A i \in 1 .. cap : slots[i].name = Stale
  /\ pc \in {"before_path", "path"} => Given(line.method)
  /\ pc = "path" => End(line.method) < start
  /\ pc \in FirstLineParts \ {"eol", "status", "reason_words", "reason", "strip"} =>
       line.status = 0
  /\ pc = "status" =>
       \/ pos = start /\ line.status = 0
       \/ pos = start + 1 /\ line.status <= 900
       \/ pos = start + 2 /\ line.status <= 990

(***************************************************************************)
(* All that has been published ends before the header in progress begins,  *)
(* and its name before its value.                                          *)
(***************************************************************************)
Current == slots[count + 1]

Behind(p) ==
  /\ End(line.path) < p /\ End(line.msg) < p
  /\ count > 0 => End(slots[count].value) < p

HeaderInProgress ==
  /\ pc # "idle" => Behind(pos) /\ End(line.method) < pos
  /\ pc = "name" => Behind(start)
  /\ pc = "before_value" =>
       Given(Current.name) /\ End(Current.name) < pos /\ Behind(Current.name.off)
  /\ pc \in {"value_words", "value", "trim"} =>
       /\ Current.name # Stale
       /\ count = 0 => Given(Current.name)
       /\ IF Given(Current.name)
            THEN End(Current.name) < start /\ Behind(Current.name.off)
            ELSE Behind(start)

HInv ==
  /\ HeadTypeOK /\ OutputsInOrder /\ SlotsInOrder
  /\ CursorsInBuffer /\ FirstLineFirst /\ HeaderInProgress

-----------------------------------------------------------------------------
(***************************************************************************)
(* Pieces of the buffer.                                                   *)
(***************************************************************************)
LEMMA SpanFacts ==
  ASSUME NEW from \in Nat, NEW to \in Nat, from <= to
  PROVE  /\ Span(from, to) \in Spans /\ Span(from, to).off = from
         /\ Given(Span(from, to)) /\ End(Span(from, to)) = to
         /\ Span(from, to) # Stale /\ Span(from, to) # Null
  BY DEF Span, Spans, Given, End, Stale, Null

LEMMA NoPiece ==
  /\ ~Given(Null) /\ ~Given(Stale) /\ End(Null) = -1 /\ Null # Stale
  /\ Null.off = -1
  BY DEF Given, Null, Stale, End

LEMMA PieceTypes ==
  ASSUME NEW piece \in Spans
  PROVE  /\ Given(piece) /\ piece # Null /\ piece # Stale
         /\ piece.off \in Nat /\ piece.len \in Nat
         /\ End(piece) \in Nat /\ piece.off <= End(piece)
  BY DEF Spans, Given, Null, Stale, End

Pieces == Spans \cup {Null, Stale}

LEMMA PieceBounds ==
  ASSUME NEW piece \in Pieces
  PROVE  /\ piece.off \in Int /\ piece.len \in Nat /\ End(piece) \in Int
         /\ Given(piece) <=> piece \in Spans
         /\ piece = Stale \/ piece = Null => ~Given(piece)
  BY DEF Pieces, Spans, Given, Null, Stale, End

LEMMA Published ==
  ASSUME HeadTypeOK
  PROVE  /\ line.method \in Pieces /\ line.path \in Pieces /\ line.msg \in Pieces
         /\ line.status \in 0 .. 999
         /\ \A i \in 1 .. cap : slots[i].name \in Pieces /\ slots[i].value \in Pieces
  BY DEF HeadTypeOK, Lines, Slots, Pieces

LEMMA PublishedEnds ==
  ASSUME HeadTypeOK
  PROVE  /\ End(line.method) \in Int /\ End(line.path) \in Int /\ End(line.msg) \in Int
         /\ count > 0 => End(slots[count].value) \in Int
<1>1. /\ line.method \in Pieces /\ line.path \in Pieces /\ line.msg \in Pieces
      /\ count > 0 => slots[count].value \in Pieces
  BY Published DEF HeadTypeOK
<1> QED
  BY <1>1, PieceBounds

LEMMA NoLineFacts ==
  /\ NoLine \in Lines
  /\ NoLine.method = Null /\ NoLine.path = Null /\ NoLine.msg = Null
  /\ NoLine.status = 0
  BY DEF NoLine, Lines

(***************************************************************************)
(* A line break lies in the buffer as a whole, or is an error.             *)
(***************************************************************************)
LEMMA LineBreaks ==
  ASSUME HeadTypeOK, Sees(Breaks)
  PROVE  /\ LineBreak \in {1, 2, PARTIAL, MALFORMED}
         /\ LineBreak > 0 => pos + LineBreak <= Len(buf)
  BY DEF HeadTypeOK, Sees, LineBreak, PARTIAL, MALFORMED

(***************************************************************************)
(* A call that fails leaves the outputs as they are.                       *)
(***************************************************************************)
LEMMA FailKeeps ==
  ASSUME HInv, NEW error \in Int, Fail(error)
  PROVE  HInv'
<1> USE DEF Fail, Return, args, cursors, outputs
<1>1. HeadTypeOK'
  BY DEF HInv, HeadTypeOK, Parts
<1>2. OutputsInOrder'
  BY DEF HInv, OutputsInOrder, Inside, Given, End, HeaderAt
<1>3. SlotsInOrder'
  BY DEF HInv, SlotsInOrder, Writing, Given
<1>4. CursorsInBuffer' /\ FirstLineFirst' /\ HeaderInProgress'
  BY DEF CursorsInBuffer, FirstLineFirst, FirstLineParts, HeaderInProgress
<1> QED
  BY <1>1, <1>2, <1>3, <1>4 DEF HInv

(***************************************************************************)
(* A step that reads on, writing nothing.                                  *)
(***************************************************************************)
LEMMA Onward ==
  ASSUME HInv, pc # "idle", pc' \in Parts, UNCHANGED <<args, outputs, ret>>,
         pos' \in Nat, pos' >= pos, pos' <= Len(buf),
         start' \in Nat, stop' \in Nat, breaks' \in 0 .. 2
  PROVE  /\ HeadTypeOK' /\ OutputsInOrder'
         /\ (Writing' => count < cap) => SlotsInOrder'
         /\ Behind(pos)' /\ (End(line.method) < pos)'
<1> USE DEF args, outputs
<1>1. HeadTypeOK'
  BY DEF HInv, HeadTypeOK
<1>2. OutputsInOrder'
  <2>1. ASSUME NEW piece \in Pieces, Inside(piece)
        PROVE  Inside(piece)'
    BY <2>1, PieceBounds DEF HInv, HeadTypeOK, Inside, Given, End
  <2> QED
    BY <2>1, Published DEF HInv, HeadTypeOK, OutputsInOrder, HeaderAt, End, Given
<1>3. (Writing' => count < cap) => SlotsInOrder'
  BY DEF HInv, SlotsInOrder, Given
<1>4. Behind(pos)' /\ (End(line.method) < pos)'
  <2>1. /\ End(line.method) \in Int /\ End(line.path) \in Int /\ End(line.msg) \in Int
        /\ count > 0 => End(slots[count].value) \in Int
    BY PublishedEnds DEF HInv
  <2> QED
    BY <2>1 DEF HInv, HeadTypeOK, HeaderInProgress, Behind, End
<1> QED
  BY <1>1, <1>2, <1>3, <1>4

(***************************************************************************)
(* One byte further in a loop.                                             *)
(***************************************************************************)
Loops == {"method", "before_path", "path", "before_version", "spaces", "name",
          "before_value", "value", "reason"}

LEMMA AdvanceKeeps ==
  ASSUME HInv, pc \in Loops, pos < Len(buf), Advance
  PROVE  HInv'
<1> USE DEF Advance, Goto, outputs, args
<1>1. /\ HeadTypeOK' /\ OutputsInOrder'
      /\ (Writing' => count < cap) => SlotsInOrder'
      /\ Behind(pos)' /\ (End(line.method) < pos)'
  <2>1. pc' \in Parts /\ pc # "idle" /\ Len(buf) \in Nat
    BY DEF HInv, HeadTypeOK, Loops
  <2> QED
    BY <2>1, Onward DEF HInv, HeadTypeOK
<1>2. SlotsInOrder'
  BY <1>1 DEF HInv, SlotsInOrder, Writing
<1>3. CursorsInBuffer'
  BY DEF HInv, HeadTypeOK, CursorsInBuffer, Loops
<1>4. FirstLineFirst'
  BY DEF HInv, HeadTypeOK, FirstLineFirst, Loops, FirstLineParts, Given, End
<1>5. HeaderInProgress'
  <2>1. pc' = "before_value" => End(Current.name)' < pos'
    <3> SUFFICES ASSUME pc = "before_value"
                 PROVE  End(Current.name) < pos + 1
      BY DEF Current
    <3>1. count + 1 \in 1 .. cap
      BY DEF HInv, HeadTypeOK, SlotsInOrder, Writing
    <3>2. End(Current.name) \in Int
      BY <3>1, Published, PieceBounds DEF HInv, Current
    <3> QED
      BY <3>2 DEF HInv, HeadTypeOK, HeaderInProgress
  <2> QED
    BY <1>1, <2>1 DEF HInv, HeaderInProgress, Behind, Given, Current, Loops, End
<1> QED
  BY <1>1, <1>2, <1>3, <1>4, <1>5 DEF HInv

-----------------------------------------------------------------------------
(***************************************************************************)
(* The gate.                                                               *)
(***************************************************************************)
LEMMA GateByteKeeps ==
  ASSUME HInv, GateByte
  PROVE  HInv'
<1> USE DEF GateByte, Goto, outputs, args, Sees
<1>1. /\ HeadTypeOK' /\ OutputsInOrder'
      /\ (Writing' => count < cap) => SlotsInOrder'
      /\ Behind(pos)' /\ (End(line.method) < pos)'
  <2>1. pc' \in Parts /\ pc # "idle" /\ Len(buf) \in Nat
    BY DEF HInv, HeadTypeOK
  <2> QED
    BY <2>1, Onward DEF HInv, HeadTypeOK
<1>2. SlotsInOrder'
  BY <1>1 DEF Writing
<1>3. CursorsInBuffer' /\ FirstLineFirst' /\ HeaderInProgress'
  BY <1>1 DEF HInv, HeadTypeOK, CursorsInBuffer, FirstLineFirst, FirstLineParts,
              HeaderInProgress
<1> QED
  BY <1>1, <1>2, <1>3 DEF HInv

(* The parse begins with nothing published. *)
LEMMA ParseBegins ==
  ASSUME HeadTypeOK', SlotsInOrder', line' = NoLine, count' = 0,
         \A i \in 1 .. cap' : slots'[i].name = Stale,
         pos' \in Nat, pc' \in {"gate", FirstPart(kind')}, kind' \in Kinds,
         pc' # "gate" => pos' <= Len(buf'),
         start' = 0, breaks' \in Nat, pc' = "gate" => breaks' < 2
  PROVE  HInv'
<1>1. OutputsInOrder'
  <2>1. \A i \in 1 .. cap' : slots'[i].value = Stale
    BY DEF SlotsInOrder
  <2>2. ~Given(slots[1].name)' \/ cap' = 0
    BY NoPiece DEF HeadTypeOK
  <2> QED
    BY <2>1, NoPiece, NoLineFacts DEF HeadTypeOK, OutputsInOrder, Inside
<1>2. CursorsInBuffer'
  BY DEF CursorsInBuffer, FirstPart, Kinds
<1>3. FirstLineFirst'
  BY NoLineFacts DEF FirstLineFirst, FirstPart, Kinds
<1>4. HeaderInProgress'
  BY NoPiece, NoLineFacts DEF HeaderInProgress, Behind, FirstPart, Kinds
<1> QED
  BY <1>1, <1>2, <1>3, <1>4 DEF HInv

LEMMA GateBreakKeeps ==
  ASSUME HInv, GateBreak
  PROVE  HInv'
<1> USE DEF GateBreak, Goto, outputs, args
<1>1. LineBreak \in {1, 2} /\ pos + LineBreak <= Len(buf)
  BY LineBreaks DEF HInv, PARTIAL, MALFORMED
<1>2. /\ line' = NoLine /\ count' = 0 /\ start' = 0
      /\ \A i \in 1 .. cap' : slots'[i].name = Stale
  BY DEF HInv, FirstLineFirst, FirstLineParts, CursorsInBuffer
<1>3. /\ pos' \in Nat /\ pos' <= Len(buf) /\ breaks' \in 0 .. 2
      /\ pc' = "gate" => breaks' < 2
  <2>1. FirstPart(kind) # "gate" /\ Len(buf) \in Nat
    BY DEF HInv, HeadTypeOK, Kinds, FirstPart
  <2> QED
    BY <1>1, <2>1 DEF HInv, HeadTypeOK, CursorsInBuffer
<1>4. pc' \in {"gate", FirstPart(kind')} /\ kind' \in Kinds
  BY DEF HInv, HeadTypeOK
<1>5. HeadTypeOK'
  BY <1>3, <1>4 DEF HInv, HeadTypeOK, Parts, Reading, FirstPart, Kinds
<1>6. SlotsInOrder'
  BY <1>4 DEF HInv, SlotsInOrder, Writing, FirstPart, Kinds, Given
<1> QED
  BY <1>2, <1>3, <1>4, <1>5, <1>6, ParseBegins

(***************************************************************************)
(* The first line of a request.                                            *)
(***************************************************************************)
LEMMA LeadingLineKeeps ==
  ASSUME HInv, LeadingLine
  PROVE  HInv'
<1> USE DEF LeadingLine, Goto, outputs, args
<1>1. Len(buf) \in Nat /\ pos' \in Nat /\ pos' >= pos /\ pos' <= Len(buf)
  BY LineBreaks DEF HInv, HeadTypeOK, PARTIAL, MALFORMED, Sees
<1>2. /\ HeadTypeOK' /\ OutputsInOrder'
      /\ (Writing' => count < cap) => SlotsInOrder'
      /\ Behind(pos)' /\ (End(line.method) < pos)'
  <2>1. pc' \in Parts /\ pc # "idle"
    BY DEF Parts, Reading
  <2> QED
    BY <1>1, <2>1, Onward DEF HInv, HeadTypeOK
<1>3. SlotsInOrder'
  BY <1>2 DEF Writing
<1>4. CursorsInBuffer' /\ FirstLineFirst' /\ HeaderInProgress'
  BY <1>1, <1>2 DEF HInv, CursorsInBuffer, FirstLineFirst, FirstLineParts,
                    HeaderInProgress
<1> QED
  BY <1>2, <1>3, <1>4 DEF HInv

(***************************************************************************)
(* Publishing a part of the first line leaves the others.                  *)
(***************************************************************************)
LEMMA LineUpdates ==
  ASSUME NEW l \in Lines, NEW piece \in Spans
  PROVE  /\ LET m == [l EXCEPT !.method = piece] IN
              /\ m \in Lines /\ m.method = piece
              /\ m.path = l.path /\ m.msg = l.msg /\ m.status = l.status
         /\ LET m == [l EXCEPT !.path = piece] IN
              /\ m \in Lines /\ m.path = piece
              /\ m.method = l.method /\ m.msg = l.msg /\ m.status = l.status
         /\ LET m == [l EXCEPT !.msg = piece] IN
              /\ m \in Lines /\ m.msg = piece
              /\ m.method = l.method /\ m.path = l.path /\ m.status = l.status
  BY DEF Lines

LEMMA VersionUpdate ==
  ASSUME NEW l \in Lines, NEW v \in 0 .. 9
  PROVE  LET m == [l EXCEPT !.version = v] IN
         /\ m \in Lines /\ m.status = l.status
         /\ m.method = l.method /\ m.path = l.path /\ m.msg = l.msg
  BY DEF Lines

LEMMA MethodEndKeeps ==
  ASSUME HInv, MethodEnd
  PROVE  HInv'
<1> USE DEF MethodEnd, Goto, outputs, args, Sees
<1>1. /\ Len(buf) \in Nat /\ pos \in Nat /\ start \in Nat /\ start <= pos
      /\ pos + 1 <= Len(buf) /\ count = 0 /\ line = NoLine
  BY DEF HInv, HeadTypeOK, CursorsInBuffer, FirstLineFirst, FirstLineParts
<1>2. /\ line'.method = Span(start, pos) /\ line'.path = Null /\ line'.msg = Null
      /\ line'.status = 0 /\ line' \in Lines
  <2>1. Span(start, pos) \in Spans
    BY <1>1, SpanFacts
  <2>2. line \in Lines /\ line.path = Null /\ line.msg = Null /\ line.status = 0
    BY <1>1, NoLineFacts
  <2> QED
    BY <2>1, <2>2, LineUpdates
<1>3. Given(Span(start, pos)) /\ End(Span(start, pos)) = pos
  BY <1>1, SpanFacts
<1>4. HeadTypeOK'
  BY <1>1, <1>2 DEF HInv, HeadTypeOK, Parts, Reading
<1>5. OutputsInOrder'
  <2>1. ASSUME NEW piece \in Pieces, Inside(piece)
        PROVE  Inside(piece)'
    BY <1>1, <2>1, PieceBounds DEF Inside
  <2>2. \A i \in 1 .. cap : Inside(slots[i].name)' /\ Inside(slots[i].value)'
    BY <2>1, Published DEF HInv, OutputsInOrder, Inside
  <2>3. Inside(line.method)' /\ Inside(line.path)' /\ Inside(line.msg)'
    BY <1>1, <1>2, <1>3, NoPiece DEF Inside
  <2> QED
    BY <1>1, <1>2, <2>2, <2>3, NoPiece DEF OutputsInOrder
<1>6. SlotsInOrder'
  BY DEF HInv, SlotsInOrder, Writing, Given
<1>7. CursorsInBuffer'
  BY <1>1 DEF CursorsInBuffer
<1>8. FirstLineFirst'
  BY <1>1, <1>2, <1>3 DEF FirstLineFirst, FirstLineParts
<1>9. HeaderInProgress'
  BY <1>1, <1>2, <1>3, NoPiece DEF HeaderInProgress, Behind
<1> QED
  BY <1>4, <1>5, <1>6, <1>7, <1>8, <1>9 DEF HInv

LEMMA BeforePathKeeps ==
  ASSUME HInv, BeforePath
  PROVE  HInv'
<1> USE DEF BeforePath, Sees
<1>1. CASE Advance
  BY <1>1, AdvanceKeeps DEF Loops
<1>2. CASE ~Advance
  <2> USE <1>2 DEF Goto, outputs, args
  <2>1. /\ HeadTypeOK' /\ OutputsInOrder'
        /\ (Writing' => count < cap) => SlotsInOrder'
        /\ Behind(pos)' /\ (End(line.method) < pos)'
    <3>1. pc' \in Parts /\ pc # "idle"
      BY DEF Parts, Reading
    <3> QED
      BY <3>1, Onward DEF HInv, HeadTypeOK
  <2>2. SlotsInOrder'
    BY <2>1 DEF Writing
  <2>3. CursorsInBuffer'
    BY DEF HInv, HeadTypeOK, CursorsInBuffer
  <2>4. FirstLineFirst'
    BY <2>1 DEF HInv, FirstLineFirst, FirstLineParts, Given
  <2>5. HeaderInProgress'
    BY <2>1 DEF HeaderInProgress
  <2> QED
    BY <2>1, <2>2, <2>3, <2>4, <2>5 DEF HInv
<1> QED
  BY <1>1, <1>2

LEMMA PathEndKeeps ==
  ASSUME HInv, PathEnd
  PROVE  HInv'
<1> USE DEF PathEnd, Goto, outputs, args, Sees
<1>1. /\ Len(buf) \in Nat /\ pos \in Nat /\ start \in Nat /\ start <= pos
      /\ pos + 1 <= Len(buf) /\ count = 0 /\ Given(line.method)
      /\ End(line.method) < start /\ End(line.method) \in Int /\ End(line.msg) < pos
      /\ line.status = 0 /\ End(line.msg) \in Int
  BY PublishedEnds DEF HInv, HeadTypeOK, CursorsInBuffer, FirstLineFirst,
                       FirstLineParts, HeaderInProgress, Behind
<1>2. /\ line'.method = line.method /\ line'.path = Span(start, pos) /\ line'.msg = line.msg
      /\ line'.status = line.status /\ line' \in Lines
  BY <1>1, SpanFacts, LineUpdates DEF HInv, HeadTypeOK
<1>3. Given(Span(start, pos)) /\ End(Span(start, pos)) = pos /\ Span(start, pos).off = start
  BY <1>1, SpanFacts
<1>4. HeadTypeOK'
  BY <1>1, <1>2 DEF HInv, HeadTypeOK, Parts, Reading
<1>5. OutputsInOrder'
  <2>1. ASSUME NEW piece \in Pieces, Inside(piece)
        PROVE  Inside(piece)'
    BY <1>1, <2>1, PieceBounds DEF Inside
  <2>2. \A i \in 1 .. cap : Inside(slots[i].name)' /\ Inside(slots[i].value)'
    BY <2>1, Published DEF HInv, OutputsInOrder, Inside
  <2>3. Inside(line.method)' /\ Inside(line.msg)'
    BY <1>2, <2>1, Published DEF HInv, OutputsInOrder, Inside
  <2>4. Inside(line.path)'
    BY <1>1, <1>2, <1>3 DEF Inside
  <2> QED
    BY <1>1, <1>2, <1>3, <2>2, <2>3, <2>4 DEF OutputsInOrder
<1>6. SlotsInOrder'
  BY DEF HInv, SlotsInOrder, Writing, Given
<1>7. CursorsInBuffer'
  BY <1>1 DEF CursorsInBuffer
<1>8. FirstLineFirst'
  BY <1>1, <1>2, <1>3 DEF FirstLineFirst, FirstLineParts
<1>9. HeaderInProgress'
  BY <1>1, <1>2, <1>3 DEF HeaderInProgress, Behind
<1> QED
  BY <1>4, <1>5, <1>6, <1>7, <1>8, <1>9 DEF HInv

LEMMA BeforeVersionKeeps ==
  ASSUME HInv, BeforeVersion
  PROVE  HInv'
<1> USE DEF BeforeVersion, Sees
<1>1. CASE Advance
  BY <1>1, AdvanceKeeps DEF Loops
<1>2. CASE Fail(MALFORMED)
  BY <1>2, FailKeeps DEF MALFORMED
<1>3. CASE Goto("version") /\ pos < Len(buf) /\ UNCHANGED <<cursors, outputs>>
  <2> USE <1>3 DEF Goto, cursors, outputs, args
  <2>1. /\ HeadTypeOK' /\ OutputsInOrder'
        /\ (Writing' => count < cap) => SlotsInOrder'
        /\ Behind(pos)' /\ (End(line.method) < pos)'
    <3>1. pc' \in Parts /\ pc # "idle" /\ pos <= Len(buf) /\ breaks \in 0 .. 2
      BY DEF HInv, HeadTypeOK, CursorsInBuffer, Parts, Reading
    <3> QED
      BY <3>1, Onward DEF HInv, HeadTypeOK
  <2>2. SlotsInOrder'
    BY <2>1 DEF Writing
  <2>3. CursorsInBuffer'
    BY DEF HInv, CursorsInBuffer
  <2>4. FirstLineFirst'
    BY DEF HInv, FirstLineFirst, FirstLineParts
  <2>5. HeaderInProgress'
    BY <2>1 DEF HeaderInProgress
  <2> QED
    BY <2>1, <2>2, <2>3, <2>4, <2>5 DEF HInv
<1> QED
  BY <1>1, <1>2, <1>3

LEMMA RequestEolKeeps ==
  ASSUME HInv, RequestEol
  PROVE  HInv'
<1> USE DEF RequestEol
<1>1. CASE Fail(MALFORMED)
  BY <1>1, FailKeeps DEF MALFORMED
<1>2. CASE ~Fail(MALFORMED)
  <2> USE <1>2 DEF Goto, outputs, args
  <2>1. Len(buf) \in Nat /\ pos' \in Nat /\ pos' >= pos /\ pos' <= Len(buf)
    BY LineBreaks DEF HInv, HeadTypeOK, PARTIAL, MALFORMED
  <2>2. /\ HeadTypeOK' /\ OutputsInOrder'
        /\ (Writing' => count < cap) => SlotsInOrder'
        /\ Behind(pos)' /\ (End(line.method) < pos)'
    <3>1. pc' \in Parts /\ pc # "idle"
      BY DEF Parts, Reading
    <3> QED
      BY <2>1, <3>1, Onward DEF HInv, HeadTypeOK
  <2>3. SlotsInOrder'
    BY <2>2 DEF Writing
  <2>4. CursorsInBuffer'
    BY <2>1 DEF HInv, HeadTypeOK, CursorsInBuffer
  <2>5. FirstLineFirst'
    BY DEF FirstLineFirst, FirstLineParts
  <2>6. HeaderInProgress'
    BY <2>2 DEF HeaderInProgress
  <2> QED
    BY <2>2, <2>3, <2>4, <2>5, <2>6 DEF HInv
<1> QED
  BY <1>1, <1>2

LEMMA RequestStepKeeps ==
  ASSUME HInv, RequestStep
  PROVE  HInv'
<1>1. CASE MethodByte \/ PathByte
  BY <1>1, AdvanceKeeps DEF MethodByte, PathByte, Loops, Sees
<1>2. CASE MethodBad \/ PathBad
  BY <1>2, FailKeeps DEF MethodBad, PathBad, MALFORMED
<1> QED
  BY <1>1, <1>2, LeadingLineKeeps, MethodEndKeeps, BeforePathKeeps, PathEndKeeps,
     BeforeVersionKeeps, RequestEolKeeps DEF RequestStep

(***************************************************************************)
(* The version.                                                            *)
(***************************************************************************)
LEMMA VersionKeeps ==
  ASSUME HInv, Version
  PROVE  HInv'
<1> USE DEF Version
<1>1. CASE Fail(PARTIAL) \/ Fail(MALFORMED)
  BY <1>1, FailKeeps DEF PARTIAL, MALFORMED
<1>2. CASE ~(Fail(PARTIAL) \/ Fail(MALFORMED))
  <2> USE <1>2 DEF Goto, args
  <2>1. /\ Len(buf) \in Nat /\ pos \in Nat /\ pos' = pos + 8 /\ pos' <= Len(buf)
        /\ start \in Nat /\ start <= pos /\ count = 0 /\ line.status = 0
        /\ VersionHere
    BY DEF HInv, HeadTypeOK, CursorsInBuffer, FirstLineFirst, FirstLineParts
  <2>2. /\ line'.method = line.method /\ line'.path = line.path /\ line'.msg = line.msg
        /\ line'.status = line.status /\ line' \in Lines
    <3>1. Octet(pos + 7) - 48 \in 0 .. 9
      BY <2>1 DEF VersionHere, Digits
    <3>2. line \in Lines /\ line' = [line EXCEPT !.version = Octet(pos + 7) - 48]
      BY DEF HInv, HeadTypeOK
    <3> QED
      BY <3>1, <3>2, VersionUpdate
  <2>3. HeadTypeOK'
    BY <2>1, <2>2 DEF HInv, HeadTypeOK, Parts, Reading, AfterVersion
  <2>4. OutputsInOrder'
    <3>1. ASSUME NEW piece \in Pieces, Inside(piece)
          PROVE  Inside(piece)'
      BY <2>1, <3>1, PieceBounds DEF Inside
    <3>2. \A i \in 1 .. cap : Inside(slots[i].name)' /\ Inside(slots[i].value)'
      BY <3>1, Published DEF HInv, OutputsInOrder, Inside
    <3>3. Inside(line.method)' /\ Inside(line.path)' /\ Inside(line.msg)'
      BY <2>2, <3>1, Published DEF HInv, OutputsInOrder, Inside
    <3> QED
      BY <2>1, <2>2, <3>2, <3>3 DEF HInv, OutputsInOrder
  <2>5. SlotsInOrder'
    BY DEF HInv, SlotsInOrder, Writing, Given, AfterVersion
  <2>6. CursorsInBuffer'
    BY <2>1 DEF CursorsInBuffer, AfterVersion
  <2>7. FirstLineFirst'
    BY <2>1, <2>2 DEF FirstLineFirst, FirstLineParts, AfterVersion
  <2>8. HeaderInProgress'
    <3>1. Behind(pos) /\ End(line.method) < pos
      BY DEF HInv, HeaderInProgress
    <3>2. /\ End(line.path) < pos + 8 /\ End(line.msg) < pos + 8
          /\ End(line.method) < pos + 8
      BY <2>1, <3>1, PublishedEnds DEF HInv, Behind
    <3> QED
      BY <2>1, <2>2, <3>2 DEF HeaderInProgress, Behind, AfterVersion
  <2> QED
    BY <2>3, <2>4, <2>5, <2>6, <2>7, <2>8 DEF HInv
<1> QED
  BY <1>1, <1>2

-----------------------------------------------------------------------------
(***************************************************************************)
(* The status line.                                                        *)
(***************************************************************************)
LEMMA SpaceRequiredKeeps ==
  ASSUME HInv, SpaceRequired
  PROVE  HInv'
<1> USE DEF SpaceRequired, Sees
<1>1. CASE Fail(MALFORMED)
  BY <1>1, FailKeeps DEF MALFORMED
<1>2. CASE ~Fail(MALFORMED)
  <2> USE <1>2 DEF Goto, outputs, args
  <2>1. /\ HeadTypeOK' /\ OutputsInOrder'
        /\ (Writing' => count < cap) => SlotsInOrder'
        /\ Behind(pos)' /\ (End(line.method) < pos)'
    <3>1. pc' \in Parts /\ pc # "idle" /\ Len(buf) \in Nat
      BY DEF HInv, HeadTypeOK, Parts, Reading
    <3> QED
      BY <3>1, Onward DEF HInv, HeadTypeOK
  <2>2. SlotsInOrder'
    BY <2>1 DEF Writing
  <2>3. CursorsInBuffer'
    BY DEF HInv, HeadTypeOK, CursorsInBuffer
  <2>4. FirstLineFirst'
    BY DEF HInv, FirstLineFirst, FirstLineParts
  <2>5. HeaderInProgress'
    BY <2>1 DEF HeaderInProgress
  <2> QED
    BY <2>1, <2>2, <2>3, <2>4, <2>5 DEF HInv
<1> QED
  BY <1>1, <1>2

LEMMA MoreSpacesKeeps ==
  ASSUME HInv, MoreSpaces
  PROVE  HInv'
<1> USE DEF MoreSpaces, Sees
<1>1. CASE Advance
  BY <1>1, AdvanceKeeps DEF Loops
<1>2. CASE ~Advance
  <2> USE <1>2 DEF Goto, outputs, args
  <2>1. /\ HeadTypeOK' /\ OutputsInOrder'
        /\ (Writing' => count < cap) => SlotsInOrder'
        /\ Behind(pos)' /\ (End(line.method) < pos)'
    <3>1. pc' \in Parts /\ pc # "idle" /\ Len(buf) \in Nat
      BY DEF HInv, HeadTypeOK, Parts, Reading
    <3> QED
      BY <3>1, Onward DEF HInv, HeadTypeOK
  <2>2. SlotsInOrder'
    BY <2>1 DEF Writing
  <2>3. CursorsInBuffer'
    BY DEF HInv, HeadTypeOK, CursorsInBuffer
  <2>4. FirstLineFirst'
    BY DEF HInv, FirstLineFirst, FirstLineParts
  <2>5. HeaderInProgress'
    BY <2>1 DEF HeaderInProgress
  <2> QED
    BY <2>1, <2>2, <2>3, <2>4, <2>5 DEF HInv
<1> QED
  BY <1>1, <1>2

LEMMA WeightedDigit ==
  ASSUME NEW sofar \in Nat, NEW digit \in 0 .. 9, NEW weight \in {100, 10, 1},
         sofar <= 1000 - 10 * weight
  PROVE  sofar + weight * digit \in 0 .. 1000 - weight
<1>1. CASE weight = 100
  BY <1>1
<1>2. CASE weight = 10
  BY <1>2
<1>3. CASE weight = 1
  BY <1>3
<1> QED
  BY <1>1, <1>2, <1>3

(* The code stays below 1000: each digit adds at most nine of its weight. *)
LEMMA StatusCodeKeeps ==
  ASSUME HInv, StatusCode
  PROVE  HInv'
<1> USE DEF StatusCode
<1>1. CASE Fail(PARTIAL) \/ Fail(MALFORMED)
  BY <1>1, FailKeeps DEF PARTIAL, MALFORMED
<1>2. CASE ~(Fail(PARTIAL) \/ Fail(MALFORMED))
  <2> USE <1>2 DEF Goto, args
  <2>1. /\ pc = "status" /\ Sees(Digits) /\ pos' = pos + 1
        /\ line' = [line EXCEPT !.status = line.status + Weight * (Octet(pos) - 48)]
        /\ \/ pc' = "status" /\ pos' < start + 3 /\ start' = start
           \/ pc' = "reason_words" /\ pos' = start + 3 /\ start' = pos'
        /\ UNCHANGED <<stop, breaks, slots, count, args, ret>>
    OBVIOUS
  <2> HIDE <1>2 DEF StatusCode
  <2>2. /\ Len(buf) \in Nat /\ pos \in Nat /\ pos + 1 <= Len(buf) /\ start \in Nat
        /\ start <= pos /\ count = 0 /\ line \in Lines
        /\ \/ pos = start /\ line.status = 0
           \/ pos = start + 1 /\ line.status <= 900
           \/ pos = start + 2 /\ line.status <= 990
    BY <2>1 DEF HInv, HeadTypeOK, CursorsInBuffer, FirstLineFirst, FirstLineParts, Sees
  <2>3. line.status \in Nat /\ Octet(pos) - 48 \in 0 .. 9
    <3>1. Octet(pos) \in 48 .. 57
      BY <2>1 DEF Sees, Digits
    <3>2. Octet(pos) - 48 \in 0 .. 9
      BY <3>1
    <3>3. line.status \in 0 .. 999
      BY Published DEF HInv
    <3> QED
      BY <3>2, <3>3
  <2> DEFINE code == line.status + Weight * (Octet(pos) - 48)
  <2>4. /\ code \in 0 .. 999
        /\ pos = start => code <= 900
        /\ pos = start + 1 => code <= 990
    <3>1. /\ Weight \in {100, 10, 1} /\ line.status <= 1000 - 10 * Weight
          /\ pos = start => Weight = 100
          /\ pos = start + 1 => Weight = 10
      <4>1. CASE pos = start
        BY <2>2, <4>1 DEF Weight
      <4>2. CASE pos = start + 1
        BY <2>2, <4>2 DEF Weight
      <4>3. CASE pos = start + 2
        BY <2>2, <4>3 DEF Weight
      <4> QED
        BY <2>2, <4>1, <4>2, <4>3
    <3>2. \A sofar \in Nat, digit \in 0 .. 9 :
            sofar <= 1000 - 10 * Weight => sofar + Weight * digit \in 0 .. 1000 - Weight
      BY <3>1, WeightedDigit
    <3>3. line.status + Weight * (Octet(pos) - 48) \in 0 .. 1000 - Weight
      BY <2>3, <3>1, <3>2
    <3>4. ASSUME NEW n \in 0 .. 1000 - Weight
          PROVE  /\ n \in 0 .. 999
                 /\ pos = start => n <= 900
                 /\ pos = start + 1 => n <= 990
      BY <3>1
    <3> QED
      BY <3>3, <3>4
  <2>5. line' = [line EXCEPT !.status = code]
    BY <2>1
  <2> HIDE DEF code
  <2>6. /\ line'.method = line.method /\ line'.path = line.path /\ line'.msg = line.msg
        /\ line'.status = code /\ line' \in Lines
    <3>1. line \in Lines /\ code \in 0 .. 999
      BY <2>2, <2>4
    <3> QED
      BY <2>5, <3>1 DEF Lines
  <2>7. HeadTypeOK'
    BY <2>1, <2>2, <2>6 DEF HInv, HeadTypeOK, Parts, Reading
  <2>8. OutputsInOrder'
    <3>1. ASSUME NEW piece \in Pieces, Inside(piece)
          PROVE  Inside(piece)'
      BY <2>1, <2>2, <3>1, PieceBounds DEF Inside
    <3>2. \A i \in 1 .. cap : Inside(slots[i].name)' /\ Inside(slots[i].value)'
      BY <2>1, <3>1, Published DEF HInv, OutputsInOrder, Inside
    <3>3. Inside(line.method)' /\ Inside(line.path)' /\ Inside(line.msg)'
      BY <2>6, <3>1, Published DEF HInv, OutputsInOrder, Inside
    <3> QED
      BY <2>1, <2>2, <2>6, <3>2, <3>3 DEF HInv, OutputsInOrder
  <2>9. SlotsInOrder'
    BY <2>1 DEF HInv, SlotsInOrder, Writing, Given
  <2>10. CursorsInBuffer'
    BY <2>1, <2>2 DEF CursorsInBuffer
  <2>11. FirstLineFirst'
    <3>1. pc' = "status" => \/ pos' = start' + 1 /\ line'.status <= 900
                            \/ pos' = start' + 2 /\ line'.status <= 990
      BY <2>1, <2>2, <2>4, <2>6
    <3> QED
      BY <2>1, <2>2, <3>1 DEF FirstLineFirst, FirstLineParts
  <2>12. HeaderInProgress'
    <3>1. Behind(pos) /\ End(line.method) < pos
      BY <2>1 DEF HInv, HeaderInProgress
    <3>2. /\ End(line.path) < pos + 1 /\ End(line.msg) < pos + 1
          /\ End(line.method) < pos + 1
      BY <2>2, <3>1, PublishedEnds DEF HInv, Behind
    <3> QED
      BY <2>1, <2>2, <2>6, <3>2 DEF HeaderInProgress, Behind
  <2> QED
    BY <2>7, <2>8, <2>9, <2>10, <2>11, <2>12 DEF HInv
<1> QED
  BY <1>1, <1>2

LEMMA ReasonEndKeeps ==
  ASSUME HInv, ReasonEnd
  PROVE  HInv'
<1>1. /\ pc = "reason" /\ line' = [line EXCEPT !.msg = Span(start, pos)]
      /\ \/ pc' = "idle" /\ ret' = MALFORMED /\ UNCHANGED cursors
         \/ /\ pc' \in {"line", "strip"} /\ pos' = pos + LineBreak /\ stop' = pos
            /\ UNCHANGED <<start, breaks, ret>>
      /\ UNCHANGED <<args, slots, count>>
  BY DEF ReasonEnd, Return, Goto, args
<1>2. /\ Len(buf) \in Nat /\ pos \in Nat /\ start \in Nat /\ start <= pos
      /\ pos <= Len(buf) /\ count = 0 /\ line \in Lines
  BY <1>1 DEF HInv, HeadTypeOK, CursorsInBuffer, FirstLineFirst, FirstLineParts
<1>3. pos' \in Nat /\ pos' >= pos /\ pos' <= Len(buf) /\ (pc' # "idle" => pos' > pos)
  <2>1. LineBreak \in {1, 2} /\ pos + LineBreak <= Len(buf)
    BY LineBreaks DEF HInv, ReasonEnd, PARTIAL, MALFORMED
  <2> QED
    BY <1>1, <1>2, <2>1 DEF cursors
<1>4. /\ line'.method = line.method /\ line'.path = line.path
      /\ line'.msg = Span(start, pos) /\ line' \in Lines
  <2>1. Span(start, pos) \in Spans
    BY <1>2, SpanFacts
  <2> QED
    BY <1>1, <1>2, <2>1, LineUpdates
<1>5. Given(Span(start, pos)) /\ End(Span(start, pos)) = pos
  BY <1>2, SpanFacts
<1>6. HeadTypeOK'
  BY <1>1, <1>2, <1>3, <1>4 DEF HInv, HeadTypeOK, Parts, Reading, args, cursors, MALFORMED
<1>7. OutputsInOrder'
  <2>1. ASSUME NEW piece \in Pieces, Inside(piece)
        PROVE  Inside(piece)'
    BY <1>1, <1>2, <1>3, <2>1, PieceBounds DEF Inside, args
  <2>2. \A i \in 1 .. cap : Inside(slots[i].name)' /\ Inside(slots[i].value)'
    BY <1>1, <2>1, Published DEF HInv, OutputsInOrder, Inside
  <2>3. Inside(line.method)' /\ Inside(line.path)'
    BY <1>4, <2>1, Published DEF HInv, OutputsInOrder, Inside
  <2>4. Inside(line.msg)'
    BY <1>1, <1>2, <1>3, <1>4, <1>5 DEF Inside, args
  <2> QED
    BY <1>1, <1>2, <1>4, <2>2, <2>3, <2>4 DEF HInv, OutputsInOrder, args
<1>8. SlotsInOrder'
  BY <1>1 DEF HInv, SlotsInOrder, Writing, Given, args
<1>9. CursorsInBuffer'
  BY <1>1, <1>2, <1>3 DEF CursorsInBuffer, args
<1>10. FirstLineFirst'
  BY <1>1, <1>2 DEF FirstLineFirst, FirstLineParts
<1>11. HeaderInProgress'
  <2>1. Behind(pos) /\ End(line.method) < pos
    BY <1>1 DEF HInv, HeaderInProgress
  <2>2. pc' # "idle" => End(line.path) < pos' /\ End(line.method) < pos' /\ pos < pos'
    BY <1>2, <1>3, <2>1, PublishedEnds DEF HInv, Behind
  <2> QED
    BY <1>1, <1>2, <1>4, <1>5, <2>2 DEF HeaderInProgress, Behind
<1> QED
  BY <1>6, <1>7, <1>8, <1>9, <1>10, <1>11 DEF HInv

LEMMA StripSpacesKeeps ==
  ASSUME HInv, StripSpaces
  PROVE  HInv'
<1>1. /\ Len(buf) \in Nat /\ pos \in Nat /\ start \in Nat /\ stop \in Nat
      /\ start <= stop /\ stop < pos /\ pos <= Len(buf) /\ count = 0 /\ line \in Lines
      /\ pc = "strip"
  BY DEF HInv, HeadTypeOK, CursorsInBuffer, FirstLineFirst, FirstLineParts, StripSpaces
<1>2. CASE LeadingSpace
  <2>1. /\ start' = start + 1 /\ start < stop /\ pc' = "strip"
        /\ UNCHANGED <<args, pos, stop, breaks, ret, outputs>>
    BY <1>2 DEF StripSpaces, LeadingSpace, Goto, args, outputs
  <2>2. /\ HeadTypeOK' /\ OutputsInOrder'
        /\ (Writing' => count < cap) => SlotsInOrder'
        /\ Behind(pos)' /\ (End(line.method) < pos)'
    <3>1. pc' \in Parts /\ pc # "idle"
      BY <1>1, <2>1 DEF Parts
    <3> QED
      BY <1>1, <2>1, <3>1, Onward DEF HInv, HeadTypeOK
  <2>3. SlotsInOrder'
    BY <2>1, <2>2 DEF Writing
  <2>4. CursorsInBuffer' /\ FirstLineFirst' /\ HeaderInProgress'
    BY <1>1, <2>1, <2>2 DEF CursorsInBuffer, FirstLineFirst, FirstLineParts,
                            HeaderInProgress, args, outputs
  <2> QED
    BY <2>2, <2>3, <2>4 DEF HInv
<1>3. CASE ~LeadingSpace
  <2>1. /\ line' = [line EXCEPT !.msg = Span(start, stop)] /\ pc' = "line"
        /\ UNCHANGED <<args, cursors, ret, slots, count>>
    BY <1>3 DEF StripSpaces, Goto, args, cursors
  <2>2. /\ line'.method = line.method /\ line'.path = line.path
        /\ line'.msg = Span(start, stop) /\ line' \in Lines
    <3>1. Span(start, stop) \in Spans
      BY <1>1, SpanFacts
    <3> QED
      BY <1>1, <2>1, <3>1, LineUpdates
  <2>3. Given(Span(start, stop)) /\ End(Span(start, stop)) = stop
    BY <1>1, SpanFacts
  <2>4. HeadTypeOK'
    BY <1>1, <2>1, <2>2 DEF HInv, HeadTypeOK, Parts, Reading, args, cursors
  <2>5. OutputsInOrder'
    <3>1. \A piece : Inside(piece) = Inside(piece)'
      BY <2>1 DEF Inside, args, cursors
    <3>2. Inside(line.msg)'
      BY <1>1, <2>1, <2>2, <2>3 DEF Inside, args, cursors
    <3> QED
      BY <1>1, <2>1, <2>2, <3>1, <3>2 DEF HInv, OutputsInOrder, Inside, args, cursors
  <2>6. SlotsInOrder'
    BY <2>1 DEF HInv, SlotsInOrder, Writing, Given, args
  <2>7. CursorsInBuffer' /\ FirstLineFirst'
    BY <1>1, <2>1 DEF CursorsInBuffer, FirstLineFirst, FirstLineParts, args, cursors
  <2>8. HeaderInProgress'
    <3>1. Behind(pos) /\ End(line.method) < pos
      BY <1>1 DEF HInv, HeaderInProgress
    <3> QED
      BY <1>1, <2>1, <2>2, <2>3, <3>1 DEF HeaderInProgress, Behind, cursors
  <2> QED
    BY <2>4, <2>5, <2>6, <2>7, <2>8 DEF HInv
<1> QED
  BY <1>2, <1>3

LEMMA StatusStepKeeps ==
  ASSUME HInv, StatusStep
  PROVE  HInv'
  BY SpaceRequiredKeeps, MoreSpacesKeeps, StatusCodeKeeps, ReasonEndKeeps,
     StripSpacesKeeps DEF StatusStep

-----------------------------------------------------------------------------
(***************************************************************************)
(* The header block.                                                       *)
(***************************************************************************)
LEMMA NewHeaderKeeps ==
  ASSUME HInv, NewHeader
  PROVE  HInv'
<1>1. /\ pc = "line" /\ pc' = "name" /\ start' = pos /\ pos < Len(buf) /\ count < cap
      /\ UNCHANGED <<args, pos, stop, breaks, ret, outputs>>
  BY DEF HInv, HeadTypeOK, NewHeader, Goto, Full, Sees, args, outputs
<1>2. /\ HeadTypeOK' /\ OutputsInOrder'
      /\ (Writing' => count < cap) => SlotsInOrder'
      /\ Behind(pos)' /\ (End(line.method) < pos)'
  <2>1. pc' \in Parts /\ pc # "idle" /\ Len(buf) \in Nat
    BY <1>1 DEF HInv, HeadTypeOK, Parts, Reading
  <2> QED
    BY <1>1, <2>1, Onward DEF HInv, HeadTypeOK
<1>3. SlotsInOrder'
  BY <1>1, <1>2
<1>4. CursorsInBuffer' /\ FirstLineFirst'
  BY <1>1 DEF HInv, HeadTypeOK, CursorsInBuffer, FirstLineFirst, FirstLineParts, args
<1>5. HeaderInProgress'
  BY <1>1, <1>2 DEF HeaderInProgress, Behind
<1> QED
  BY <1>2, <1>3, <1>4, <1>5 DEF HInv

(* What a write to the slot in progress keeps. *)
LEMMA SlotWrite ==
  ASSUME HInv, pc # "gate", NEW k \in 1 .. cap, k = count + 1, UNCHANGED <<buf, cap, line>>,
         pos' \in Nat, pos' >= pos, pos' <= Len(buf),
         \A i \in 1 .. cap : i # k => slots'[i] = slots[i],
         Inside(slots[k].name)', Inside(slots[k].value)'
  PROVE  /\ Inside(line.method)' /\ Inside(line.path)' /\ Inside(line.msg)'
         /\ \A i \in 1 .. cap : Inside(slots[i].name)' /\ Inside(slots[i].value)'
         /\ count' = count => OutputsInOrder'
<1> USE DEF HInv, HeadTypeOK
<1>1. ASSUME NEW piece \in Pieces, Inside(piece)
      PROVE  Inside(piece)'
  BY <1>1, PieceBounds DEF Inside
<1>2. Inside(line.method)' /\ Inside(line.path)' /\ Inside(line.msg)'
  BY <1>1, Published DEF OutputsInOrder, Inside
<1>3. ASSUME NEW i \in 1 .. cap
      PROVE  Inside(slots[i].name)' /\ Inside(slots[i].value)'
  <2>1. CASE i # k
    BY <1>1, <2>1, Published DEF OutputsInOrder, Inside
  <2>2. CASE i = k
    BY <2>2
  <2> QED
    BY <2>1, <2>2
<1>4. ASSUME count' = count
      PROVE  OutputsInOrder'
  <2>1. \A i \in 1 .. count : slots'[i] = slots[i] /\ HeaderAt(i)' = HeaderAt(i)
    BY DEF HeaderAt
  <2>2. ASSUME NEW i \in 1 .. count
        PROVE  /\ Given(slots'[i].value)
               /\ Given(slots'[i].name) => End(slots'[i].name) < slots'[i].value.off
               /\ End(line'.path) < HeaderAt(i)' /\ End(line'.msg) < HeaderAt(i)'
               /\ i < count => End(slots'[i].value) < HeaderAt(i + 1)'
    BY <2>1 DEF OutputsInOrder
  <2> QED
    BY <1>2, <1>3, <1>4, <2>2 DEF OutputsInOrder
<1> QED
  BY <1>2, <1>3, <1>4

(* Naming the slot in progress. *)
LEMMA NameWrite ==
  ASSUME HInv, pc \in {"line", "name"}, NEW k \in 1 .. cap, k = count + 1,
         NEW piece \in Spans \cup {Null}, slots' = [slots EXCEPT ![k].name = piece],
         UNCHANGED <<buf, cap, line, count>>,
         pos' \in Nat, pos' >= pos, pos' <= Len(buf), Given(piece) => End(piece) <= pos'
  PROVE  /\ slots' \in [1 .. cap -> Slots] /\ slots'[k].name = piece
         /\ \A i \in 1 .. count : slots'[i] = slots[i]
         /\ OutputsInOrder' /\ SlotsInOrder'
<1>1. /\ slots' \in [1 .. cap -> Slots]
      /\ slots'[k].name = piece /\ slots'[k].value = slots[k].value
      /\ \A i \in 1 .. cap : i # k => slots'[i] = slots[i]
  BY DEF HInv, HeadTypeOK, Slots
<1>2. count \in Nat /\ cap \in Nat /\ count < cap /\ count <= cap
  BY DEF HInv, HeadTypeOK
<1>3. \A i \in 1 .. count : slots'[i] = slots[i]
  BY <1>1, <1>2
<1>4. OutputsInOrder'
  <2>1. Inside(slots[k].name)'
    BY <1>1 DEF Inside
  <2>2. Inside(slots[k].value)'
    <3>1. slots[k].value = Stale
      BY <1>2 DEF HInv, SlotsInOrder
    <3> QED
      BY <1>1, <3>1, NoPiece DEF Inside
  <2>3. pc # "gate"
    OBVIOUS
  <2> QED
    BY <1>1, <2>1, <2>2, <2>3, SlotWrite
<1>5. SlotsInOrder'
  <2>1. count > 0 => slots'[1] = slots[1]
    BY <1>1, <1>2
  <2>2. ASSUME NEW i \in 1 .. cap
        PROVE  /\ i <= count => Stale \notin {slots'[i].name, slots'[i].value}
               /\ i > count => slots'[i].value = Stale
               /\ i > count + 1 => slots'[i].name = Stale
    BY <1>1, <1>2 DEF HInv, SlotsInOrder
  <2>3. (count > 0 => Given(slots[1].name))'
    BY <2>1 DEF HInv, SlotsInOrder
  <2> QED
    BY <1>2, <2>2, <2>3 DEF SlotsInOrder
<1> QED
  BY <1>1, <1>3, <1>4, <1>5

LEMMA ContinuationKeeps ==
  ASSUME HInv, Continuation
  PROVE  HInv'
<1>1. /\ pc = "line" /\ pc' = "value_words" /\ start' = pos /\ pos < Len(buf)
      /\ count + 1 \in 1 .. cap /\ count \in Nat /\ count # 0
      /\ slots' = [slots EXCEPT ![count + 1].name = Null]
      /\ UNCHANGED <<args, pos, stop, breaks, ret, line, count>>
  BY DEF HInv, HeadTypeOK, Continuation, Continues, Goto, Full, Sees, set_name, args
<1>2. PICK k \in 1 .. cap : k = count + 1
  BY <1>1
<1>3. /\ slots' \in [1 .. cap -> Slots] /\ slots'[k].name = Null
      /\ \A i \in 1 .. count : slots'[i] = slots[i]
      /\ OutputsInOrder' /\ SlotsInOrder'
  <2>1. pos' \in Nat /\ pos' >= pos /\ pos' <= Len(buf)
    BY <1>1 DEF HInv, HeadTypeOK
  <2>2. PICK piece \in Spans \cup {Null} : piece = Null
    OBVIOUS
  <2>3. slots' = [slots EXCEPT ![k].name = piece] /\ ~Given(piece)
    BY <1>1, <1>2, <2>2, NoPiece
  <2>4. /\ slots' \in [1 .. cap -> Slots] /\ slots'[k].name = piece
        /\ \A i \in 1 .. count : slots'[i] = slots[i]
        /\ OutputsInOrder' /\ SlotsInOrder'
    BY <1>1, <1>2, <2>1, <2>3, NameWrite DEF args
  <2> QED
    BY <2>2, <2>4
<1>4. HeadTypeOK'
  BY <1>1, <1>3 DEF HInv, HeadTypeOK, Parts, args
<1>5. CursorsInBuffer' /\ FirstLineFirst'
  BY <1>1 DEF HInv, HeadTypeOK, CursorsInBuffer, FirstLineFirst, FirstLineParts, args
<1>6. HeaderInProgress'
  <2>1. Behind(pos) /\ End(line.method) < pos
    BY <1>1 DEF HInv, HeaderInProgress
  <2>2. slots'[count] = slots[count]
    BY <1>1, <1>3
  <2>3. Behind(pos)' /\ Behind(start)'
    BY <1>1, <2>1, <2>2 DEF Behind
  <2>4. Current' = slots'[k]
    BY <1>1, <1>2 DEF Current
  <2> QED
    BY <1>1, <1>3, <2>1, <2>3, <2>4, NoPiece DEF HeaderInProgress
<1> QED
  BY <1>3, <1>4, <1>5, <1>6 DEF HInv

LEMMA NameEndKeeps ==
  ASSUME HInv, NameEnd
  PROVE  HInv'
<1>1. /\ pc = "name" /\ pos < Len(buf) /\ count + 1 \in 1 .. cap /\ count \in Nat
      /\ slots' = [slots EXCEPT ![count + 1].name = Span(start, pos)]
      /\ \/ pc' = "idle" /\ ret' = MALFORMED /\ pos' = pos
         \/ pc' = "before_value" /\ ret' = ret /\ pos' = pos + 1
      /\ UNCHANGED <<args, start, stop, breaks, line, count>>
  BY DEF HInv, HeadTypeOK, NameEnd, SlotsInOrder, Writing, Goto, Return, Sees, set_name,
         args
<1>2. /\ pos \in Nat /\ start \in Nat /\ start <= pos /\ Len(buf) \in Nat
  BY <1>1 DEF HInv, HeadTypeOK, CursorsInBuffer
<1>3. PICK k \in 1 .. cap : k = count + 1
  BY <1>1
<1>4. PICK piece \in Spans : piece = Span(start, pos)
  BY <1>2, SpanFacts
<1>5. Given(piece) /\ End(piece) = pos /\ piece.off = start
  BY <1>2, <1>4, SpanFacts
<1>6. /\ slots' \in [1 .. cap -> Slots] /\ slots'[k].name = piece
      /\ \A i \in 1 .. count : slots'[i] = slots[i]
      /\ OutputsInOrder' /\ SlotsInOrder'
  <2>1. pos' \in Nat /\ pos' >= pos /\ pos' <= Len(buf) /\ End(piece) <= pos'
    BY <1>1, <1>2, <1>5
  <2>2. slots' = [slots EXCEPT ![k].name = piece]
    BY <1>1, <1>3, <1>4
  <2> QED
    BY <1>1, <1>3, <2>1, <2>2, NameWrite DEF args
<1>7. HeadTypeOK'
  BY <1>1, <1>2, <1>6 DEF HInv, HeadTypeOK, Parts, Reading, args, MALFORMED
<1>8. CursorsInBuffer' /\ FirstLineFirst'
  BY <1>1, <1>2 DEF HInv, HeadTypeOK, CursorsInBuffer, FirstLineFirst, FirstLineParts, args
<1>9. HeaderInProgress'
  <2>1. Behind(pos) /\ End(line.method) < pos /\ Behind(start)
    BY <1>1 DEF HInv, HeaderInProgress
  <2>2. count > 0 => slots'[count] = slots[count]
    BY <1>1, <1>6
  <2>3. (End(line.method) < pos)' /\ Behind(pos)'
    BY <1>1, <1>2, <2>1, <2>2, PublishedEnds DEF Behind, HInv
  <2>4. Current' = slots'[k]
    BY <1>1, <1>3 DEF Current
  <2>5. Given(Current.name)' /\ (pc' # "idle" => (End(Current.name) < pos)')
    BY <1>1, <1>2, <1>5, <1>6, <2>4
  <2>6. Behind(Current.name.off)'
    BY <1>1, <1>5, <1>6, <2>1, <2>2, <2>4 DEF Behind
  <2> QED
    BY <1>1, <2>3, <2>5, <2>6 DEF HeaderInProgress
<1> QED
  BY <1>6, <1>7, <1>8, <1>9 DEF HInv

LEMMA BeforeValueKeeps ==
  ASSUME HInv, BeforeValue
  PROVE  HInv'
<1> USE DEF BeforeValue, Sees
<1>1. CASE Advance
  BY <1>1, AdvanceKeeps DEF Loops
<1>2. CASE ~Advance
  <2>1. /\ pc = "before_value" /\ pc' = "value_words" /\ start' = pos /\ pos < Len(buf)
        /\ UNCHANGED <<args, pos, stop, breaks, ret, outputs>>
    BY <1>2 DEF Goto, args, outputs
  <2>2. /\ HeadTypeOK' /\ OutputsInOrder'
        /\ (Writing' => count < cap) => SlotsInOrder'
        /\ Behind(pos)' /\ (End(line.method) < pos)'
    <3>1. pc' \in Parts /\ pc # "idle" /\ Len(buf) \in Nat
      BY <2>1 DEF HInv, HeadTypeOK, Parts, Reading
    <3> QED
      BY <2>1, <3>1, Onward DEF HInv, HeadTypeOK
  <2>3. SlotsInOrder'
    BY <2>1, <2>2 DEF HInv, HeadTypeOK, SlotsInOrder, Writing
  <2>4. CursorsInBuffer' /\ FirstLineFirst'
    BY <2>1 DEF HInv, HeadTypeOK, CursorsInBuffer, FirstLineFirst, FirstLineParts, args
  <2>5. HeaderInProgress'
    <3>1. /\ Given(Current.name) /\ End(Current.name) < pos /\ Behind(Current.name.off)
      BY <2>1 DEF HInv, HeaderInProgress
    <3>2. Current' = Current
      BY <2>1 DEF Current, outputs
    <3>3. Behind(Current.name.off)'
      BY <2>1, <3>1, <3>2 DEF Behind, outputs
    <3> QED
      BY <2>1, <2>2, <3>1, <3>2, <3>3, NoPiece DEF HeaderInProgress
  <2> QED
    BY <2>2, <2>3, <2>4, <2>5 DEF HInv
<1> QED
  BY <1>1, <1>2

(* Words are skipped within the buffer. *)
LEMMA SkipWordsKeeps ==
  ASSUME HInv, SkipWords
  PROVE  HInv'
<1>1. /\ \/ pc = "value_words" /\ pc' \in {"value_words", "value"}
         \/ pc = "reason_words" /\ pc' \in {"reason_words", "reason"}
      /\ UNCHANGED <<args, start, stop, breaks, ret, outputs>>
  BY DEF SkipWords, InWords, Goto, args, outputs
<1>2. pos' \in Nat /\ pos' >= pos /\ pos' <= Len(buf)
  <2>1. pos \in Nat /\ Len(buf) \in Nat /\ pos <= Len(buf) /\ Lanes \in Nat
    BY <1>1, LanesAssumption DEF HInv, HeadTypeOK, CursorsInBuffer
  <2>2. CASE WindowClean(buf, pos) /\ pos' = pos + 2 * Lanes
    BY <2>1, <2>2 DEF WindowClean, Clean
  <2>3. CASE Clean(buf, pos) /\ pos' = pos + Lanes
    BY <2>1, <2>3 DEF Clean
  <2>4. CASE pos' = pos
    BY <2>1, <2>4
  <2> QED
    BY <2>2, <2>3, <2>4 DEF SkipWords
<1>3. /\ HeadTypeOK' /\ OutputsInOrder'
      /\ (Writing' => count < cap) => SlotsInOrder'
      /\ Behind(pos)' /\ (End(line.method) < pos)'
  <2>1. pc' \in Parts /\ pc # "idle"
    BY <1>1 DEF Parts, Reading
  <2> QED
    BY <1>1, <1>2, <2>1, Onward DEF HInv, HeadTypeOK
<1>4. SlotsInOrder'
  BY <1>1, <1>3 DEF HInv, SlotsInOrder, Writing
<1>5. CursorsInBuffer'
  BY <1>1, <1>2 DEF HInv, HeadTypeOK, CursorsInBuffer, args
<1>6. FirstLineFirst'
  BY <1>1 DEF HInv, FirstLineFirst, FirstLineParts, outputs
<1>7. HeaderInProgress'
  <2>1. Current' = Current /\ (Behind(start) => Behind(start)')
        /\ (Behind(Current.name.off) => Behind(Current.name.off)')
    BY <1>1 DEF Current, Behind, outputs
  <2> QED
    BY <1>1, <1>3, <2>1 DEF HInv, HeaderInProgress, outputs
<1> QED
  BY <1>3, <1>4, <1>5, <1>6, <1>7 DEF HInv

LEMMA ValueEndKeeps ==
  ASSUME HInv, ValueEnd
  PROVE  HInv'
<1>1. /\ pc = "value" /\ pc' = "trim" /\ stop' = pos /\ pos' = pos + LineBreak
      /\ UNCHANGED <<args, start, breaks, ret, outputs>>
  BY DEF ValueEnd, Goto, args, outputs
<1>2. /\ pos \in Nat /\ Len(buf) \in Nat /\ start \in Nat /\ start <= pos
      /\ pos' \in Nat /\ pos' > pos /\ pos' <= Len(buf)
  <2>1. LineBreak \in {1, 2} /\ pos + LineBreak <= Len(buf)
    BY LineBreaks DEF HInv, ValueEnd, PARTIAL, MALFORMED
  <2> QED
    BY <1>1, <2>1 DEF HInv, HeadTypeOK, CursorsInBuffer
<1>3. /\ HeadTypeOK' /\ OutputsInOrder'
      /\ (Writing' => count < cap) => SlotsInOrder'
      /\ Behind(pos)' /\ (End(line.method) < pos)'
  <2>1. pc' \in Parts /\ pc # "idle"
    BY <1>1 DEF Parts
  <2> QED
    BY <1>1, <1>2, <2>1, Onward DEF HInv, HeadTypeOK
<1>4. SlotsInOrder'
  BY <1>1, <1>3 DEF HInv, SlotsInOrder, Writing
<1>5. CursorsInBuffer' /\ FirstLineFirst'
  BY <1>1, <1>2 DEF HInv, HeadTypeOK, CursorsInBuffer, FirstLineFirst, FirstLineParts, args
<1>6. HeaderInProgress'
  <2>1. Current' = Current /\ (Behind(start) => Behind(start)')
        /\ (Behind(Current.name.off) => Behind(Current.name.off)')
    BY <1>1 DEF Current, Behind, outputs
  <2> QED
    BY <1>1, <1>3, <2>1 DEF HInv, HeaderInProgress, outputs
<1> QED
  BY <1>3, <1>4, <1>5, <1>6 DEF HInv

LEMMA TrimBlankKeeps ==
  ASSUME HInv, TrimBlank
  PROVE  HInv'
<1>1. /\ pc = "trim" /\ pc' = "trim" /\ stop' = stop - 1 /\ start < stop
      /\ UNCHANGED <<args, pos, start, breaks, ret, outputs>>
  BY DEF TrimBlank, TrailingBlank, Goto, args, outputs
<1>2. /\ pos \in Nat /\ start \in Nat /\ stop \in Nat /\ stop < pos /\ pos <= Len(buf)
  BY <1>1 DEF HInv, HeadTypeOK, CursorsInBuffer
<1>3. /\ HeadTypeOK' /\ OutputsInOrder'
      /\ (Writing' => count < cap) => SlotsInOrder'
      /\ Behind(pos)' /\ (End(line.method) < pos)'
  <2>1. pc' \in Parts /\ pc # "idle" /\ stop' \in Nat
    BY <1>1, <1>2 DEF Parts
  <2> QED
    BY <1>1, <1>2, <2>1, Onward DEF HInv, HeadTypeOK
<1>4. SlotsInOrder'
  BY <1>1, <1>3 DEF HInv, SlotsInOrder, Writing
<1>5. CursorsInBuffer' /\ FirstLineFirst'
  BY <1>1, <1>2 DEF HInv, HeadTypeOK, CursorsInBuffer, FirstLineFirst, FirstLineParts, args
<1>6. HeaderInProgress'
  <2>1. Current' = Current /\ (Behind(start) => Behind(start)')
        /\ (Behind(Current.name.off) => Behind(Current.name.off)')
    BY <1>1 DEF Current, Behind, outputs
  <2> QED
    BY <1>1, <1>3, <2>1 DEF HInv, HeaderInProgress, outputs
<1> QED
  BY <1>3, <1>4, <1>5, <1>6 DEF HInv

LEMMA HeaderDoneKeeps ==
  ASSUME HInv, HeaderDone
  PROVE  HInv'
<1>1. /\ pc = "trim" /\ pc' = "line" /\ count' = count + 1
      /\ slots' = [slots EXCEPT ![count + 1].value = Span(start, stop)]
      /\ UNCHANGED <<args, cursors, ret, line>>
  BY DEF HeaderDone, set_value, Goto, args, cursors
<1>2. /\ count \in Nat /\ cap \in Nat /\ count + 1 \in 1 .. cap
      /\ pos \in Nat /\ start \in Nat /\ stop \in Nat /\ start <= stop /\ stop < pos
      /\ pos <= Len(buf) /\ Len(buf) \in Nat
  BY <1>1 DEF HInv, HeadTypeOK, SlotsInOrder, Writing, CursorsInBuffer
<1>3. PICK k \in 1 .. cap : k = count + 1
  BY <1>2
<1>4. PICK piece \in Spans : piece = Span(start, stop)
  BY <1>2, SpanFacts
<1>5. Given(piece) /\ End(piece) = stop /\ piece.off = start /\ piece # Stale
  BY <1>2, <1>4, SpanFacts
<1>6. /\ slots' \in [1 .. cap -> Slots]
      /\ slots'[k].value = piece /\ slots'[k].name = slots[k].name
      /\ \A i \in 1 .. cap : i # k => slots'[i] = slots[i]
  <2>1. slots' = [slots EXCEPT ![k].value = piece]
    BY <1>1, <1>3, <1>4
  <2> QED
    BY <2>1 DEF HInv, HeadTypeOK, Slots
<1>7. /\ slots[k].name # Stale
      /\ count = 0 => Given(slots[k].name)
      /\ IF Given(slots[k].name)
           THEN End(slots[k].name) < start /\ Behind(slots[k].name.off)
           ELSE Behind(start)
  BY <1>1, <1>3 DEF HInv, HeaderInProgress, Current
<1>8. HeadTypeOK'
  BY <1>1, <1>2, <1>6 DEF HInv, HeadTypeOK, Parts, Reading, args, cursors
<1>9. \A i \in 1 .. count : slots'[i] = slots[i] /\ HeaderAt(i)' = HeaderAt(i)
  BY <1>2, <1>3, <1>6 DEF HeaderAt
(* The header in progress begins after all that was published before it. *)
<1>10. Behind(HeaderAt(k)')
  BY <1>5, <1>6, <1>7 DEF HeaderAt
<1>11. OutputsInOrder'
  <2>1. Inside(slots[k].name)' /\ Inside(slots[k].value)'
    <3>1. Inside(slots[k].name)
      BY DEF HInv, OutputsInOrder
    <3> QED
      BY <1>1, <1>2, <1>5, <1>6, <3>1 DEF Inside, args, cursors
  <2>2. /\ Inside(line.method)' /\ Inside(line.path)' /\ Inside(line.msg)'
        /\ \A i \in 1 .. cap : Inside(slots[i].name)' /\ Inside(slots[i].value)'
    <3>1. UNCHANGED <<buf, cap, line>> /\ pos' \in Nat /\ pos' >= pos /\ pos' <= Len(buf)
      BY <1>1, <1>2 DEF args, cursors
    <3>2. pc # "gate"
      BY <1>1
    <3> QED
      BY <1>3, <1>6, <2>1, <3>1, <3>2, SlotWrite
  <2>3. ASSUME NEW i \in 1 .. count
        PROVE  /\ Given(slots'[i].value)
               /\ Given(slots'[i].name) => End(slots'[i].name) < slots'[i].value.off
               /\ End(line'.path) < HeaderAt(i)' /\ End(line'.msg) < HeaderAt(i)'
               /\ i < count + 1 => End(slots'[i].value) < HeaderAt(i + 1)'
    <3>1. CASE i < count
      <4>1. i + 1 \in 1 .. count
        BY <1>2, <3>1
      <4> QED
        BY <1>1, <1>2, <1>9, <3>1, <4>1 DEF HInv, OutputsInOrder
    <3>2. CASE i = count
      BY <1>1, <1>2, <1>3, <1>9, <1>10, <3>2 DEF HInv, OutputsInOrder, Behind
    <3> QED
      BY <1>2, <3>1, <3>2
  <2>4. /\ Given(slots'[k].value)
        /\ Given(slots'[k].name) => End(slots'[k].name) < slots'[k].value.off
        /\ End(line'.path) < HeaderAt(k)' /\ End(line'.msg) < HeaderAt(k)'
    BY <1>1, <1>5, <1>6, <1>7, <1>10 DEF Behind
  <2>5. \A i \in 1 .. count' : i \in 1 .. count \/ i = k
    BY <1>1, <1>2, <1>3
  <2>6. (Given(line.path) => Given(line.method) /\ End(line.method) < line.path.off)'
    BY <1>1 DEF HInv, OutputsInOrder
  <2>7. k = count' /\ cap' = cap
    BY <1>1, <1>3 DEF args
  <2>8. \A i \in 1 .. count' :
          /\ Given(slots'[i].value)
          /\ Given(slots'[i].name) => End(slots'[i].name) < slots'[i].value.off
          /\ End(line'.path) < HeaderAt(i)' /\ End(line'.msg) < HeaderAt(i)'
          /\ i < count' => End(slots'[i].value) < HeaderAt(i + 1)'
    BY <1>1, <2>3, <2>4, <2>5, <2>7
  <2> QED
    BY <2>2, <2>6, <2>7, <2>8 DEF OutputsInOrder
<1>12. SlotsInOrder'
  <2>1. Given(slots'[1].name)
    <3>1. CASE count = 0
      BY <1>3, <1>6, <1>7, <3>1
    <3>2. CASE count # 0
      BY <1>2, <1>9, <3>2 DEF HInv, SlotsInOrder
    <3> QED
      BY <3>1, <3>2
  <2>2. ASSUME NEW i \in 1 .. cap
        PROVE  /\ i <= count + 1 => Stale \notin {slots'[i].name, slots'[i].value}
               /\ i > count + 1 => slots'[i].value = Stale
               /\ i > count + 2 => slots'[i].name = Stale
    <3>1. CASE i = k
      BY <1>2, <1>3, <1>5, <1>6, <1>7, <3>1
    <3>2. CASE i # k
      BY <1>2, <1>3, <1>6, <3>2 DEF HInv, SlotsInOrder
    <3> QED
      BY <3>1, <3>2
  <2> QED
    BY <1>1, <1>2, <2>1, <2>2 DEF SlotsInOrder, Writing, args
<1>13. CursorsInBuffer' /\ FirstLineFirst'
  BY <1>1, <1>2 DEF HInv, CursorsInBuffer, FirstLineFirst, FirstLineParts, args, cursors
<1>14. HeaderInProgress'
  <2>1. Behind(pos) /\ End(line.method) < pos
    BY <1>1 DEF HInv, HeaderInProgress
  <2>2. slots'[count'].value = piece
    BY <1>1, <1>3, <1>6
  <2>3. Behind(pos)'
    BY <1>1, <1>2, <1>5, <2>1, <2>2 DEF Behind, cursors
  <2> QED
    BY <1>1, <2>1, <2>3 DEF HeaderInProgress, cursors
<1> QED
  BY <1>8, <1>11, <1>12, <1>13, <1>14 DEF HInv

LEMMA BlockEndKeeps ==
  ASSUME HInv, BlockEnd
  PROVE  HInv'
<1>1. /\ pc = "line" /\ pc' = "idle" /\ pos' = pos + LineBreak /\ ret' = c_int(pos')
      /\ UNCHANGED <<args, start, stop, breaks, outputs>>
  BY DEF BlockEnd, Return, args, outputs
<1>2. pos' \in Nat /\ pos' >= pos /\ pos' <= Len(buf) /\ pos \in Nat /\ Len(buf) \in Nat
  <2>1. LineBreak \in {1, 2} /\ pos + LineBreak <= Len(buf)
    BY LineBreaks DEF HInv, BlockEnd, PARTIAL, MALFORMED
  <2> QED
    BY <1>1, <2>1 DEF HInv, HeadTypeOK
<1>3. ret' \in Int
  BY <1>1, <1>2, CIntAssumption DEF c_int
<1>4. HeadTypeOK'
  BY <1>1, <1>2, <1>3 DEF HInv, HeadTypeOK, Parts, args, outputs
<1>5. OutputsInOrder'
  <2>1. ASSUME NEW piece \in Pieces, Inside(piece)
        PROVE  Inside(piece)'
    BY <1>1, <1>2, <2>1, PieceBounds DEF Inside, args
  <2> QED
    BY <1>1, <2>1, Published DEF HInv, HeadTypeOK, OutputsInOrder, HeaderAt, End, Given,
                                 args, outputs
<1>6. SlotsInOrder'
  BY <1>1 DEF HInv, SlotsInOrder, Writing, Given, args, outputs
<1>7. CursorsInBuffer' /\ FirstLineFirst' /\ HeaderInProgress'
  BY <1>1 DEF CursorsInBuffer, FirstLineFirst, FirstLineParts, HeaderInProgress
<1> QED
  BY <1>4, <1>5, <1>6, <1>7 DEF HInv

LEMMA CoreStepKeeps ==
  ASSUME HInv, CoreStep
  PROVE  HInv'
<1>1. CASE Starved \/ TooManyHeaders \/ NameBad \/ ValueBad
  BY <1>1, FailKeeps DEF Starved, TooManyHeaders, NameBad, ValueBad, PARTIAL, MALFORMED
<1>2. CASE BadLineBreak
  <2>1. LineBreak \in Int
    BY <1>2, LineBreaks DEF HInv, BadLineBreak, PARTIAL, MALFORMED
  <2> QED
    BY <1>2, <2>1, FailKeeps DEF BadLineBreak
<1>3. CASE NameByte \/ ValueByte
  BY <1>3, AdvanceKeeps DEF NameByte, ValueByte, Loops, Sees
<1> QED
  BY <1>1, <1>2, <1>3, GateByteKeeps, GateBreakKeeps, VersionKeeps, BlockEndKeeps,
     ContinuationKeeps, NewHeaderKeeps, NameEndKeeps, BeforeValueKeeps, SkipWordsKeeps,
     ValueEndKeeps, TrimBlankKeeps, HeaderDoneKeeps DEF CoreStep

-----------------------------------------------------------------------------
(***************************************************************************)
(* The caller.                                                             *)
(***************************************************************************)
LEMMA InitHolds ==
  ASSUME Init
  PROVE  HInv
<1> USE DEF Init
<1>1. HeadTypeOK
  BY NoLineFacts DEF HeadTypeOK, Parts, PARTIAL
<1>2. OutputsInOrder
  BY NoLineFacts, NoPiece DEF OutputsInOrder, Inside
<1>3. SlotsInOrder
  BY DEF SlotsInOrder, Writing
<1>4. CursorsInBuffer /\ FirstLineFirst /\ HeaderInProgress
  BY DEF CursorsInBuffer, FirstLineFirst, FirstLineParts, HeaderInProgress
<1> QED
  BY <1>1, <1>2, <1>3, <1>4 DEF HInv

LEMMA FreshArray ==
  ASSUME NEW capacity \in Nat, Zeroed(capacity)
  PROVE  /\ slots' \in [1 .. cap' -> Slots] /\ cap' = capacity /\ count' = 0
         /\ line' = NoLine
         /\ \A i \in 1 .. cap' : slots'[i].name = Stale /\ slots'[i].value = Stale
  BY DEF Zeroed, Slots

LEMMA EnterKeeps ==
  ASSUME HInv, NEW entry \in Kinds, NEW data \in Seq(Byte), NEW last_len \in Nat,
         NEW capacity \in Nat, Enter(entry, data, last_len, capacity)
  PROVE  HInv'
<1>1. data \in Seq(Byte) /\ last_len \in Nat /\ capacity \in Nat /\ Len(data) \in Nat
  OBVIOUS
<1>2. /\ slots' \in [1 .. cap' -> Slots] /\ cap' = capacity /\ count' = 0
      /\ line' = NoLine
      /\ \A i \in 1 .. cap' : slots'[i].name = Stale /\ slots'[i].value = Stale
  BY <1>1, FreshArray DEF Enter
<1>3. /\ pos' \in Nat /\ (pc' # "gate" => pos' = 0)
      /\ pc' \in {"gate", FirstPart(kind')} /\ kind' = entry /\ buf' = data
      /\ start' = 0 /\ stop' = 0 /\ breaks' = 0 /\ ret' = ret
  BY <1>1 DEF Enter, GateFrom
<1>4. HeadTypeOK'
  <2>1. pc' \in Parts
    BY <1>3 DEF Parts, Reading, FirstPart, Kinds
  <2> QED
    BY <1>1, <1>2, <1>3, <2>1, NoLineFacts DEF HInv, HeadTypeOK
<1>5. SlotsInOrder'
  <2>1. ~Writing'
    BY <1>3 DEF Writing, FirstPart, Kinds
  <2> QED
    BY <1>2, <2>1 DEF SlotsInOrder
<1> QED
  BY <1>1, <1>2, <1>3, <1>4, <1>5, ParseBegins

LEMMA NullArrayKeeps ==
  ASSUME HInv, NEW capacity \in Caps, NullArray(capacity)
  PROVE  HInv'
<1>1. /\ slots' \in [1 .. cap' -> Slots] /\ cap' = capacity /\ count' = 0
      /\ line' = NoLine /\ capacity \in Nat
      /\ \A i \in 1 .. cap' : slots'[i].name = Stale /\ slots'[i].value = Stale
  BY CallAssumption, FreshArray DEF NullArray
<1>2. pc' = "idle" /\ ret' = MALFORMED /\ UNCHANGED <<kind, buf, cursors>>
  BY DEF NullArray
<1>3. HeadTypeOK'
  BY <1>1, <1>2, NoLineFacts DEF HInv, HeadTypeOK, Parts, cursors, MALFORMED
<1>4. OutputsInOrder'
  BY <1>1, NoLineFacts, NoPiece DEF OutputsInOrder, Inside
<1>5. SlotsInOrder'
  BY <1>1, <1>2 DEF SlotsInOrder, Writing
<1>6. CursorsInBuffer' /\ FirstLineFirst' /\ HeaderInProgress'
  BY <1>2 DEF CursorsInBuffer, FirstLineFirst, FirstLineParts, HeaderInProgress
<1> QED
  BY <1>3, <1>4, <1>5, <1>6 DEF HInv

LEMMA NullPointerKeeps ==
  ASSUME HInv, NullPointer
  PROVE  HInv'
<1>1. Fail(MALFORMED)
  BY DEF NullPointer, Fail, Return
<1> QED
  BY <1>1, FailKeeps DEF MALFORMED

LEMMA StutterKeeps ==
  ASSUME HInv, UNCHANGED vars
  PROVE  HInv'
<1> USE DEF vars, args, cursors, outputs
<1>1. HeadTypeOK'
  BY DEF HInv, HeadTypeOK
<1>2. OutputsInOrder'
  BY DEF HInv, OutputsInOrder, Inside, HeaderAt, Given, End
<1>3. SlotsInOrder'
  BY DEF HInv, SlotsInOrder, Writing, Given
<1>4. CursorsInBuffer' /\ FirstLineFirst'
  BY DEF HInv, CursorsInBuffer, FirstLineFirst, Given, End
<1>5. HeaderInProgress'
  BY DEF HInv, HeaderInProgress, Behind, Current, Given, End
<1> QED
  BY <1>1, <1>2, <1>3, <1>4, <1>5 DEF HInv

LEMMA NextKeeps ==
  ASSUME HInv, [Next]_vars
  PROVE  HInv'
<1>1. CASE Step
  BY <1>1, CoreStepKeeps, RequestStepKeeps, StatusStepKeeps DEF Step
<1>2. CASE \E entry \in Kinds, data \in Heads, last_len \in Hints, capacity \in Caps :
             Enter(entry, data, last_len, capacity)
  BY <1>2, CallAssumption, EnterKeeps
<1> QED
  BY <1>1, <1>2, NullArrayKeeps, NullPointerKeeps, StutterKeeps DEF Next

(***************************************************************************)
(* HInv holds in every state of the head parsers.                          *)
(***************************************************************************)
THEOREM HeadInvariant == Spec => []HInv
<1>1. Init => HInv
  BY InitHolds
<1>2. HInv /\ [Next]_vars => HInv'
  BY NextKeeps
<1> QED
  BY <1>1, <1>2, PTL DEF Spec

(***************************************************************************)
(* The variables have their types: read offsets do not become negative, a  *)
(* status code stays below 1000, and no more headers are counted than the  *)
(* caller's array holds.                                                   *)
(***************************************************************************)
THEOREM HeadTypeCorrect == Spec => []HeadTypeOK
<1>1. HInv => HeadTypeOK
  BY DEF HInv
<1> QED
  BY <1>1, HeadInvariant, PTL

(***************************************************************************)
(* "Every offset lies inside the input buffer by construction in the core" *)
(* (ffi.rs, RawSink): whatever a call hands out, also of an unfinished     *)
(* parse, lies within the bytes read, in the order of the message.         *)
(***************************************************************************)
THEOREM PiecesInOrder == Spec => []OutputsInOrder
<1>1. HInv => OutputsInOrder
  BY DEF HInv
<1> QED
  BY <1>1, HeadInvariant, PTL

(***************************************************************************)
(* "i < cap is enforced by the core ... before any write" (ffi.rs, the     *)
(* sink): the slots are written one after the other, within the array, and *)
(* each that is counted was written by this call.                          *)
(***************************************************************************)
THEOREM SlotsWithinArray == Spec => []SlotsInOrder
<1>1. HInv => SlotsInOrder
  BY DEF HInv
<1> QED
  BY <1>1, HeadInvariant, PTL
=============================================================================
