------------------------ MODULE ChunkedDecoderProofs ------------------------
(***************************************************************************)
(* The invariants of ChunkedDecoder, for every limit on the digits, every  *)
(* bound and every set of buffers.                                         *)
(***************************************************************************)
EXTENDS ChunkedDecoder, TLAPS

(* Every part is needed to carry the others over a step. *)
IInv ==
  /\ TypeOK
  /\ UnreadIntact
  /\ NeverCorrupt
  /\ CarriedStateConsistent
  /\ DrainedBeforePartial
  /\ OverheadWithinRead
  /\ LeftoverIntact

-----------------------------------------------------------------------------
(***************************************************************************)
(* Facts about the operators of the model.                                 *)
(***************************************************************************)

(* Reduction modulo m keeps a number that fits, and makes any number fit. *)
LEMMA Modulo ==
  ASSUME NEW m \in Nat \ {0}, NEW x \in Nat
  PROVE  /\ x % m \in 0 .. m - 1
         /\ x < m => x % m = x
  BY Z3

(* A size of any permitted number of digits is a usize. *)
LEMMA PowersFit ==
  /\ Usize \in Nat \ {0}
  /\ Pow16[0] = 1
  /\ \A h \in 0 .. HexMax : Pow16[h] \in Nat /\ Pow16[h] <= Usize
  BY SizeAssumption DEF Usize

(* The value of a digit has four bits. *)
LEMMA HexDigitValue ==
  ASSUME NEW b \in HexDigits
  PROVE  hex_val(b) \in 0 .. 15
  BY DEF HexDigits, hex_val

(***************************************************************************)
(* One more digit, below the gate: the size takes the digit without        *)
(* wrapping and stays below the next power.                                *)
(***************************************************************************)
LEMMA NextDigit ==
  ASSUME NEW owed \in Nat, NEW digits \in 0 .. HexMax, digits # HexMax,
         owed < Pow16[digits], NEW v \in 0 .. 15
  PROVE  /\ owed * 16 + v < Pow16[digits + 1]
         /\ owed * 16 + v < Usize
         /\ (owed * 16 + v) % Usize = owed * 16 + v
  <1>1. /\ HexMax \in Nat
        /\ digits \in 0 .. HexMax - 1
    BY SizeAssumption
  <1>2. /\ Pow16[digits] \in Nat
        /\ Pow16[digits + 1] = 16 * Pow16[digits]
        /\ Pow16[digits + 1] <= Usize
    BY <1>1, SizeAssumption, PowersFit
  <1>3. owed * 16 + v < Pow16[digits + 1]
    BY <1>2
  <1>4. Usize \in Nat \ {0} /\ owed * 16 + v \in Nat
    BY PowersFit
  <1>5. owed * 16 + v < Usize
    BY <1>2, <1>3, <1>4
  <1>. QED
    BY <1>3, <1>4, <1>5, Modulo

(***************************************************************************)
(* Moving n bytes down in the buffer changes the bytes they are moved to   *)
(* and no others.                                                          *)
(***************************************************************************)
LEMMA CopyWithin ==
  ASSUME NEW b \in Seq(Byte), NEW from \in Nat, NEW n \in Nat, NEW to \in Nat,
         to <= from, from + n <= Len(b)
  PROVE  /\ copy_within(b, from, n, to) \in Seq(Byte)
         /\ Len(copy_within(b, from, n, to)) = Len(b)
         /\ \A i \in 1 .. Len(b) : i <= to \/ to + n < i =>
              copy_within(b, from, n, to)[i] = b[i]
         /\ \A i \in 1 .. n : copy_within(b, from, n, to)[to + i] = b[from + i]
  <1>. DEFINE moved == copy_within(b, from, n, to)
  <1>1. Len(b) \in Nat /\ \A i \in 1 .. Len(b) : b[i] \in Byte
    OBVIOUS
  <1>2. moved = [i \in 1 .. Len(b) |->
                   IF to < i /\ i <= to + n THEN b[i - to + from] ELSE b[i]]
    BY DEF copy_within
  <1>3. \A i \in 1 .. Len(b) : moved[i] \in Byte
    BY <1>1, <1>2
  <1>4. moved \in [1 .. Len(b) -> Byte]
    BY <1>2, <1>3
  <1>5. moved \in Seq(Byte) /\ Len(moved) = Len(b)
    BY <1>1, <1>4
  <1>6. \A i \in 1 .. n : /\ to + i \in 1 .. Len(b)
                          /\ moved[to + i] = b[to + i - to + from]
                          /\ to + i - to + from = from + i
    BY <1>1, <1>2
  <1>. QED
    BY <1>1, <1>2, <1>5, <1>6

-----------------------------------------------------------------------------
(***************************************************************************)
(* The invariant holds at first, and is kept by every action.              *)
(***************************************************************************)
LEMMA InitIInv == Init => IInv
  <1>. SUFFICES ASSUME Init PROVE IInv
    OBVIOUS
  <1>1. PICK trailer \in BOOLEAN : InitWith(Fresh(trailer))
    BY DEF Init
  <1>2. /\ dec = Fresh(trailer)
        /\ pc = "idle" /\ buf = << >> /\ input = << >>
        /\ src = 0 /\ dst = 0 /\ st = 0 /\ left = 0 /\ hex = 0
        /\ err = "none" /\ ret = 0 /\ bufsz = 0
    BY <1>1 DEF InitWith, Fresh, ST_SIZE
  <1>3. dec \in Decoders
    BY <1>2, PowersFit, SizeAssumption, CounterAssumption
    DEF Fresh, Decoders, ST_SIZE
  <1>4. TypeOK
    BY <1>2, <1>3, PowersFit, SizeAssumption DEF TypeOK, MALFORMED, PARTIAL
  <1>5. UnreadIntact /\ LeftoverIntact /\ DrainedBeforePartial
    BY <1>2 DEF UnreadIntact, CursorsOrdered, LeftoverIntact,
                DrainedBeforePartial, PARTIAL
  <1>6. NeverCorrupt
    BY <1>2 DEF NeverCorrupt, States, Fresh, ST_SIZE, ST_TRAIL_MID
  <1>7. CarriedStateConsistent
    BY <1>2, PowersFit
    DEF CarriedStateConsistent, SizeMatchesState, Fresh, Trailer, ST_SIZE,
        ST_DATA, ST_DATA_CR, ST_DATA_LF, ST_TRAIL_HEAD, ST_TRAIL_MID
  <1>8. OverheadWithinRead
    BY <1>2 DEF OverheadWithinRead, Fresh
  <1>. QED
    BY <1>4, <1>5, <1>6, <1>7, <1>8 DEF IInv

(* Reading a decoder's fields, and counting bytes read in it. *)
LEMMA DecoderFields ==
  ASSUME NEW d \in Decoders
  PROVE  /\ d.state \in -128 .. 127 /\ d.bytes_left \in 0 .. Usize - 1
         /\ d.hex_count \in 0 .. HexMax /\ d.consume_trailer \in BOOLEAN
         /\ d.total_read \in 0 .. MaxRead /\ d.total_overhead \in 0 .. U64 - 1
         /\ d.total_read \in Nat /\ d.total_overhead \in Nat
  BY CounterAssumption DEF Decoders

LEMMA DecoderCounts ==
  ASSUME NEW d \in Decoders, NEW n \in 0 .. MaxRead
  PROVE  LET e == [d EXCEPT !.total_read = n] IN
         /\ e \in Decoders
         /\ e.total_read = n
         /\ e.state = d.state /\ e.bytes_left = d.bytes_left
         /\ e.hex_count = d.hex_count /\ e.total_overhead = d.total_overhead
         /\ e.consume_trailer = d.consume_trailer
  BY DEF Decoders

LEMMA EnterStep ==
  ASSUME IInv, NEW data \in Seq(Byte), Enter(data)
  PROVE  IInv'
  <1>1. Len(data) \in Nat
    OBVIOUS
  <1>2. dec.total_read + Len(data) <= MaxRead
    BY DEF Enter
  <1>3. dec \in Decoders /\ dec.total_read \in Nat
    BY DecoderFields DEF IInv, TypeOK
  <1>4. Counted(data) = dec.total_read + Len(data)
    <2>1. dec.total_read + Len(data) \in Nat
      BY <1>1, <1>3
    <2>2. U64 \in Nat \ {0} /\ dec.total_read + Len(data) < U64
      BY <1>2, <2>1, CounterAssumption
    <2>. QED
      BY <2>1, <2>2, Modulo DEF Counted
  <1>5. Counted(data) \in 0 .. MaxRead
    BY <1>1, <1>2, <1>3, <1>4, CounterAssumption
  <1>6. /\ dec' \in Decoders
        /\ dec'.total_read = dec.total_read + Len(data)
        /\ dec'.state = dec.state /\ dec'.bytes_left = dec.bytes_left
        /\ dec'.hex_count = dec.hex_count
        /\ dec'.total_overhead = dec.total_overhead
        /\ dec'.consume_trailer = dec.consume_trailer
    BY <1>3, <1>4, <1>5, DecoderCounts DEF Enter
  <1>7. /\ pc = "idle" /\ pc' = "loop" /\ buf' = data /\ input' = data
        /\ src' = 0 /\ dst' = 0 /\ bufsz' = Len(data) /\ ret' = ret
        /\ err' = "none"
        /\ st' = dec.state /\ left' = dec.bytes_left /\ hex' = dec.hex_count
    BY DEF Enter
  <1>8. TypeOK'
    BY <1>1, <1>3, <1>6, <1>7, DecoderFields DEF IInv, TypeOK
  <1>9. UnreadIntact' /\ LeftoverIntact' /\ DrainedBeforePartial'
    BY <1>1, <1>7 DEF UnreadIntact, CursorsOrdered, LeftoverIntact,
                      DrainedBeforePartial
  <1>10. NeverCorrupt' /\ CarriedStateConsistent'
    BY <1>6, <1>7
    DEF IInv, NeverCorrupt, CarriedStateConsistent, SizeMatchesState
  <1>11. OverheadWithinRead'
    BY <1>1, <1>3, <1>6, <1>7, DecoderFields DEF IInv, OverheadWithinRead
  <1>. QED
    BY <1>8, <1>9, <1>10, <1>11 DEF IInv

(* What is past a later offset is past an earlier one. *)
LEMMA Later ==
  ASSUME NEW a \in Nat, NEW b \in Nat, NEW n \in Nat, a <= b
  PROVE  b + 1 .. n \subseteq a + 1 .. n
  OBVIOUS

(* The actions of the loop that leave the caller's memory alone. *)
LEMMA FrameStep ==
  ASSUME IInv, pc = "loop", Frame, pc' \in {"loop", "exit"},
         src' \in Nat, src <= src', src' <= Len(buf), dst' = dst,
         st' \in States, left' \in 0 .. Usize - 1, hex' \in 0 .. HexMax,
         err' \in {"none", "complete", "partial", "malformed"},
         pc' = "loop" => err' = "none", pc' = "exit" => err' # "none",
         err' = "partial" => src' = Len(buf),
         SizeMatchesState(st, left, hex)'
  PROVE  IInv'
  <1>. USE DEF IInv, Frame
  <1>1. TypeOK'
    BY DEF TypeOK, States, ST_SIZE, ST_TRAIL_MID
  <1>2. /\ pc' # "idle"
        /\ src \in Nat /\ src' \in Nat /\ dst \in Nat /\ Len(buf) \in Nat
    BY DEF TypeOK
  <1>5. CursorsOrdered'
    BY <1>2 DEF UnreadIntact, CursorsOrdered
  <1>6. \A i \in src' + 1 .. Len(buf) : buf[i] = input[i]
    BY <1>2, Later DEF UnreadIntact
  <1>7. UnreadIntact'
    BY <1>5, <1>6 DEF UnreadIntact
  <1>8. LeftoverIntact' /\ DrainedBeforePartial'
    BY <1>2 DEF LeftoverIntact, DrainedBeforePartial
  <1>3. NeverCorrupt' /\ CarriedStateConsistent'
    BY DEF NeverCorrupt, CarriedStateConsistent, SizeMatchesState
  <1>4. OverheadWithinRead'
    BY DEF OverheadWithinRead
  <1>. QED
    BY <1>1, <1>3, <1>4, <1>7, <1>8

(* What the invariant says of a call in the loop. *)
LEMMA InLoop ==
  ASSUME IInv, pc = "loop"
  PROVE  /\ buf \in Seq(Byte) /\ Len(buf) \in Nat
         /\ src \in Nat /\ dst \in Nat /\ dst <= src /\ src <= Len(buf)
         /\ st \in States /\ left \in 0 .. Usize - 1 /\ hex \in 0 .. HexMax
         /\ err = "none"
         /\ SizeMatchesState(st, left, hex)
         /\ dec.consume_trailer \in BOOLEAN
  BY DecoderFields
  DEF IInv, TypeOK, UnreadIntact, CursorsOrdered, NeverCorrupt,
      CarriedStateConsistent

LEMMA ByteThere ==
  ASSUME IInv, NEW s, At(s)
  PROVE  /\ src + 1 \in 1 .. Len(buf) /\ src + 1 \in Nat
         /\ Current \in Byte
  BY InLoop DEF At, Current

LEMMA OutOfBytesStep == ASSUME IInv, OutOfBytes PROVE IInv'
  BY InLoop, FrameStep
  DEF OutOfBytes, Exhausted, Break, Frame, SizeMatchesState

LEMMA SizeDigitStep ==
  ASSUME IInv, SizeDigit
  PROVE  DigitKeepsSize /\ IInv'
  <1>1. /\ pc = "loop" /\ st = ST_SIZE /\ src < Len(buf)
        /\ Current \in HexDigits /\ hex # HexMax
        /\ left' = (left * 16 + hex_val(Current)) % Usize
        /\ hex' = hex + 1 /\ src' = src + 1 /\ st' = ST_SIZE
        /\ pc' = pc /\ dst' = dst /\ err' = err /\ Frame
    BY DEF SizeDigit, At, DigitFits, SkipTo
  <1>2. /\ hex \in 0 .. HexMax /\ left \in Nat /\ left < Pow16[hex]
    BY <1>1, InLoop DEF SizeMatchesState
  <1>3. /\ left' = left * 16 + hex_val(Current)
        /\ left' < Pow16[hex + 1] /\ left' < Usize /\ left' \in Nat
    <2>1. hex_val(Current) \in 0 .. 15
      BY <1>1, HexDigitValue
    <2>2. /\ left * 16 + hex_val(Current) < Pow16[hex + 1]
          /\ left * 16 + hex_val(Current) < Usize
          /\ (left * 16 + hex_val(Current)) % Usize
               = left * 16 + hex_val(Current)
      BY <1>1, <1>2, <2>1, NextDigit
    <2>3. left * 16 + hex_val(Current) \in Nat
      BY <1>2, <2>1
    <2>. QED
      BY <1>1, <2>2, <2>3
  <1>4. hex + 1 \in 0 .. HexMax
    BY <1>1, <1>2, SizeAssumption
  <1>5. left' \in 0 .. Usize - 1
    BY <1>3, PowersFit
  <1>6. SizeMatchesState(st, left, hex)'
    BY <1>1, <1>3
    DEF SizeMatchesState, Trailer, ST_SIZE, ST_DATA, ST_DATA_CR, ST_DATA_LF,
        ST_TRAIL_HEAD, ST_TRAIL_MID
  <1>7. src' \in Nat /\ src <= src' /\ src' <= Len(buf)
    BY <1>1, InLoop
  <1>8. st' \in States /\ err' = "none" /\ pc' = "loop"
    BY <1>1, InLoop
  <1>9. IInv'
    BY <1>1, <1>4, <1>5, <1>6, <1>7, <1>8, FrameStep
  <1>. QED
    BY <1>3, <1>9 DEF DigitKeepsSize

LEMMA SizeEndStep == ASSUME IInv, SizeEnd PROVE IInv'
  BY InLoop, FrameStep, SizeAssumption
  DEF SizeEnd, At, Frame, SizeMatchesState, States, Trailer, ST_SIZE, ST_EXT,
      ST_DATA, ST_DATA_CR, ST_DATA_LF, ST_TRAIL_HEAD, ST_TRAIL_MID

LEMMA SizeRejectStep == ASSUME IInv, SizeReject PROVE IInv'
  BY InLoop, FrameStep
  DEF SizeReject, At, Break, Frame, SizeMatchesState

LEMMA ExtByteStep == ASSUME IInv, ExtByte PROVE IInv'
  BY InLoop, FrameStep
  DEF ExtByte, At, SkipTo, Frame, SizeMatchesState, States, Trailer, ST_SIZE,
      ST_EXT, ST_EXPECT_LF, ST_DATA, ST_DATA_CR, ST_DATA_LF, ST_TRAIL_HEAD,
      ST_TRAIL_MID

LEMMA HeaderLFStep == ASSUME IInv, HeaderLF PROVE IInv'
  BY InLoop, FrameStep
  DEF HeaderLF, At, Break, Frame, SizeMatchesState, States, Trailer, ST_SIZE,
      ST_EXPECT_LF, ST_DATA, ST_DATA_CR, ST_DATA_LF, ST_TRAIL_HEAD,
      ST_TRAIL_MID

LEMMA DataEndStep == ASSUME IInv, DataEnd PROVE IInv'
  BY SMTT(60), InLoop, FrameStep, PowersFit
  DEF DataEnd, At, SkipTo, Frame, SizeMatchesState, States, Trailer, ST_SIZE,
      ST_DATA, ST_DATA_CR, ST_DATA_LF, ST_TRAIL_HEAD, ST_TRAIL_MID

LEMMA TrailLineStep == ASSUME IInv, TrailLine PROVE IInv'
  BY InLoop, FrameStep
  DEF TrailLine, At, SkipTo, Frame, SizeMatchesState, States, Trailer, ST_SIZE,
      ST_DATA, ST_DATA_CR, ST_DATA_LF, ST_TRAIL_HEAD, ST_TRAIL_MID

LEMMA TrailEndStep == ASSUME IInv, TrailEnd PROVE IInv'
  BY InLoop, FrameStep
  DEF TrailEnd, At, Break, Frame, SizeMatchesState

LEMMA BadLineBreakStep == ASSUME IInv, BadLineBreak PROVE IInv'
  BY InLoop, FrameStep
  DEF BadLineBreak, At, Break, Frame, SizeMatchesState

(***************************************************************************)
(* Chunk data moved down: the write stays behind the read offset, so what  *)
(* is still to be read is as the caller passed it.                         *)
(***************************************************************************)
LEMMA TakeDataStep ==
  ASSUME IInv, pc = "loop", st = ST_DATA,
         NEW n \in Nat, n <= left, n <= Len(buf) - src, TakeData(n),
         pc' \in {"loop", "exit"},
         err' \in {"none", "partial"},
         pc' = "loop" => err' = "none", pc' = "exit" => err' # "none",
         err' = "partial" => n = Len(buf) - src,
         st' \in States, SizeMatchesState(st, left, hex)'
  PROVE  IInv'
  <1>1. /\ buf \in Seq(Byte) /\ Len(buf) \in Nat
        /\ src \in Nat /\ dst \in Nat /\ dst <= src /\ src <= Len(buf)
        /\ left \in Nat /\ left \in 0 .. Usize - 1
    BY InLoop
  <1>2. /\ buf' = copy_within(buf, src, n, dst)
        /\ src' = src + n /\ dst' = dst + n /\ left' = left - n
        /\ dec' = dec /\ input' = input /\ ret' = ret /\ bufsz' = bufsz
        /\ hex' = hex
    BY DEF TakeData
  <1>3. src + n <= Len(buf)
    BY <1>1
  <1>4. /\ buf' \in Seq(Byte) /\ Len(buf') = Len(buf)
        /\ \A i \in 1 .. Len(buf) : dst + n < i => buf'[i] = buf[i]
    BY <1>1, <1>2, <1>3, CopyWithin
  <1>5. left' \in 0 .. Usize - 1
    BY <1>1, <1>2, PowersFit
  <1>6. /\ src' \in Nat /\ dst' \in Nat /\ dst' <= src' /\ src' <= Len(buf')
        /\ src <= src'
    BY <1>1, <1>2, <1>3, <1>4
  <1>7. TypeOK'
    BY <1>2, <1>4, <1>5, <1>6
    DEF IInv, TypeOK, States, ST_SIZE, ST_TRAIL_MID
  <1>8. \A i \in src' + 1 .. Len(buf') : buf'[i] = input'[i]
    <2>1. \A i \in src + 1 .. Len(buf) : buf[i] = input[i]
      BY DEF IInv, UnreadIntact
    <2>2. \A i \in src' + 1 .. Len(buf') :
            /\ i \in src + 1 .. Len(buf) /\ i \in 1 .. Len(buf) /\ dst + n < i
      BY <1>1, <1>2, <1>4, <1>6
    <2>. QED
      BY <1>2, <1>4, <2>1, <2>2
  <1>9. Len(buf') = Len(input')
    BY <1>2, <1>4 DEF IInv, UnreadIntact, CursorsOrdered
  <1>10. UnreadIntact'
    BY <1>6, <1>8, <1>9 DEF UnreadIntact, CursorsOrdered
  <1>11. err' = "partial" => src' = Len(buf')
    BY <1>1, <1>2, <1>4
  <1>12. LeftoverIntact' /\ DrainedBeforePartial'
    BY <1>11 DEF LeftoverIntact, DrainedBeforePartial
  <1>13. NeverCorrupt' /\ CarriedStateConsistent'
    BY <1>2
    DEF IInv, NeverCorrupt, CarriedStateConsistent, SizeMatchesState
  <1>14. OverheadWithinRead'
    BY <1>2, <1>4 DEF IInv, OverheadWithinRead
  <1>. QED
    BY <1>7, <1>10, <1>12, <1>13, <1>14 DEF IInv

LEMMA DataShortStep ==
  ASSUME IInv, DataShort
  PROVE  IInv'
  <1>1. /\ pc = "loop" /\ st = ST_DATA /\ st' = st /\ hex' = hex
        /\ err' = "partial" /\ pc' = "exit"
        /\ TakeData(Len(buf) - src) /\ left' = left - (Len(buf) - src)
        /\ dec' = dec
    BY DEF DataShort, Break, TakeData
  <1>2. /\ Len(buf) - src \in Nat /\ Len(buf) - src < left /\ left \in Nat
        /\ st \in States /\ SizeMatchesState(st, left, hex)
    BY <1>1, InLoop DEF DataShort, ChunkFits
  <1>3. SizeMatchesState(st, left, hex)'
    BY <1>1, <1>2
    DEF SizeMatchesState, Trailer, ST_SIZE, ST_DATA, ST_DATA_CR, ST_DATA_LF,
        ST_TRAIL_HEAD, ST_TRAIL_MID
  <1>. QED
    BY <1>1, <1>2, <1>3, TakeDataStep

LEMMA DataFullStep ==
  ASSUME IInv, DataFull
  PROVE  IInv'
  <1>1. /\ pc = "loop" /\ st = ST_DATA /\ st' = ST_DATA_CR /\ hex' = hex
        /\ err' = err /\ pc' = pc
        /\ TakeData(left) /\ left' = left - left
        /\ dec' = dec
    BY DEF DataFull, TakeData
  <1>2. /\ left \in Nat /\ left <= Len(buf) - src /\ err = "none"
        /\ SizeMatchesState(st, left, hex)
    BY <1>1, InLoop DEF DataFull, ChunkFits
  <1>3. SizeMatchesState(st, left, hex)'
    BY <1>1, <1>2
    DEF SizeMatchesState, Trailer, ST_SIZE, ST_DATA, ST_DATA_CR, ST_DATA_LF,
        ST_TRAIL_HEAD, ST_TRAIL_MID
  <1>4. st' \in States
    BY <1>1 DEF States, ST_SIZE, ST_DATA_CR, ST_TRAIL_MID
  <1>. QED
    BY <1>1, <1>2, <1>3, <1>4, TakeDataStep

(* The unread tail moved down to the write offset: it is the same bytes. *)
LEMMA Compaction ==
  ASSUME buf \in Seq(Byte), src \in Nat, dst \in Nat, dst <= src,
         src <= Len(buf)
  PROVE  /\ Compacted \in Seq(Byte) /\ Len(Compacted) = Len(buf)
         /\ \A i \in 1 .. Len(buf) - src : Compacted[dst + i] = buf[src + i]
  <1>1. ASSUME NEW n \in Nat, n = Len(buf) - src
        PROVE  /\ copy_within(buf, src, n, dst) \in Seq(Byte)
               /\ Len(copy_within(buf, src, n, dst)) = Len(buf)
               /\ \A i \in 1 .. n :
                    copy_within(buf, src, n, dst)[dst + i] = buf[src + i]
    <2>1. src + n <= Len(buf)
      BY <1>1
    <2>. QED
      BY ZenonT(60), <2>1, CopyWithin
  <1>2. Len(buf) - src \in Nat
    OBVIOUS
  <1>. QED
    BY <1>1, <1>2 DEF Compacted

(* What the epilogue publishes: the locals, and the framing counted. *)
LEMMA Published ==
  ASSUME dec \in Decoders, Epilogue
  PROVE  /\ dec'.state = st /\ dec'.bytes_left = left /\ dec'.hex_count = hex
         /\ dec'.total_read = dec.total_read
         /\ dec'.consume_trailer = dec.consume_trailer
         /\ dec'.total_overhead =
              IF err = "partial" THEN (dec.total_overhead + Framing) % U64
              ELSE dec.total_overhead
  <1>. DEFINE counted == IF err = "partial"
                         THEN (dec.total_overhead + Framing) % U64
                         ELSE dec.total_overhead
  <1>1. dec' = [dec EXCEPT !.state = st, !.bytes_left = left,
                  !.hex_count = hex, !.total_overhead = counted]
    BY DEF Epilogue
  <1>. HIDE DEF counted
  <1>2. /\ dec'.state = st /\ dec'.bytes_left = left /\ dec'.hex_count = hex
        /\ dec'.total_read = dec.total_read
        /\ dec'.consume_trailer = dec.consume_trailer
        /\ dec'.total_overhead = counted
    BY <1>1 DEF Decoders
  <1>. QED
    BY <1>2 DEF counted

LEMMA EpilogueStep ==
  ASSUME IInv, Epilogue
  PROVE  IInv'
  <1>. DEFINE overhead == (dec.total_overhead + Framing) % U64
              counted  == IF err = "partial" THEN overhead
                          ELSE dec.total_overhead
  <1>1. /\ pc = "exit" /\ pc' = "idle"
        /\ buf' = Compacted /\ bufsz' = dst /\ input' = input
        /\ src' = src /\ dst' = dst /\ st' = st /\ left' = left
        /\ hex' = hex /\ err' = err
    BY DEF Epilogue, local
  <1>2. dec' = [dec EXCEPT !.state = st, !.bytes_left = left,
                  !.hex_count = hex, !.total_overhead = counted]
    BY DEF Epilogue
  <1>3. /\ dec \in Decoders /\ st \in -128 .. 127 /\ left \in 0 .. Usize - 1
        /\ hex \in 0 .. HexMax
        /\ buf \in Seq(Byte) /\ Len(buf) \in Nat /\ input \in Seq(Byte)
        /\ src \in Nat /\ dst \in Nat /\ dst <= src /\ src <= Len(buf)
        /\ Len(buf) = Len(input)
        /\ err \in {"complete", "partial", "malformed"}
    BY <1>1 DEF IInv, TypeOK, UnreadIntact, CursorsOrdered
  <1>4. /\ dec.total_read \in Nat /\ dec.total_overhead \in Nat
        /\ dec.total_read <= MaxRead
        /\ dec.total_overhead + Len(buf) <= dec.total_read
        /\ dec.total_overhead \in 0 .. U64 - 1
    BY <1>1, <1>3, DecoderFields DEF IInv, OverheadWithinRead
  <1>5. /\ Framing \in Nat /\ Framing <= Len(buf)
        /\ overhead = dec.total_overhead + Framing
        /\ overhead \in 0 .. U64 - 1
    <2>1. Framing \in Nat /\ Framing <= Len(buf)
      BY <1>3 DEF Framing
    <2>2. /\ dec.total_overhead + Framing \in Nat
          /\ U64 \in Nat \ {0} /\ dec.total_overhead + Framing < U64
      BY SMTT(60), <1>3, <1>4, <2>1, CounterAssumption
    <2>. QED
      BY <2>1, <2>2, Modulo
  <1>6. counted \in 0 .. U64 - 1 /\ counted <= dec.total_read
    BY <1>3, <1>4, <1>5
  <1>7. /\ dec' \in Decoders
        /\ dec'.state = st /\ dec'.bytes_left = left /\ dec'.hex_count = hex
        /\ dec'.total_overhead = counted /\ dec'.total_read = dec.total_read
        /\ dec'.consume_trailer = dec.consume_trailer
    <2>. HIDE DEF counted
    <2>. QED
      BY <1>2, <1>3, <1>6 DEF Decoders
  <1>8. /\ Len(buf) - src \in Nat /\ src + (Len(buf) - src) <= Len(buf)
        /\ dst + (Len(buf) - src) <= Len(buf)
    BY <1>3
  <1>9. /\ buf' \in Seq(Byte) /\ Len(buf') = Len(buf)
        /\ \A i \in 1 .. Len(buf) - src : buf'[dst + i] = buf[src + i]
    BY <1>1, <1>3, Compaction
  <1>10. /\ err = "complete"  => ret' = Len(buf) - src
         /\ err = "malformed" => ret' = MALFORMED
         /\ err = "partial"   => ret' \in {MALFORMED, PARTIAL}
    BY <1>3 DEF Epilogue
  <1>11. TypeOK'
    BY <1>1, <1>3, <1>7, <1>8, <1>9, <1>10 DEF TypeOK
  <1>12. UnreadIntact'
    BY <1>1, <1>3, <1>9 DEF UnreadIntact, CursorsOrdered
  <1>13. NeverCorrupt' /\ CarriedStateConsistent'
    BY <1>1, <1>7
    DEF IInv, NeverCorrupt, CarriedStateConsistent, SizeMatchesState
  <1>14. DrainedBeforePartial'
    <2>1. err = "partial" => src = Len(buf)
      BY DEF IInv, DrainedBeforePartial
    <2>2. ret' = PARTIAL => err = "partial"
      BY <1>3, <1>8, <1>10 DEF MALFORMED, PARTIAL
    <2>. QED
      BY <1>1, <1>9, <2>1, <2>2 DEF DrainedBeforePartial
  <1>15. OverheadWithinRead'
    BY <1>1, <1>6, <1>7, <1>4 DEF OverheadWithinRead
  <1>16. LeftoverIntact'
    <2>1. CASE err # "complete"
      BY <1>3, <1>10, <2>1 DEF LeftoverIntact, MALFORMED, PARTIAL
    <2>2. CASE err = "complete"
      <3>1. ret' = Len(buf) - src /\ bufsz' + ret' <= Len(buf')
        BY <1>1, <1>8, <1>9, <1>10, <2>2
      <3>2. \A i \in 1 .. Len(buf) - src : buf'[dst + i] = input[src + i]
        <4>1. \A i \in 1 .. Len(buf) - src : src + i \in src + 1 .. Len(buf)
          BY <1>3
        <4>. QED
          BY <1>1, <1>9, <4>1 DEF IInv, UnreadIntact
      <3>3. Len(input') - ret' = src
        BY <1>1, <1>3, <3>1
      <3>. QED
        BY <1>1, <3>1, <3>2, <3>3 DEF LeftoverIntact
    <2>. QED
      BY <2>1, <2>2
  <1>. QED
    BY <1>11, <1>12, <1>13, <1>14, <1>15, <1>16 DEF IInv

(* The remaining steps: a null argument, and none at all. *)
LEMMA NullArgumentStep == ASSUME IInv, NullArgument PROVE IInv'
  <1>1. /\ pc = "idle" /\ ret' = -1 /\ dec' = dec /\ pc' = pc /\ buf' = buf
        /\ input' = input /\ src' = src /\ dst' = dst /\ st' = st
        /\ left' = left /\ hex' = hex /\ err' = err /\ bufsz' = bufsz
    BY DEF NullArgument, local, MALFORMED
  <1>. QED
    BY <1>1
    DEF IInv, TypeOK, UnreadIntact, CursorsOrdered, NeverCorrupt,
        CarriedStateConsistent, SizeMatchesState, DrainedBeforePartial,
        OverheadWithinRead, LeftoverIntact, MALFORMED, PARTIAL

LEMMA NoStep == ASSUME IInv, UNCHANGED vars PROVE IInv'
  BY DEF vars, local, IInv, TypeOK, UnreadIntact, CursorsOrdered,
         NeverCorrupt, CarriedStateConsistent, SizeMatchesState,
         DrainedBeforePartial, OverheadWithinRead, LeftoverIntact

(* The panic is out of reach. *)
LEMMA NoCorruptStep == ASSUME IInv PROVE ~Corrupt
  BY DEF IInv, NeverCorrupt, Corrupt

LEMMA NextIInv == IInv /\ [Next]_vars => IInv'
  <1>. SUFFICES ASSUME IInv, [Next]_vars PROVE IInv'
    OBVIOUS
  <1>1. ASSUME NEW data \in Inputs, Enter(data) PROVE IInv'
    BY <1>1, EnterStep, InputAssumption
  <1>2. CASE Step
    BY <1>2, OutOfBytesStep, SizeDigitStep, SizeEndStep, SizeRejectStep,
       ExtByteStep, HeaderLFStep, DataShortStep, DataFullStep, DataEndStep,
       TrailLineStep, TrailEndStep, BadLineBreakStep, NoCorruptStep
    DEF Step
  <1>3. CASE Epilogue
    BY <1>3, EpilogueStep
  <1>4. CASE NullArgument
    BY <1>4, NullArgumentStep
  <1>5. CASE UNCHANGED vars
    BY <1>5, NoStep
  <1>. QED
    BY <1>1, <1>2, <1>3, <1>4, <1>5 DEF Next

-----------------------------------------------------------------------------
(***************************************************************************)
(* The invariant of every behaviour, and what follows from it: the         *)
(* properties the runs check, for all the values of the constants.         *)
(***************************************************************************)
THEOREM Invariance == Spec => []IInv
  BY InitIInv, NextIInv, PTL DEF Spec

(* The variables always have their types. *)
THEOREM TypeCorrect == Spec => []TypeOK
  <1>1. IInv => TypeOK
    BY DEF IInv
  <1>. QED
    BY <1>1, Invariance, PTL

(* In-place decoding never passes the read offset, nor either the end. *)
THEOREM InPlaceSafe == Spec => []UnreadIntact
  <1>1. IInv => UnreadIntact
    BY DEF IInv
  <1>. QED
    BY <1>1, Invariance, PTL

(* No calls, on any bytes, reach the panic of the dispatch loop. *)
THEOREM PanicUnreachable == Spec => []NeverCorrupt
  <1>1. IInv => NeverCorrupt
    BY DEF IInv
  <1>. QED
    BY <1>1, Invariance, PTL

(* What a call leaves for the next is a state, a size and a count that fit. *)
THEOREM StateConsistent == Spec => []CarriedStateConsistent
  <1>1. IInv => CarriedStateConsistent
    BY DEF IInv
  <1>. QED
    BY <1>1, Invariance, PTL

(* A call that asks for more has taken all that it was given. *)
THEOREM PartialMeansDrained == Spec => []DrainedBeforePartial
  <1>1. IInv => DrainedBeforePartial
    BY DEF IInv
  <1>. QED
    BY <1>1, Invariance, PTL

(* The subtraction of the overhead rule never wraps. *)
THEOREM OverheadNeverWraps == Spec => []OverheadWithinRead
  <1>1. IInv => OverheadWithinRead
    BY DEF IInv
  <1>. QED
    BY <1>1, Invariance, PTL

(* The octets a completed call reports as left are the caller's own. *)
THEOREM LeftoverKept == Spec => []LeftoverIntact
  <1>1. IInv => LeftoverIntact
    BY DEF IInv
  <1>. QED
    BY <1>1, Invariance, PTL

(* The gate on the digits is enough: the size never wraps. *)
THEOREM SizeExact == Spec => SizeNeverWraps
  <1>1. IInv /\ [Next]_vars => [SizeDigit => DigitKeepsSize]_vars
    BY SizeDigitStep
  <1>. QED
    BY <1>1, Invariance, PTL DEF Spec, SizeNeverWraps
=============================================================================
