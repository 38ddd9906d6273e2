------------------------ MODULE ChunkedDropInProofs ------------------------
(***************************************************************************)
(* Step by step the port does what the C original does, whatever struct    *)
(* it is given, for all values of the constants.                           *)
(***************************************************************************)
EXTENDS ChunkedDropIn, ChunkedDecoderProofs

(***************************************************************************)
(* What is kept from any struct on.  The invariant of ChunkedDecoder is    *)
(* not: it rests on a zero-filled start.  Between calls, and in a call on  *)
(* a forged _state, the locals of the loop are what the struct holds.      *)
(***************************************************************************)
LocalsPublished == st = dec.state /\ left = dec.bytes_left /\ hex = dec.hex_count

DropInv ==
  /\ TypeOK
  /\ CursorsOrdered
  /\ pc = "idle" \/ st \notin States => LocalsPublished

LEMMA InitDropInv == ForgedInit => DropInv
<1> SUFFICES ASSUME NEW d \in Structs, InitWith(d)
             PROVE  DropInv
  BY DEF ForgedInit
<1>1. d \in Decoders
  BY StructsAssumption
<1>2. /\ dec = d /\ pc = "idle" /\ buf = << >> /\ input = << >>
      /\ src = 0 /\ dst = 0 /\ err = "none" /\ ret = 0 /\ bufsz = 0
      /\ st = d.state /\ left = d.bytes_left /\ hex = d.hex_count
  BY DEF InitWith
<1>3. TypeOK
  BY <1>1, <1>2, DecoderFields DEF TypeOK, MALFORMED, PARTIAL
<1> QED
  BY <1>2, <1>3 DEF DropInv, CursorsOrdered, LocalsPublished

-----------------------------------------------------------------------------
(***************************************************************************)
(* The struct the original would hold, field by field.                     *)
(***************************************************************************)
LEMMA StructFields ==
  ASSUME dec \in Decoders
  PROVE  /\ Struct.state = st /\ Struct.bytes_left = left /\ Struct.hex_count = hex
         /\ Struct.consume_trailer = dec.consume_trailer
         /\ Struct.total_read = dec.total_read
         /\ Struct.total_overhead = dec.total_overhead
BY DEF Struct, Decoders

(* A struct whose locals are published is the caller's own. *)
LEMMA StructPublished ==
  ASSUME dec \in Decoders, LocalsPublished
  PROVE  Struct = dec
BY DEF Struct, Decoders, LocalsPublished

(* Nothing moved onto itself changes nothing. *)
LEMMA CopyInPlace ==
  ASSUME NEW b \in Seq(Byte), NEW p \in Nat, NEW n \in Nat
  PROVE  copy_within(b, p, n, p) = b
<1>1. copy_within(b, p, n, p) = [i \in 1 .. Len(b) |-> b[i]]
  <2>1. \A i \in 1 .. Len(b) : i - p + p = i
    OBVIOUS
  <2> QED
    BY <2>1 DEF copy_within
<1>2. b = [i \in 1 .. Len(b) |-> b[i]]
  OBVIOUS
<1> QED
  BY <1>1, <1>2

LEMMA Moves ==
  ASSUME TypeOK, NEW n \in Nat, buf' = copy_within(buf, src, n, dst)
  PROVE  Original!memmove(dst, src, n)
<1>1. copy_within(buf, src, n, dst) = Original!copy_within(buf, src, n, dst)
  BY DEF copy_within, Original!copy_within
<1>2. src = dst => copy_within(buf, src, n, dst) = buf
  BY CopyInPlace DEF TypeOK
<1> QED
  BY <1>1, <1>2 DEF Original!memmove

(* What an action of the loop finds. *)
LEMMA Looping ==
  ASSUME DropInv, pc = "loop"
  PROVE  /\ dec \in Decoders /\ err = "none"
         /\ buf \in Seq(Byte) /\ Len(buf) \in Nat
         /\ src \in Nat /\ dst \in Nat /\ dst <= src /\ src <= Len(buf)
         /\ st \in -128 .. 127 /\ left \in 0 .. Usize - 1 /\ hex \in 0 .. HexMax
         /\ left \in Nat /\ hex \in Nat
         /\ Label = "switch" /\ Answer = PARTIAL
BY PowersFit, SizeAssumption DEF DropInv, TypeOK, CursorsOrdered, Label, Answer

(* How a step of the loop is seen by the original. *)
LEMMA Going ==
  ASSUME pc' = "loop", err' = "none"
  PROVE  Label' = "switch" /\ Answer' = PARTIAL
BY DEF Label, Answer

LEMMA Breaking ==
  ASSUME NEW outcome \in {"complete", "partial", "malformed"}, Break(outcome)
  PROVE  /\ Label' = IF outcome = "complete" THEN "Complete" ELSE "Exit"
         /\ Answer' = IF outcome = "malformed" THEN MALFORMED ELSE PARTIAL
BY DEF Label, Answer, Break

(* Moving on by one byte is ++src. *)
LEMMA SkipIsAdvance ==
  ASSUME DropInv, pc = "loop", NEW s, SkipTo(s), Frame, UNCHANGED <<left, hex>>
  PROVE  Original!Advance(s)
<1>1. dec \in Decoders /\ err = "none" /\ Label = "switch" /\ Answer = PARTIAL
  BY Looping
<1>2. /\ src' = src + 1 /\ st' = s /\ pc' = "loop" /\ dst' = dst /\ err' = "none"
      /\ dec' = dec /\ buf' = buf /\ bufsz' = bufsz /\ left' = left /\ hex' = hex
  BY <1>1 DEF SkipTo, Frame
<1>3. Label' = "switch" /\ Answer' = Answer
  BY <1>1, <1>2, Going
<1>4. Struct' = [Struct EXCEPT !.state = s]
  BY <1>1, <1>2 DEF Struct, Decoders
<1> QED
  BY <1>2, <1>3, <1>4 DEF Original!Advance, Original!Goto

(* A refusal leaves everything as it was. *)
LEMMA BreakIsRefuse ==
  ASSUME DropInv, pc = "loop", Break("malformed"), Frame,
         UNCHANGED <<src, dst, st, left, hex>>
  PROVE  Original!Refuse
<1>1. Label' = "Exit" /\ Answer' = MALFORMED
  BY Breaking
<1>2. Struct' = Struct
  BY DEF Struct, Frame
<1> QED
  BY <1>1, <1>2 DEF Original!Refuse, Original!Goto, Original!MALFORMED, MALFORMED, Frame

-----------------------------------------------------------------------------
(***************************************************************************)
(* The invariant is kept by the actions that leave the caller's memory     *)
(* alone, and by those that move chunk data.                               *)
(***************************************************************************)
LEMMA FrameKeeps ==
  ASSUME DropInv, pc = "loop", Frame, pc' \in {"loop", "exit"},
         src' \in Nat, src <= src', src' <= Len(buf), dst' = dst,
         st' \in States, left' \in 0 .. Usize - 1, hex' \in 0 .. HexMax,
         err' \in {"none", "complete", "partial", "malformed"},
         pc' = "loop" => err' = "none", pc' = "exit" => err' # "none"
  PROVE  DropInv'
<1>1. TypeOK'
  BY DEF DropInv, TypeOK, Frame, States, ST_SIZE, ST_TRAIL_MID
<1>2. CursorsOrdered'
  <2>1. dst <= src' /\ Len(buf) = Len(input)
    BY DEF DropInv, TypeOK, CursorsOrdered
  <2> QED
    BY <2>1 DEF CursorsOrdered, Frame
<1> QED
  BY <1>1, <1>2 DEF DropInv

LEMMA TakeKeeps ==
  ASSUME DropInv, pc = "loop", NEW n \in Nat, n <= left, src + n <= Len(buf),
         TakeData(n), st' \in States, pc' \in {"loop", "exit"},
         err' \in {"none", "partial"},
         pc' = "loop" => err' = "none", pc' = "exit" => err' # "none"
  PROVE  DropInv'
<1>1. /\ buf \in Seq(Byte) /\ Len(buf) \in Nat
      /\ src \in Nat /\ dst \in Nat /\ dst <= src /\ src <= Len(buf)
      /\ left \in Nat /\ left \in 0 .. Usize - 1 /\ Len(buf) = Len(input)
  BY Looping DEF DropInv, CursorsOrdered
<1>2. /\ buf' = copy_within(buf, src, n, dst)
      /\ src' = src + n /\ dst' = dst + n /\ left' = left - n
      /\ dec' = dec /\ input' = input /\ ret' = ret /\ bufsz' = bufsz
      /\ hex' = hex
  BY DEF TakeData
<1>3. buf' \in Seq(Byte) /\ Len(buf') = Len(buf)
  BY ZenonT(60), <1>1, <1>2, CopyWithin
<1>4. left' \in 0 .. Usize - 1
  BY <1>1, <1>2, PowersFit
<1>5. TypeOK'
  BY <1>1, <1>2, <1>3, <1>4
  DEF DropInv, TypeOK, States, ST_SIZE, ST_TRAIL_MID
<1>6. CursorsOrdered'
  BY <1>1, <1>2, <1>3 DEF CursorsOrdered
<1> QED
  BY <1>5, <1>6 DEF DropInv

(***************************************************************************)
(* Action by action: the invariant is kept, and the original does the same.*)
(***************************************************************************)
LEMMA EnterIsCall ==
  ASSUME DropInv, NEW data \in Inputs, Enter(data)
  PROVE  DropInv' /\ Original!Call(data)
<1>1. /\ data \in Seq(Byte) /\ Len(data) \in Nat
      /\ dec \in Decoders /\ dec.total_read \in Nat /\ dec.total_overhead \in Nat
      /\ LocalsPublished /\ pc = "idle"
  BY InputAssumption, DecoderFields DEF DropInv, TypeOK, Enter
<1>2. /\ dec.total_read + Len(data) <= MaxRead
      /\ dec' = [dec EXCEPT !.total_read = Counted(data)]
      /\ pc' = "loop" /\ buf' = data /\ input' = data /\ bufsz' = Len(data)
      /\ src' = 0 /\ dst' = 0 /\ err' = "none" /\ ret' = ret
      /\ st' = dec.state /\ left' = dec.bytes_left /\ hex' = dec.hex_count
  BY DEF Enter
<1>3. Counted(data) \in 0 .. MaxRead
  <2>1. dec.total_read + Len(data) \in Nat /\ dec.total_read + Len(data) < U64
    BY <1>1, <1>2, CounterAssumption
  <2>2. Counted(data) = dec.total_read + Len(data)
    BY <2>1, CounterAssumption, Modulo DEF Counted
  <2> QED
    BY <1>2, <2>1, <2>2, CounterAssumption
<1>4. /\ dec' \in Decoders
      /\ dec'.state = dec.state /\ dec'.bytes_left = dec.bytes_left
      /\ dec'.hex_count = dec.hex_count
  BY <1>1, <1>2, <1>3, DecoderCounts
<1>5. DropInv'
  <2>1. TypeOK'
    BY <1>1, <1>2, <1>4, DecoderFields DEF DropInv, TypeOK
  <2> QED
    BY <1>1, <1>2, <1>4, <2>1 DEF DropInv, CursorsOrdered, LocalsPublished
<1>6. Struct = dec /\ Struct' = dec'
  <2>1. LocalsPublished'
    BY <1>2, <1>4 DEF LocalsPublished
  <2>2. Struct' = dec'
    BY <1>4, <2>1 DEF Struct, Decoders, LocalsPublished
  <2> QED
    BY <1>1, <2>2, StructPublished
<1>7. Label = "idle" /\ Label' = "switch" /\ Answer' = Original!PARTIAL
  BY <1>1, <1>2, Going DEF Label, Original!PARTIAL, PARTIAL
<1>8. Original!Call(data)
  BY <1>2, <1>6, <1>7 DEF Original!Call, Counted
<1> QED
  BY <1>5, <1>8

LEMMA OutOfBytesIsSuspend ==
  ASSUME DropInv, OutOfBytes
  PROVE  DropInv' /\ Original!Suspend
<1>1. /\ pc = "loop" /\ st \in States /\ st # ST_DATA /\ src = Len(buf)
      /\ Break("partial") /\ Frame /\ UNCHANGED <<src, dst, st, left, hex>>
  BY DEF OutOfBytes, Exhausted
<1>2. DropInv'
  BY <1>1, Looping, FrameKeeps DEF Break
<1>3. Label' = "Exit" /\ Answer' = Answer /\ Struct' = Struct
  BY <1>1, Looping, Breaking DEF Struct, Frame
<1>4. /\ Struct.state \in Original!CHUNKED_IN_CHUNK_SIZE
                          .. Original!CHUNKED_IN_TRAILERS_LINE_MIDDLE
      /\ Struct.state # Original!CHUNKED_IN_CHUNK_DATA
  BY <1>1, Looping, StructFields
  DEF States, ST_SIZE, ST_DATA, ST_TRAIL_MID, Original!CHUNKED_IN_CHUNK_SIZE,
      Original!CHUNKED_IN_CHUNK_DATA, Original!CHUNKED_IN_TRAILERS_LINE_MIDDLE
<1> QED
  BY <1>1, <1>2, <1>3, <1>4, Looping
  DEF Original!Suspend, Original!Goto, Frame

(* The byte looked at, and the case of the switch. *)
LEMMA AtIsIn ==
  ASSUME DropInv, NEW s, At(s)
  PROVE  /\ pc = "loop" /\ st = s
         /\ Original!In(s) /\ Original!Here = Current /\ Struct.state = s
         /\ src + 1 \in Nat /\ src <= src + 1 /\ src + 1 <= Len(buf)
BY Looping, StructFields DEF At, Original!In, Original!Here, Current

LEMMA SkipKeeps ==
  ASSUME DropInv, NEW s, At(s), NEW t \in States, SkipTo(t), Frame,
         UNCHANGED <<left, hex>>
  PROVE  DropInv'
BY AtIsIn, Looping, FrameKeeps DEF SkipTo

LEMMA BreakKeeps ==
  ASSUME DropInv, NEW s \in States, At(s),
         NEW outcome \in {"complete", "partial", "malformed"}, Break(outcome),
         Frame, src' \in {src, src + 1}, UNCHANGED <<dst, st, left, hex>>
  PROVE  DropInv'
BY AtIsIn, Looping, FrameKeeps DEF Break

(* The port and the original have the same bytes in the same classes. *)
LEMMA SameBytes ==
  /\ Original!CR = CR /\ Original!LF = LF
  /\ Original!HexDigits = HexDigits /\ Original!SizeTerminators = SizeTerminators
  /\ Original!MALFORMED = MALFORMED /\ Original!PARTIAL = PARTIAL
BY DEF CR, LF, SP, HT, SEMI, HexDigits, SizeTerminators, MALFORMED, PARTIAL,
       Original!CR, Original!LF, Original!SP, Original!HT, Original!SEMI,
       Original!HexDigits, Original!SizeTerminators, Original!MALFORMED,
       Original!PARTIAL

LEMMA SameStates ==
  /\ Original!CHUNKED_IN_CHUNK_SIZE = ST_SIZE
  /\ Original!CHUNKED_IN_CHUNK_EXT = ST_EXT
  /\ Original!CHUNKED_IN_CHUNK_HEADER_EXPECT_LF = ST_EXPECT_LF
  /\ Original!CHUNKED_IN_CHUNK_DATA = ST_DATA
  /\ Original!CHUNKED_IN_CHUNK_DATA_EXPECT_CR = ST_DATA_CR
  /\ Original!CHUNKED_IN_CHUNK_DATA_EXPECT_LF = ST_DATA_LF
  /\ Original!CHUNKED_IN_TRAILERS_LINE_HEAD = ST_TRAIL_HEAD
  /\ Original!CHUNKED_IN_TRAILERS_LINE_MIDDLE = ST_TRAIL_MID
  /\ {ST_SIZE, ST_EXT, ST_EXPECT_LF, ST_DATA, ST_DATA_CR, ST_DATA_LF,
      ST_TRAIL_HEAD, ST_TRAIL_MID} \subseteq States
BY DEF ST_SIZE, ST_EXT, ST_EXPECT_LF, ST_DATA, ST_DATA_CR, ST_DATA_LF,
       ST_TRAIL_HEAD, ST_TRAIL_MID, States, Original!CHUNKED_IN_CHUNK_SIZE,
       Original!CHUNKED_IN_CHUNK_EXT,
       Original!CHUNKED_IN_CHUNK_HEADER_EXPECT_LF,
       Original!CHUNKED_IN_CHUNK_DATA, Original!CHUNKED_IN_CHUNK_DATA_EXPECT_CR,
       Original!CHUNKED_IN_CHUNK_DATA_EXPECT_LF,
       Original!CHUNKED_IN_TRAILERS_LINE_HEAD,
       Original!CHUNKED_IN_TRAILERS_LINE_MIDDLE

LEMMA DecodeHex ==
  ASSUME NEW b
  PROVE  /\ b \in HexDigits =>
              /\ Original!decode_hex(b) = hex_val(b)
              /\ Original!decode_hex(b) # -1
         /\ b \notin HexDigits => Original!decode_hex(b) = -1
<1>1. Original!hex_val(b) = hex_val(b)
  BY DEF hex_val, Original!hex_val
<1>2. b \in HexDigits => hex_val(b) # -1
  BY HexDigitValue
<1> QED
  BY <1>1, <1>2, SameBytes DEF Original!decode_hex

LEMMA DigitsAndTerminatorsApart == HexDigits \cap SizeTerminators = {}
BY DEF HexDigits, SizeTerminators, SP, HT, SEMI, LF, CR

LEMMA SizeDigitIsChunkSize ==
  ASSUME DropInv, SizeDigit
  PROVE  DropInv' /\ Original!ChunkSize
<1>1. /\ At(ST_SIZE) /\ Current \in HexDigits /\ hex # HexMax
      /\ left' = (left * 16 + hex_val(Current)) % Usize /\ hex' = hex + 1
      /\ src' = src + 1 /\ st' = ST_SIZE /\ UNCHANGED <<pc, dst, err>> /\ Frame
  BY DEF SizeDigit, SkipTo, DigitFits
<1>2. left' \in 0 .. Usize - 1 /\ hex' \in 0 .. HexMax
  <2>1. left * 16 + hex_val(Current) \in Nat
    <3>1. left \in Nat
      BY <1>1, AtIsIn, Looping
    <3>2. hex_val(Current) \in 0 .. 15
      BY <1>1, HexDigitValue
    <3> QED
      BY <3>1, <3>2
  <2>2. left' \in 0 .. Usize - 1
    BY <1>1, <2>1, PowersFit, Modulo
  <2>3. HexMax \in Nat /\ hex \in 0 .. HexMax
    BY <1>1, AtIsIn, Looping, SizeAssumption
  <2> QED
    BY <1>1, <2>2, <2>3
<1>3. DropInv'
  BY <1>1, <1>2, AtIsIn, Looping, FrameKeeps, SameStates
<1>4. /\ Original!In(Original!CHUNKED_IN_CHUNK_SIZE)
      /\ Original!decode_hex(Original!Here) = hex_val(Current)
      /\ Original!decode_hex(Original!Here) # -1
      /\ Struct.hex_count # HexMax
      /\ Label' = "switch" /\ Answer' = Answer
  BY <1>1, AtIsIn, Looping, Going, StructFields, SameStates, DecodeHex
<1>5. Struct' = [Struct EXCEPT !.hex_count = @ + 1,
                  !.bytes_left = (@ * 16 + hex_val(Current)) % Pow16[HexMax]]
  <2>1. /\ dec \in Decoders /\ st = ST_SIZE /\ dec' = dec
    BY <1>1, AtIsIn, Looping DEF Frame
  <2> DEFINE size == (left * 16 + hex_val(Current)) % Usize
  <2>2. left' = size /\ hex' = hex + 1 /\ st' = st
    BY <1>1, <2>1
  <2>3. [Struct EXCEPT !.hex_count = @ + 1,
           !.bytes_left = (@ * 16 + hex_val(Current)) % Pow16[HexMax]]
        = [Struct EXCEPT !.hex_count = hex + 1, !.bytes_left = size]
    BY <2>1, StructFields DEF Usize
  <2> HIDE DEF size
  <2>4. Struct' = [Struct EXCEPT !.hex_count = hex + 1, !.bytes_left = size]
    BY <2>1, <2>2 DEF Struct, Decoders
  <2> QED
    BY <2>3, <2>4
<1> QED
  BY <1>1, <1>3, <1>4, <1>5
  DEF Original!ChunkSize, Original!Goto, Frame

LEMMA SizeEndIsChunkSize ==
  ASSUME DropInv, SizeEnd
  PROVE  DropInv' /\ Original!ChunkSize
<1>1. /\ At(ST_SIZE) /\ Current \in SizeTerminators /\ hex # 0
      /\ hex' = 0 /\ st' = ST_EXT
      /\ Frame /\ UNCHANGED <<pc, src, dst, left, err>>
  BY DEF SizeEnd
<1>2. DropInv'
  BY <1>1, AtIsIn, Looping, FrameKeeps, SameStates, SizeAssumption
<1>3. /\ Original!In(Original!CHUNKED_IN_CHUNK_SIZE)
      /\ Original!decode_hex(Original!Here) = -1
      /\ Struct.hex_count # 0
      /\ Original!Here \in Original!SizeTerminators
      /\ Label' = "switch" /\ Answer' = Answer
  BY <1>1, AtIsIn, Looping, Going, StructFields, SameStates, SameBytes,
     DecodeHex, DigitsAndTerminatorsApart
<1>4. Struct' = [Struct EXCEPT !.hex_count = 0,
                               !.state = Original!CHUNKED_IN_CHUNK_EXT]
  <2>1. dec \in Decoders /\ dec' = dec
    BY <1>1, AtIsIn, Looping DEF Frame
  <2> QED
    BY <1>1, <2>1, SameStates DEF Struct, Decoders
<1> QED
  BY <1>1, <1>2, <1>3, <1>4
  DEF Original!ChunkSize, Original!Goto, Frame

LEMMA SizeRejectIsChunkSize ==
  ASSUME DropInv, SizeReject
  PROVE  DropInv' /\ Original!ChunkSize
<1>1. /\ At(ST_SIZE) /\ Break("malformed")
      /\ Frame /\ UNCHANGED <<src, dst, st, left, hex>>
  BY DEF SizeReject
<1>2. DropInv'
  BY <1>1, BreakKeeps, SameStates
<1>3. Original!Refuse /\ Original!In(Original!CHUNKED_IN_CHUNK_SIZE)
  BY <1>1, AtIsIn, BreakIsRefuse, SameStates
<1>4. IF Original!decode_hex(Original!Here) = -1
        THEN \/ Struct.hex_count = 0
             \/ Original!Here \notin Original!SizeTerminators
        ELSE Struct.hex_count = HexMax
  <2>1. /\ Original!Here = Current /\ Struct.hex_count = hex
    BY <1>1, AtIsIn, Looping, StructFields
  <2>2. \/ Current \in HexDigits /\ hex = HexMax
        \/ Current \notin HexDigits /\ hex = 0
        \/ Current \notin HexDigits /\ Current \notin SizeTerminators
    BY DEF SizeReject, DigitFits
  <2> QED
    BY <2>1, <2>2, DecodeHex, SameBytes
<1> QED
  BY <1>2, <1>3, <1>4 DEF Original!ChunkSize

LEMMA ExtByteIsChunkExt ==
  ASSUME DropInv, ExtByte
  PROVE  DropInv' /\ Original!ChunkExt
<1> DEFINE next == IF Current = CR THEN ST_EXPECT_LF ELSE ST_EXT
<1>1. /\ At(ST_EXT) /\ Current # LF /\ SkipTo(next)
      /\ Frame /\ UNCHANGED <<left, hex>>
  BY DEF ExtByte
<1>2. DropInv'
  BY <1>1, SkipKeeps, SameStates
<1>3. Original!Advance(next) /\ Original!In(Original!CHUNKED_IN_CHUNK_EXT)
      /\ Original!Here = Current
  BY <1>1, AtIsIn, SkipIsAdvance, SameStates
<1>4. CASE Current = CR
  BY <1>2, <1>3, <1>4, SameStates, SameBytes DEF Original!ChunkExt
<1>5. CASE Current # CR
  BY <1>1, <1>2, <1>3, <1>5, SameStates, SameBytes DEF Original!ChunkExt
<1> QED
  BY <1>4, <1>5

(* Four cases refuse a line break that is not there. *)
LEMMA BadLineBreakIsRefused ==
  ASSUME DropInv, BadLineBreak
  PROVE  /\ DropInv'
         /\ \/ Original!ChunkExt \/ Original!HeaderExpectLF
            \/ Original!DataExpectCR \/ Original!DataExpectLF
<1>1. /\ Break("malformed")
      /\ Frame /\ UNCHANGED <<src, dst, st, left, hex>>
  BY DEF BadLineBreak
<1>2. CASE At(ST_EXT) /\ Current = LF
  <2>1. DropInv' /\ Original!Refuse /\ Original!Here = Current
        /\ Original!In(Original!CHUNKED_IN_CHUNK_EXT)
    BY <1>1, <1>2, AtIsIn, BreakKeeps, BreakIsRefuse, SameStates
  <2> QED
    BY <1>2, <2>1, SameBytes DEF Original!ChunkExt
<1>3. CASE At(ST_EXPECT_LF) /\ Current # LF
  <2>1. DropInv' /\ Original!Refuse /\ Original!Here = Current
        /\ Original!In(Original!CHUNKED_IN_CHUNK_HEADER_EXPECT_LF)
    BY <1>1, <1>3, AtIsIn, BreakKeeps, BreakIsRefuse, SameStates
  <2> QED
    BY <1>3, <2>1, SameBytes DEF Original!HeaderExpectLF
<1>4. CASE At(ST_DATA_CR) /\ Current # CR
  <2>1. DropInv' /\ Original!Refuse /\ Original!Here = Current
        /\ Original!In(Original!CHUNKED_IN_CHUNK_DATA_EXPECT_CR)
    BY <1>1, <1>4, AtIsIn, BreakKeeps, BreakIsRefuse, SameStates
  <2> QED
    BY <1>4, <2>1, SameBytes DEF Original!DataExpectCR
<1>5. CASE At(ST_DATA_LF) /\ Current # LF
  <2>1. DropInv' /\ Original!Refuse /\ Original!Here = Current
        /\ Original!In(Original!CHUNKED_IN_CHUNK_DATA_EXPECT_LF)
    BY <1>1, <1>5, AtIsIn, BreakKeeps, BreakIsRefuse, SameStates
  <2> QED
    BY <1>5, <2>1, SameBytes DEF Original!DataExpectLF
<1> QED
  BY <1>2, <1>3, <1>4, <1>5 DEF BadLineBreak

LEMMA HeaderLFIsHeaderExpectLF ==
  ASSUME DropInv, HeaderLF
  PROVE  DropInv' /\ Original!HeaderExpectLF
<1>1. /\ At(ST_EXPECT_LF) /\ Current = LF /\ src' = src + 1
      /\ Frame /\ UNCHANGED <<dst, left, hex>>
  BY DEF HeaderLF
<1>2. /\ pc = "loop" /\ dec \in Decoders /\ err = "none"
      /\ Original!In(Original!CHUNKED_IN_CHUNK_HEADER_EXPECT_LF)
      /\ Original!Here = Original!LF
      /\ Struct.bytes_left = left
      /\ Struct.consume_trailer = dec.consume_trailer
  BY <1>1, AtIsIn, Looping, StructFields, SameStates, SameBytes
<1>3. CASE left # 0 /\ st' = ST_DATA /\ UNCHANGED <<pc, err>>
  <2>1. SkipTo(ST_DATA)
    BY <1>1, <1>3 DEF SkipTo
  <2>2. DropInv' /\ Original!Advance(ST_DATA)
    BY <1>1, <1>2, <2>1, SkipKeeps, SkipIsAdvance, SameStates
  <2> QED
    BY <1>2, <1>3, <2>2, SameStates DEF Original!HeaderExpectLF
<1>4. CASE /\ left = 0 /\ dec.consume_trailer
           /\ st' = ST_TRAIL_HEAD /\ UNCHANGED <<pc, err>>
  <2>1. SkipTo(ST_TRAIL_HEAD)
    BY <1>1, <1>4 DEF SkipTo
  <2>2. DropInv' /\ Original!Advance(ST_TRAIL_HEAD)
    BY <1>1, <1>2, <2>1, SkipKeeps, SkipIsAdvance, SameStates
  <2> QED
    BY <1>2, <1>4, <2>2, SameStates DEF Original!HeaderExpectLF
<1>5. CASE left = 0 /\ ~dec.consume_trailer /\ Break("complete") /\ UNCHANGED st
  <2>1. DropInv'
    BY <1>1, <1>5, BreakKeeps, SameStates
  <2>2. Label' = "Complete" /\ Answer' = Answer /\ Struct' = Struct
    BY <1>1, <1>2, <1>5, Breaking, Looping DEF Struct, Frame
  <2> QED
    BY <1>1, <1>2, <1>5, <2>1, <2>2
    DEF Original!HeaderExpectLF, Original!Goto, Frame
<1> QED
  BY <1>3, <1>4, <1>5 DEF HeaderLF

LEMMA DataEndIsExpected ==
  ASSUME DropInv, DataEnd
  PROVE  DropInv' /\ (Original!DataExpectCR \/ Original!DataExpectLF)
<1>1. Frame /\ UNCHANGED <<left, hex>>
  BY DEF DataEnd
<1>2. CASE At(ST_DATA_CR) /\ Current = CR /\ SkipTo(ST_DATA_LF)
  <2>1. /\ DropInv' /\ Original!Advance(ST_DATA_LF) /\ Original!Here = Current
        /\ Original!In(Original!CHUNKED_IN_CHUNK_DATA_EXPECT_CR)
    BY <1>1, <1>2, AtIsIn, SkipKeeps, SkipIsAdvance, SameStates
  <2> QED
    BY <1>2, <2>1, SameBytes, SameStates DEF Original!DataExpectCR
<1>3. CASE At(ST_DATA_LF) /\ Current = LF /\ SkipTo(ST_SIZE)
  <2>1. /\ DropInv' /\ Original!Advance(ST_SIZE) /\ Original!Here = Current
        /\ Original!In(Original!CHUNKED_IN_CHUNK_DATA_EXPECT_LF)
    BY <1>1, <1>3, AtIsIn, SkipKeeps, SkipIsAdvance, SameStates
  <2> QED
    BY <1>3, <2>1, SameBytes, SameStates DEF Original!DataExpectLF
<1> QED
  BY <1>2, <1>3 DEF DataEnd

LEMMA DataIsChunkData ==
  ASSUME DropInv, pc = "loop", st = ST_DATA,
         NEW n \in Nat, n <= left, src + n <= Len(buf), TakeData(n)
  PROVE  /\ Original!memmove(dst, src, n)
         /\ src' = src + n /\ dst' = dst + n /\ bufsz' = bufsz
         /\ Struct.state = ST_DATA /\ Struct.bytes_left = left
         /\ \A t : st' = t =>
              Struct' = [Struct EXCEPT !.state = t, !.bytes_left = @ - n]
<1>1. dec \in Decoders /\ left \in Nat
  BY Looping
<1>2. /\ buf' = copy_within(buf, src, n, dst)
      /\ src' = src + n /\ dst' = dst + n /\ bufsz' = bufsz
      /\ dec' = dec /\ left' = left - n /\ hex' = hex
  BY DEF TakeData
<1>3. Original!memmove(dst, src, n)
  BY <1>2, Moves DEF DropInv
<1>4. ASSUME NEW t, st' = t
      PROVE  Struct' = [Struct EXCEPT !.state = t, !.bytes_left = @ - n]
  <2>1. [Struct EXCEPT !.state = t, !.bytes_left = @ - n]
        = [Struct EXCEPT !.state = t, !.bytes_left = left - n]
    BY <1>1, StructFields
  <2>2. Struct' = [Struct EXCEPT !.state = t, !.bytes_left = left - n]
    BY <1>1, <1>2, <1>4 DEF Struct, Decoders
  <2> QED
    BY <2>1, <2>2
<1> QED
  BY <1>1, <1>2, <1>3, <1>4, StructFields

LEMMA DataShortIsChunkData ==
  ASSUME DropInv, DataShort
  PROVE  DropInv' /\ Original!ChunkData
<1> DEFINE n == Len(buf) - src
<1>1. /\ pc = "loop" /\ st = ST_DATA /\ ~ChunkFits /\ TakeData(n)
      /\ Break("partial") /\ st' = st
  BY DEF DataShort
<1>2. n \in Nat /\ n <= left /\ n < left /\ src + n <= Len(buf)
  BY <1>1, Looping DEF ChunkFits
<1>3. DropInv'
  BY <1>1, <1>2, TakeKeeps, SameStates DEF Break
<1>4. /\ Original!memmove(dst, src, n)
      /\ src' = src + n /\ dst' = dst + n /\ bufsz' = bufsz
      /\ Struct.state = ST_DATA /\ Struct.bytes_left = left
      /\ Struct' = [Struct EXCEPT !.state = ST_DATA, !.bytes_left = @ - n]
  BY <1>1, <1>2, DataIsChunkData
<1>5. Label = "switch" /\ Label' = "Exit" /\ Answer' = Answer
  BY <1>1, Looping, Breaking
<1> HIDE DEF n
<1> QED
  BY <1>2, <1>3, <1>4, <1>5, SameStates DEF Original!ChunkData, n

LEMMA DataFullIsChunkData ==
  ASSUME DropInv, DataFull
  PROVE  DropInv' /\ Original!ChunkData
<1>1. /\ pc = "loop" /\ st = ST_DATA /\ ChunkFits /\ TakeData(left)
      /\ st' = ST_DATA_CR /\ UNCHANGED <<pc, err>>
  BY DEF DataFull
<1>2. /\ left \in Nat /\ left <= left /\ src + left <= Len(buf)
      /\ ~(Len(buf) - src < left) /\ err = "none"
  BY <1>1, Looping DEF ChunkFits
<1>3. DropInv'
  BY <1>1, <1>2, TakeKeeps, SameStates
<1>4. /\ Original!memmove(dst, src, left)
      /\ src' = src + left /\ dst' = dst + left /\ bufsz' = bufsz
      /\ Struct.state = ST_DATA /\ Struct.bytes_left = left
      /\ Struct' = [Struct EXCEPT !.state = ST_DATA_CR, !.bytes_left = @ - left]
  BY <1>1, <1>2, DataIsChunkData
<1>5. Label = "switch" /\ Label' = "switch" /\ Answer' = Answer
  BY <1>1, <1>2, Looping, Going
<1> QED
  BY <1>2, <1>3, <1>4, <1>5, SameStates DEF Original!ChunkData

LEMMA TrailLineIsTrailers ==
  ASSUME DropInv, TrailLine
  PROVE  /\ DropInv'
         /\ Original!TrailersLineHead \/ Original!TrailersLineMiddle
<1>1. Frame /\ UNCHANGED <<left, hex>>
  BY DEF TrailLine
<1>2. ASSUME NEW s \in Trailer, NEW t \in Trailer, At(s), SkipTo(t)
      PROVE  DropInv' /\ Original!Advance(t) /\ Original!Here = Current
             /\ Original!In(s)
  BY <1>1, <1>2, AtIsIn, SkipKeeps, SkipIsAdvance, SameStates DEF Trailer
<1>3. ST_TRAIL_HEAD \in Trailer /\ ST_TRAIL_MID \in Trailer
  BY DEF Trailer
<1>4. CASE /\ At(ST_TRAIL_HEAD)
           /\ \/ Current = CR /\ SkipTo(ST_TRAIL_HEAD)
              \/ Current \notin {CR, LF} /\ SkipTo(ST_TRAIL_MID)
  BY <1>2, <1>3, <1>4, SameBytes, SameStates DEF Original!TrailersLineHead
<1>5. CASE /\ At(ST_TRAIL_MID)
           /\ \/ Current # LF /\ SkipTo(ST_TRAIL_MID)
              \/ Current = LF /\ SkipTo(ST_TRAIL_HEAD)
  BY <1>2, <1>3, <1>5, SameBytes, SameStates DEF Original!TrailersLineMiddle
<1> QED
  BY <1>4, <1>5 DEF TrailLine

LEMMA TrailEndIsTrailers ==
  ASSUME DropInv, TrailEnd
  PROVE  DropInv' /\ Original!TrailersLineHead
<1>1. /\ At(ST_TRAIL_HEAD) /\ Current = LF /\ src' = src + 1
      /\ Break("complete") /\ Frame /\ UNCHANGED <<dst, st, left, hex>>
  BY DEF TrailEnd
<1>2. DropInv'
  BY <1>1, BreakKeeps, SameStates
<1>3. Label' = "Complete" /\ Answer' = Answer /\ Struct' = Struct
  BY <1>1, AtIsIn, Breaking, Looping DEF Struct, Frame
<1>4. Original!In(Original!CHUNKED_IN_TRAILERS_LINE_HEAD)
      /\ Original!Here = Original!LF
  BY <1>1, AtIsIn, SameBytes, SameStates
<1> QED
  BY <1>1, <1>2, <1>3, <1>4
  DEF Original!TrailersLineHead, Original!Goto, Frame

LEMMA CorruptKeeps ==
  ASSUME DropInv, Corrupt
  PROVE  DropInv'
<1>1. /\ pc = "loop" /\ st \notin States /\ ret' = MALFORMED /\ pc' = "idle"
      /\ dec' = dec /\ buf' = buf /\ input' = input /\ bufsz' = bufsz
      /\ src' = src /\ dst' = dst /\ err' = err
      /\ st' = st /\ left' = left /\ hex' = hex
  BY DEF Corrupt, local
<1>2. TypeOK'
  BY <1>1 DEF DropInv, TypeOK
<1> QED
  BY <1>1, <1>2 DEF DropInv, CursorsOrdered, LocalsPublished

LEMMA NullKeeps ==
  ASSUME DropInv, NullArgument \/ UNCHANGED vars
  PROVE  DropInv'
<1>1. /\ ret' \in {ret, MALFORMED} /\ pc' = pc
      /\ dec' = dec /\ buf' = buf /\ input' = input /\ bufsz' = bufsz
      /\ src' = src /\ dst' = dst /\ err' = err
      /\ st' = st /\ left' = left /\ hex' = hex
  BY DEF NullArgument, vars, local
<1>2. TypeOK'
  BY <1>1 DEF DropInv, TypeOK
<1> QED
  BY <1>1, <1>2 DEF DropInv, CursorsOrdered, LocalsPublished

(***************************************************************************)
(* The epilogue is what stands at the two labels.                          *)
(***************************************************************************)
LEMMA EpilogueIsLeave ==
  ASSUME DropInv, Epilogue
  PROVE  DropInv' /\ Original!Leave
<1> DEFINE overhead == (dec.total_overhead + Framing) % U64
           counted  == IF err = "partial" THEN overhead ELSE dec.total_overhead
<1>1. /\ pc = "exit" /\ pc' = "idle"
      /\ buf' = Compacted /\ bufsz' = dst /\ input' = input
      /\ src' = src /\ dst' = dst /\ err' = err
      /\ st' = st /\ left' = left /\ hex' = hex
      /\ dec' = [dec EXCEPT !.state = st, !.bytes_left = left,
                  !.hex_count = hex, !.total_overhead = counted]
  BY DEF Epilogue, local
<1>2. /\ dec \in Decoders /\ st \in -128 .. 127 /\ left \in 0 .. Usize - 1
      /\ hex \in 0 .. HexMax
      /\ buf \in Seq(Byte) /\ Len(buf) \in Nat /\ Len(buf) = Len(input)
      /\ src \in Nat /\ dst \in Nat /\ dst <= src /\ src <= Len(buf)
      /\ err \in {"complete", "partial", "malformed"}
      /\ dec.total_overhead \in Nat /\ dec.total_overhead \in 0 .. U64 - 1
  BY <1>1, DecoderFields DEF DropInv, TypeOK, CursorsOrdered
<1>3. Len(buf) - src \in Nat /\ Framing = Len(buf) - dst /\ Framing \in Nat
  BY <1>2 DEF Framing
<1>4. buf' \in Seq(Byte) /\ Len(buf') = Len(buf)
  BY <1>1, <1>2, Compaction
<1>5. counted \in 0 .. U64 - 1
  <2>1. dec.total_overhead + Framing \in Nat
    BY <1>2, <1>3
  <2>2. overhead \in 0 .. U64 - 1
    BY <2>1, CounterAssumption, Modulo
  <2> QED
    BY <1>2, <2>2
<1>6. /\ dec' \in Decoders
      /\ dec'.state = st /\ dec'.bytes_left = left /\ dec'.hex_count = hex
  <2> HIDE DEF counted
  <2> QED
    BY <1>1, <1>2, <1>5 DEF Decoders
<1>7. ret' = CASE err = "complete"  -> Len(buf) - src
               [] err = "malformed" -> MALFORMED
               [] err = "partial"   ->
                    IF OverheadExceeded(dec.total_read, overhead)
                      THEN MALFORMED ELSE PARTIAL
  BY DEF Epilogue
<1>8. /\ err = "complete"  => ret' = Len(buf) - src
      /\ err = "malformed" => ret' = MALFORMED
      /\ err = "partial"   => ret' = IF OverheadExceeded(dec.total_read, overhead)
                                       THEN MALFORMED ELSE PARTIAL
  <2> HIDE DEF overhead
  <2> QED
    BY <1>7
<1>9. DropInv'
  <2>1. ret' \in Nat \cup {MALFORMED, PARTIAL}
    BY <1>2, <1>3, <1>8
  <2>2. TypeOK'
    BY <1>1, <1>2, <1>4, <1>6, <2>1 DEF DropInv, TypeOK
  <2> QED
    BY <1>1, <1>2, <1>4, <1>6, <2>2 DEF DropInv, CursorsOrdered, LocalsPublished
<1>10. Original!memmove(dst, src, Len(buf) - src)
  BY <1>1, <1>3, Moves DEF DropInv, Compacted
<1>11. /\ Label = IF err = "complete" THEN "Complete" ELSE "Exit"
       /\ Label' = "idle" /\ Answer' = ret'
       /\ Answer = IF err = "malformed" THEN MALFORMED ELSE PARTIAL
  BY <1>1 DEF Label, Answer
<1>12. /\ Struct.total_overhead = dec.total_overhead
       /\ Struct.total_read = dec.total_read
  BY <1>2, StructFields
<1>13. (Struct.total_overhead + Len(buf) - dst) % U64 = overhead
  <2>1. dec.total_overhead + Len(buf) - dst = dec.total_overhead + Framing
    BY <1>2, <1>3
  <2> QED
    BY <1>12, <2>1
<1>14. Struct' = [Struct EXCEPT !.total_overhead = counted]
  <2> HIDE DEF counted
  <2>1. Struct' = dec'
    BY <1>1, <1>6 DEF Struct, Decoders
  <2>2. [Struct EXCEPT !.total_overhead = counted]
        = [dec EXCEPT !.state = st, !.bytes_left = left,
             !.hex_count = hex, !.total_overhead = counted]
    BY <1>2 DEF Struct, Decoders
  <2> QED
    BY <1>1, <2>1, <2>2
<1> HIDE DEF overhead
<1>15. CASE err = "partial"
  <2>1. Label = "Exit" /\ Answer = Original!PARTIAL
    BY <1>11, <1>15, SameBytes
  <2>2. Struct' = [Struct EXCEPT !.total_overhead = overhead]
    BY <1>14, <1>15
  <2>3. Answer' = IF /\ overhead >= OverheadLimit
                     /\ (Struct.total_read - overhead) % U64
                          < Struct.total_read \div 4
                    THEN Original!MALFORMED ELSE Original!PARTIAL
    BY <1>8, <1>11, <1>12, <1>15, SameBytes DEF OverheadExceeded
  <2> QED
    BY <1>1, <1>9, <1>10, <1>11, <1>13, <2>1, <2>2, <2>3 DEF Original!Leave
<1>16. CASE err # "partial"
  <2> DEFINE answer == IF Label = "Complete" THEN Len(buf) - src ELSE Answer
  <2>1. answer = ret' /\ answer # Original!PARTIAL /\ Label \in {"Complete", "Exit"}
    BY <1>2, <1>3, <1>8, <1>11, <1>16, SameBytes DEF MALFORMED, PARTIAL
  <2>2. Struct' = Struct
    <3>1. counted = dec.total_overhead
      BY <1>16
    <3> QED
      BY <1>2, <1>14, <3>1 DEF Struct, Decoders
  <2> QED
    BY <1>1, <1>9, <1>10, <1>11, <2>1, <2>2 DEF Original!Leave
<1> QED
  BY <1>15, <1>16

-----------------------------------------------------------------------------
LEMMA DropInStep ==
  ASSUME DropInv, [Next]_vars
  PROVE  /\ DropInv'
         /\ [Original!Next \/ NullArgument \/ Corrupt]_(Original!vars)
<1>1. ASSUME NEW data \in Inputs, Enter(data)
      PROVE  DropInv' /\ Original!Next
  BY <1>1, EnterIsCall DEF Original!Next
<1>2. CASE Corrupt
  BY <1>2, CorruptKeeps
<1>3. CASE Step /\ ~Corrupt
  <2>1. DropInv' /\ (Original!Suspend \/ Original!Case)
    BY <1>3, OutOfBytesIsSuspend, SizeDigitIsChunkSize, SizeEndIsChunkSize,
       SizeRejectIsChunkSize, ExtByteIsChunkExt, BadLineBreakIsRefused,
       HeaderLFIsHeaderExpectLF, DataShortIsChunkData, DataFullIsChunkData,
       DataEndIsExpected, TrailLineIsTrailers, TrailEndIsTrailers
    DEF Step, Original!Case
  <2> QED
    BY <2>1 DEF Original!Next
<1>4. CASE Epilogue
  BY <1>4, EpilogueIsLeave DEF Original!Next
<1>5. CASE NullArgument
  BY <1>5, NullKeeps
<1>6. CASE UNCHANGED vars
  <2>1. UNCHANGED Original!vars
    BY <1>6 DEF vars, local, Original!vars, Struct, Label, Answer
  <2> QED
    BY <1>6, <2>1, NullKeeps
<1> QED
  BY <1>1, <1>2, <1>3, <1>4, <1>5, <1>6 DEF Next

(***************************************************************************)
(* The port stands in for the original from any struct: with any counts,   *)
(* in any state and outside all of them.                                   *)
(***************************************************************************)
THEOREM DropIn == ForgedSpec => ReplacesOracle
<1>1. DropInv /\ [Next]_vars => DropInv'
  BY DropInStep
<1>2. DropInv /\ [Next]_vars
        => [Original!Next \/ NullArgument \/ Corrupt]_(Original!vars)
  BY DropInStep
<1>3. ForgedSpec => []DropInv
  BY <1>1, InitDropInv, PTL DEF ForgedSpec
<1> QED
  BY <1>2, <1>3, PTL DEF ForgedSpec, ReplacesOracle

-----------------------------------------------------------------------------
(***************************************************************************)
(* A forged _state is never run: no call on it reaches the epilogue, and   *)
(* no struct inside the eight leaves them.                                 *)
(***************************************************************************)
ForgedInv ==
  /\ FailsClosed
  /\ dec.state \in States => st \in States
  /\ dec.state \notin States => st = dec.state /\ pc # "exit"

LEMMA InitForgedInv == ForgedInit => ForgedInv
<1> SUFFICES ASSUME NEW d \in Structs, InitWith(d)
             PROVE  ForgedInv
  BY DEF ForgedInit
<1>1. d \in Decoders
  BY StructsAssumption
<1>2. /\ dec = d /\ pc = "idle" /\ buf = << >> /\ input = << >>
      /\ ret = 0 /\ bufsz = 0 /\ st = d.state
  BY DEF InitWith
<1>3. dec = [d EXCEPT !.total_read = dec.total_read]
  BY <1>1, <1>2 DEF Decoders
<1> QED
  BY <1>2, <1>3 DEF ForgedInv, FailsClosed

LEMMA ForgedEnter ==
  ASSUME TypeOK, ForgedInv, NEW data \in Inputs, Enter(data)
  PROVE  ForgedInv'
<1>1. /\ dec \in Decoders
      /\ dec' = [dec EXCEPT !.total_read = Counted(data)]
      /\ buf' = data /\ input' = data /\ bufsz' = Len(data)
      /\ st' = dec.state /\ pc' = "loop" /\ ret' = ret
  BY DEF TypeOK, Enter
<1>2. dec'.state = dec.state /\ dec'.total_read = Counted(data)
  BY <1>1 DEF Decoders
<1>3. ASSUME dec.state \notin States
      PROVE  \E d \in Structs : dec' = [d EXCEPT !.total_read = dec'.total_read]
  <2>1. PICK d \in Structs : dec = [d EXCEPT !.total_read = dec.total_read]
    BY <1>3 DEF ForgedInv, FailsClosed
  <2>2. d \in Decoders
    BY StructsAssumption
  <2>3. dec' = [d EXCEPT !.total_read = Counted(data)]
    <3>1. ASSUME NEW m, NEW n
          PROVE  [[d EXCEPT !.total_read = m] EXCEPT !.total_read = n]
                 = [d EXCEPT !.total_read = n]
      BY <2>2 DEF Decoders
    <3> QED
      BY <1>1, <2>1, <3>1
  <2> QED
    BY <1>2, <2>3
<1> QED
  BY <1>1, <1>2, <1>3 DEF ForgedInv, FailsClosed

(* A step of the loop other than the panic is taken from one of the eight. *)
LEMMA ForgedLoop ==
  ASSUME ForgedInv, Step, ~Corrupt
  PROVE  ForgedInv'
<1>1. dec' = dec /\ st \in States /\ st' \in States
  BY DEF Step, OutOfBytes, Exhausted, SizeDigit, SizeEnd, SizeReject, ExtByte,
     HeaderLF, DataShort, DataFull, DataEnd, TrailLine, TrailEnd, BadLineBreak,
     At, SkipTo, Frame, TakeData, States, ST_SIZE, ST_EXT, ST_EXPECT_LF,
     ST_DATA, ST_DATA_CR, ST_DATA_LF, ST_TRAIL_HEAD, ST_TRAIL_MID
<1> QED
  BY <1>1 DEF ForgedInv, FailsClosed

LEMMA ForgedStep ==
  ASSUME TypeOK, ForgedInv, [Next]_vars
  PROVE  ForgedInv'
<1>1. ASSUME NEW data \in Inputs, Enter(data)
      PROVE  ForgedInv'
  BY <1>1, ForgedEnter
<1>2. CASE Corrupt \/ NullArgument \/ UNCHANGED vars
  <2>1. /\ ret' \in {ret, MALFORMED} /\ pc' \in {"idle", pc}
        /\ dec' = dec /\ buf' = buf /\ input' = input /\ bufsz' = bufsz
        /\ st' = st
    BY <1>2 DEF Corrupt, NullArgument, vars, local
  <2> QED
    BY <2>1 DEF ForgedInv, FailsClosed
<1>3. CASE Step /\ ~Corrupt
  BY <1>3, ForgedLoop
<1>4. CASE Epilogue
  <2>1. dec'.state = st /\ st' = st /\ st \in States
    BY <1>4, Published DEF TypeOK, Epilogue, local, ForgedInv
  <2> QED
    BY <2>1 DEF ForgedInv, FailsClosed
<1> QED
  BY <1>1, <1>2, <1>3, <1>4 DEF Next

(* Every forged struct fails closed, and stays as it was forged. *)
THEOREM ForgedFailsClosed == ForgedSpec => []FailsClosed
<1>1. DropInv /\ [Next]_vars => DropInv'
  BY DropInStep
<1>2. ForgedSpec => []DropInv
  BY <1>1, InitDropInv, PTL DEF ForgedSpec
<1>3. DropInv => TypeOK
  BY DEF DropInv
<1>4. TypeOK /\ ForgedInv /\ [Next]_vars => ForgedInv'
  BY ForgedStep
<1>5. ForgedInv => FailsClosed
  BY DEF ForgedInv
<1> QED
  BY <1>2, <1>3, <1>4, <1>5, InitForgedInv, PTL DEF ForgedSpec
=============================================================================
