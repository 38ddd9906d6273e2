--------------------------- MODULE ChunkedDecoder ---------------------------
(***************************************************************************)
(* phr_decode_chunked: the in-place decoder of the chunked transfer        *)
(* coding, driven by a caller that may call it any number of times, with   *)
(* any bytes, also after it reported completion or an error.               *)
(*                                                                         *)
(* A call enters (Enter), runs the state machine of the code over the      *)
(* bytes of its buffer (one action per branch of the dispatch loop), and   *)
(* leaves through the single epilogue (Epilogue), which publishes the      *)
(* carried state.  The caller's struct is dec; st, left and hex are the    *)
(* locals the hot loop works on.                                           *)
(*                                                                         *)
(* A definition named Bug... is one of those after it with a plausible     *)
(* mistake: no specification uses it; the property it breaks is in         *)
(* PROJECT.json under "mutants".                                           *)
(***************************************************************************)
EXTENDS PicoBytes

CONSTANTS
  HexMax,        \* digits of a chunk size: 2 * size_of::<usize>(), 16
  Pow16,         \* Pow16[i] = 16^i, the number of sizes of i digits
  U64,           \* 2^64, the modulus of the two counters
  OverheadLimit, \* framing bytes tolerated unconditionally: 100 * 1024
  Inputs,        \* the buffers a caller may pass
  MaxRead        \* bound: bytes a decoder is fed in its life

ASSUME SizeAssumption ==
  /\ HexMax \in 1 .. 127
  /\ Pow16 \in [0 .. HexMax -> Nat]
  /\ Pow16[0] = 1
  /\ \A i \in 0 .. HexMax - 1 : Pow16[i + 1] = 16 * Pow16[i]
  /\ \A i \in 0 .. HexMax : Pow16[i] <= Pow16[HexMax]

ASSUME CounterAssumption ==
  /\ U64 \in Nat \ {0}
  /\ MaxRead \in Nat
  /\ MaxRead < U64
  /\ OverheadLimit \in Nat

ASSUME InputAssumption == Inputs \subseteq Seq(Byte)

(* The values of the decoder's _state. *)
ST_SIZE       == 0
ST_EXT        == 1
ST_EXPECT_LF  == 2
ST_DATA       == 3
ST_DATA_CR    == 4
ST_DATA_LF    == 5
ST_TRAIL_HEAD == 6
ST_TRAIL_MID  == 7

States  == ST_SIZE .. ST_TRAIL_MID
Trailer == {ST_TRAIL_HEAD, ST_TRAIL_MID}

(* usize::MAX + 1: a size of HexMax digits is the largest usize. *)
Usize == Pow16[HexMax]

VARIABLES
  dec,   \* the caller's phr_chunked_decoder
  pc,    \* "idle" between calls, "loop" in the state machine, "exit" at its end
  buf,   \* the caller's buffer, rewritten in place
  input, \* history: the buffer as it was when the call began
  src,   \* read offset of the running call
  dst,   \* write offset of the running call
  st, left, hex,  \* the locals for _state, bytes_left_in_chunk, _hex_count
  err,   \* the outcome the call leaves the loop with
  ret,   \* the value returned by the last call, or by none yet
  bufsz  \* the caller's *bufsz

local == <<src, dst, st, left, hex, err>>
vars  == <<dec, pc, buf, input, local, ret, bufsz>>

(***************************************************************************)
(* A decoder is zero-filled before its first use, trailer mode apart.      *)
(***************************************************************************)
Fresh(trailer) ==
  [state |-> ST_SIZE, bytes_left |-> 0, hex_count |-> 0,
   consume_trailer |-> trailer, total_read |-> 0, total_overhead |-> 0]

InitWith(d) ==
  /\ dec = d
  /\ pc = "idle"
  /\ buf = << >> /\ input = << >>
  /\ src = 0 /\ dst = 0
  /\ st = d.state /\ left = d.bytes_left /\ hex = d.hex_count
  /\ err = "none"
  /\ ret = 0 /\ bufsz = 0

Init == \E trailer \in BOOLEAN : InitWith(Fresh(trailer))

(***************************************************************************)
(* Entering and leaving a call.                                            *)
(***************************************************************************)
BugUncounted(data) == dec.total_read
Counted(data) == (dec.total_read + Len(data)) % U64

Enter(data) ==
  /\ pc = "idle"
  /\ dec.total_read + Len(data) <= MaxRead
  /\ dec' = [dec EXCEPT !.total_read = Counted(data)]
  /\ buf' = data /\ input' = data /\ bufsz' = Len(data)
  /\ src' = 0 /\ dst' = 0
  /\ st' = dec.state /\ left' = dec.bytes_left /\ hex' = dec.hex_count
  /\ err' = "none"
  /\ pc' = "loop"
  /\ UNCHANGED ret

(* A null argument fails closed before anything is read or written. *)
NullArgument ==
  /\ pc = "idle"
  /\ ret' = MALFORMED
  /\ UNCHANGED <<dec, pc, buf, input, local, bufsz>>

(***************************************************************************)
(* The framing-overhead rule: at least OverheadLimit bytes of framing on   *)
(* incomplete calls, and data below a quarter of what was read.            *)
(***************************************************************************)
BugLimitExclusive(read, overhead) ==
  /\ overhead > OverheadLimit
  /\ (read - overhead) % U64 < read \div 4

OverheadExceeded(read, overhead) ==
  /\ overhead >= OverheadLimit
  /\ (read - overhead) % U64 < read \div 4

(* What a call that runs out of bytes adds to the framing read. *)
BugWholeBuffer == Len(buf)
Framing == Len(buf) - dst

(* The bytes not read move down to where the decoded ones end. *)
BugLastByteLeft == copy_within(buf, src, Len(buf) - src - 1, dst)
Compacted == copy_within(buf, src, Len(buf) - src, dst)

Epilogue ==
  LET overhead == (dec.total_overhead + Framing) % U64 IN
  /\ pc = "exit"
  /\ dec' = [dec EXCEPT !.state = st, !.bytes_left = left, !.hex_count = hex,
               !.total_overhead = IF err = "partial" THEN overhead ELSE @]
  /\ buf' = Compacted
  /\ bufsz' = dst
  /\ ret' = CASE err = "complete"  -> Len(buf) - src
              [] err = "malformed" -> MALFORMED
              [] err = "partial"   ->
                   IF OverheadExceeded(dec.total_read, overhead)
                     THEN MALFORMED ELSE PARTIAL
  /\ pc' = "idle"
  /\ UNCHANGED <<input, local>>

(***************************************************************************)
(* The dispatch loop.  At(s) says the loop is in state s with a byte to    *)
(* read; the byte is Current.                                              *)
(***************************************************************************)
Current == buf[src + 1]

At(s) == pc = "loop" /\ st = s /\ src < Len(buf)

Frame == UNCHANGED <<dec, buf, input, ret, bufsz>>

Break(outcome) ==
  /\ err' = outcome
  /\ pc' = "exit"

(* Consume the current byte, which produces no data, and go on in state s. *)
BugNoAdvance(s) ==
  /\ src' = src
  /\ st' = s
  /\ UNCHANGED <<pc, dst, err>>

SkipTo(s) ==
  /\ src' = src + 1
  /\ st' = s
  /\ UNCHANGED <<pc, dst, err>>

(***************************************************************************)
(* `if src == bufsz`: every state but ST_DATA suspends the call when the   *)
(* bytes run out.                                                          *)
(***************************************************************************)
BugOneByteEarly == st \in States \ {ST_DATA} /\ src >= Len(buf) - 1
BugStateForgotten == st \in States \ {ST_DATA, ST_TRAIL_MID} /\ src = Len(buf)
Exhausted == st \in States \ {ST_DATA} /\ src = Len(buf)

OutOfBytes ==
  /\ pc = "loop"
  /\ Exhausted
  /\ Break("partial")
  /\ Frame /\ UNCHANGED <<src, dst, st, left, hex>>

(***************************************************************************)
(* The size line.                                                          *)
(***************************************************************************)
BugNoDigitLimit == TRUE
DigitFits == hex # HexMax

SizeDigit ==
  /\ At(ST_SIZE)
  /\ Current \in HexDigits
  /\ DigitFits
  /\ left' = (left * 16 + hex_val(Current)) % Usize
  /\ hex' = hex + 1
  /\ SkipTo(ST_SIZE)
  /\ Frame

(* The terminator is not consumed: the extension scan looks at it again. *)
BugCountNotReset ==
  /\ At(ST_SIZE)
  /\ Current \in SizeTerminators
  /\ hex # 0
  /\ st' = ST_EXT
  /\ Frame /\ UNCHANGED <<pc, src, dst, left, hex, err>>

SizeEnd ==
  /\ At(ST_SIZE)
  /\ Current \in SizeTerminators
  /\ hex # 0
  /\ hex' = 0
  /\ st' = ST_EXT
  /\ Frame /\ UNCHANGED <<pc, src, dst, left, err>>

SizeReject ==
  /\ At(ST_SIZE)
  /\ \/ Current \in HexDigits /\ ~DigitFits
     \/ Current \notin HexDigits /\ hex = 0
     \/ Current \notin HexDigits \cup SizeTerminators
  /\ Break("malformed")
  /\ Frame /\ UNCHANGED <<src, dst, st, left, hex>>

ExtByte ==
  /\ At(ST_EXT)
  /\ Current # LF
  /\ SkipTo(IF Current = CR THEN ST_EXPECT_LF ELSE ST_EXT)
  /\ Frame /\ UNCHANGED <<left, hex>>

(* The LF that ends a size line: data, trailers or the end of the body. *)
HeaderLF ==
  /\ At(ST_EXPECT_LF)
  /\ Current = LF
  /\ src' = src + 1
  /\ \/ /\ left # 0
        /\ st' = ST_DATA
        /\ UNCHANGED <<pc, err>>
     \/ /\ left = 0 /\ dec.consume_trailer
        /\ st' = ST_TRAIL_HEAD
        /\ UNCHANGED <<pc, err>>
     \/ /\ left = 0 /\ ~dec.consume_trailer
        /\ Break("complete")
        /\ UNCHANGED st
  /\ Frame /\ UNCHANGED <<dst, left, hex>>

(***************************************************************************)
(* Chunk data: what is available is moved down to dst.  A call that does   *)
(* not hold the rest of the chunk banks what it has and suspends.          *)
(***************************************************************************)
BugNotMoved(n) ==
  /\ src' = src + n
  /\ dst' = dst + n
  /\ left' = left - n
  /\ UNCHANGED <<dec, buf, input, ret, bufsz, hex>>

BugCountsChunk(n) ==
  /\ buf' = copy_within(buf, src, n, dst)
  /\ src' = src + n
  /\ dst' = dst + left
  /\ left' = left - n
  /\ UNCHANGED <<dec, input, ret, bufsz, hex>>

TakeData(n) ==
  /\ buf' = copy_within(buf, src, n, dst)
  /\ src' = src + n
  /\ dst' = dst + n
  /\ left' = left - n
  /\ UNCHANGED <<dec, input, ret, bufsz, hex>>

BugFitsStrictly == Len(buf) - src > left
ChunkFits == Len(buf) - src >= left

DataShort ==
  /\ pc = "loop" /\ st = ST_DATA
  /\ ~ChunkFits
  /\ TakeData(Len(buf) - src)
  /\ Break("partial")
  /\ UNCHANGED st

DataFull ==
  /\ pc = "loop" /\ st = ST_DATA
  /\ ChunkFits
  /\ TakeData(left)
  /\ st' = ST_DATA_CR
  /\ UNCHANGED <<pc, err>>

DataEnd ==
  /\ \/ At(ST_DATA_CR) /\ Current = CR /\ SkipTo(ST_DATA_LF)
     \/ At(ST_DATA_LF) /\ Current = LF /\ SkipTo(ST_SIZE)
  /\ Frame /\ UNCHANGED <<left, hex>>

(***************************************************************************)
(* Trailer lines: a line of CRs and an LF ends the body, any other runs to *)
(* its LF.                                                                 *)
(***************************************************************************)
BugNextState ==
  /\ \/ At(ST_TRAIL_HEAD) /\ Current = CR /\ SkipTo(ST_TRAIL_HEAD)
     \/ At(ST_TRAIL_HEAD) /\ Current \notin {CR, LF} /\ SkipTo(ST_TRAIL_MID)
     \/ At(ST_TRAIL_MID) /\ Current # LF /\ SkipTo(ST_TRAIL_MID)
     \/ At(ST_TRAIL_MID) /\ Current = LF /\ SkipTo(ST_TRAIL_MID + 1)
  /\ Frame /\ UNCHANGED <<left, hex>>

TrailLine ==
  /\ \/ At(ST_TRAIL_HEAD) /\ Current = CR /\ SkipTo(ST_TRAIL_HEAD)
     \/ At(ST_TRAIL_HEAD) /\ Current \notin {CR, LF} /\ SkipTo(ST_TRAIL_MID)
     \/ At(ST_TRAIL_MID) /\ Current # LF /\ SkipTo(ST_TRAIL_MID)
     \/ At(ST_TRAIL_MID) /\ Current = LF /\ SkipTo(ST_TRAIL_HEAD)
  /\ Frame /\ UNCHANGED <<left, hex>>

TrailEnd ==
  /\ At(ST_TRAIL_HEAD)
  /\ Current = LF
  /\ src' = src + 1
  /\ Break("complete")
  /\ Frame /\ UNCHANGED <<dst, st, left, hex>>

(* A line break that is not where, or not what, the framing requires. *)
BadLineBreak ==
  /\ \/ At(ST_EXT) /\ Current = LF
     \/ At(ST_EXPECT_LF) /\ Current # LF
     \/ At(ST_DATA_CR) /\ Current # CR
     \/ At(ST_DATA_LF) /\ Current # LF
  /\ Break("malformed")
  /\ Frame /\ UNCHANGED <<src, dst, st, left, hex>>

(***************************************************************************)
(* unreachable!(): a _state the machine never writes.  The panic skips the *)
(* epilogue and the assignment of *bufsz, and the guard of the C entry     *)
(* point turns it into an error.                                           *)
(***************************************************************************)
BugCorruptExits ==
  /\ pc = "loop"
  /\ st \notin States
  /\ Break("malformed")
  /\ Frame /\ UNCHANGED <<src, dst, st, left, hex>>

Corrupt ==
  /\ pc = "loop"
  /\ st \notin States
  /\ ret' = MALFORMED
  /\ pc' = "idle"
  /\ UNCHANGED <<dec, buf, input, local, bufsz>>

Step ==
  \/ OutOfBytes
  \/ SizeDigit \/ SizeEnd \/ SizeReject
  \/ ExtByte \/ HeaderLF
  \/ DataShort \/ DataFull \/ DataEnd
  \/ TrailLine \/ TrailEnd
  \/ BadLineBreak
  \/ Corrupt

Next ==
  \/ \E data \in Inputs : Enter(data)
  \/ NullArgument
  \/ Step
  \/ Epilogue

Spec == Init /\ [][Next]_vars

(***************************************************************************)
(* A call runs on the caller's thread and waits for nothing: once entered  *)
(* it keeps taking steps.                                                  *)
(***************************************************************************)
FairSpec == Spec /\ WF_vars(Step \/ Epilogue)

(* phr_decode_chunked_is_in_data, asked of the caller's struct. *)
is_in_data(d) == d.state = ST_DATA

-----------------------------------------------------------------------------
(***************************************************************************)
(* The variables have their types.                                         *)
(***************************************************************************)
Decoders ==
  [state : -128 .. 127, bytes_left : 0 .. Usize - 1, hex_count : 0 .. HexMax,
   consume_trailer : BOOLEAN, total_read : 0 .. MaxRead,
   total_overhead : 0 .. U64 - 1]

TypeOK ==
  /\ dec \in Decoders
  /\ pc \in {"idle", "loop", "exit"}
  /\ buf \in Seq(Byte) /\ input \in Seq(Byte)
  /\ src \in Nat /\ dst \in Nat
  /\ st \in -128 .. 127 /\ left \in 0 .. Usize - 1 /\ hex \in 0 .. HexMax
  /\ err \in {"none", "complete", "partial", "malformed"}
  /\ pc = "loop" => err = "none"
  /\ pc = "exit" => err # "none"
  /\ ret \in Nat \cup {MALFORMED, PARTIAL}
  /\ bufsz \in Nat

(***************************************************************************)
(* The bytes a call has not read yet are the caller's, untouched: however  *)
(* chunk data is moved down in the buffer, the write never passes the read *)
(* offset, and neither passes the end (the ranges of copy_within).         *)
(***************************************************************************)
CursorsOrdered ==
  /\ dst <= src /\ src <= Len(buf)
  /\ Len(buf) = Len(input)

UnreadIntact ==
  /\ CursorsOrdered
  /\ pc # "idle" => \A i \in src + 1 .. Len(buf) : buf[i] = input[i]

(***************************************************************************)
(* No sequence of calls, whatever their bytes and whatever they returned,  *)
(* reaches the panic of the dispatch loop, in this call or in a later one. *)
(***************************************************************************)
NeverCorrupt == st \in States /\ dec.state \in States

(***************************************************************************)
(* State, chunk size and digit count agree, in the locals and in what a    *)
(* call leaves behind for the next: a size of h digits is below 16^h, data *)
(* is owed in ST_DATA, none is owed past it.                               *)
(***************************************************************************)
SizeMatchesState(s, owed, digits) ==
  /\ IF s = ST_SIZE THEN owed < Pow16[digits] ELSE digits = 0
  /\ s = ST_DATA => owed > 0
  /\ s \in {ST_DATA_CR, ST_DATA_LF} \cup Trailer => owed = 0
  /\ s \in Trailer => dec.consume_trailer

CarriedStateConsistent ==
  /\ SizeMatchesState(st, left, hex)
  /\ SizeMatchesState(dec.state, dec.bytes_left, dec.hex_count)

(***************************************************************************)
(* "The multiply below can never overflow": a digit always makes the size  *)
(* the number the digits denote, the gate on their count being enough.     *)
(***************************************************************************)
DigitKeepsSize == left' = left * 16 + hex_val(Current)
SizeNeverWraps == [][SizeDigit => DigitKeepsSize]_vars

(***************************************************************************)
(* A call that asks for more bytes has read all of those it was given, so  *)
(* the caller may drop them ("each call supplies only newly arrived        *)
(* bytes").                                                                *)
(***************************************************************************)
DrainedBeforePartial ==
  /\ err = "partial" => src = Len(buf)
  /\ pc = "idle" /\ ret = PARTIAL => src = Len(buf) /\ bufsz = dst

(***************************************************************************)
(* The counters of the overhead rule: framing never exceeds what was read, *)
(* so the wrapping_sub of the rule gives the data delivered.  In a call    *)
(* its buffer is counted as read, and no framing yet.                      *)
(***************************************************************************)
OverheadWithinRead ==
  dec.total_overhead + (IF pc = "idle" THEN 0 ELSE Len(buf)) <= dec.total_read

(***************************************************************************)
(* "A non-negative number indicating the number of octets left undecoded,  *)
(* that starts from the offset returned by *bufsz": after a completed call *)
(* those octets are the last ones of the input, in order.                  *)
(***************************************************************************)
LeftoverIntact ==
  pc = "idle" /\ ret >= 0 =>
    /\ bufsz + ret <= Len(buf)
    /\ \A i \in 1 .. ret : buf[bufsz + i] = input[Len(input) - ret + i]

(***************************************************************************)
(* Every call returns: no state of the loop goes round without consuming   *)
(* a byte or moving on.                                                    *)
(***************************************************************************)
CallReturns == pc = "loop" ~> pc = "idle"
=============================================================================
