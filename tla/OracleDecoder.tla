--------------------------- MODULE OracleDecoder ---------------------------
(***************************************************************************)
(* The C original of the chunked decoder (reference/picohttpparser.c), the *)
(* oracle the port is compared with.  It works on the caller's struct      *)
(* directly, and leaves the switch through one of two labels, Complete and *)
(* Exit.  The constants are those of ChunkedDecoder.                       *)
(***************************************************************************)
EXTENDS PicoBytes

CONSTANTS HexMax, Pow16, U64, OverheadLimit, Inputs, MaxRead

CHUNKED_IN_CHUNK_SIZE             == 0
CHUNKED_IN_CHUNK_EXT              == 1
CHUNKED_IN_CHUNK_HEADER_EXPECT_LF == 2
CHUNKED_IN_CHUNK_DATA             == 3
CHUNKED_IN_CHUNK_DATA_EXPECT_CR   == 4
CHUNKED_IN_CHUNK_DATA_EXPECT_LF   == 5
CHUNKED_IN_TRAILERS_LINE_HEAD     == 6
CHUNKED_IN_TRAILERS_LINE_MIDDLE   == 7

VARIABLES
  decoder, \* the caller's struct
  at,      \* "idle" between calls, "switch", or the label the call jumped to
  buf, src, dst,
  ret,     \* the local of a running call, the answer of one that returned
  bufsz    \* the caller's *_bufsz

vars == <<decoder, at, buf, src, dst, ret, bufsz>>

Call(data) ==
  /\ at = "idle" /\ at' = "switch"
  /\ buf' = data /\ bufsz' = Len(data)
  /\ decoder.total_read + Len(data) <= MaxRead
  /\ decoder' = [decoder EXCEPT !.total_read = (@ + Len(data)) % U64]
  /\ src' = 0 /\ dst' = 0
  /\ ret' = PARTIAL

(***************************************************************************)
(* In(s): the switch is in case s, with a byte to read, which is Here.  A  *)
(* case that does not break falls through to the next one, as the state it *)
(* sets says.                                                              *)
(***************************************************************************)
Here  == buf[src + 1]
In(s) == at = "switch" /\ decoder.state = s /\ src < Len(buf)

Goto(label) == at' = label /\ UNCHANGED <<buf, dst, bufsz>>

Refuse ==
  /\ ret' = MALFORMED
  /\ Goto("Exit") /\ UNCHANGED <<decoder, src>>

(* ++src, on to the case of state s *)
Advance(s) ==
  /\ src' = src + 1
  /\ decoder' = [decoder EXCEPT !.state = s]
  /\ Goto("switch") /\ UNCHANGED ret

(* if (src == bufsz) goto Exit, in every case but that of the chunk data *)
Suspend ==
  /\ at = "switch" /\ src = Len(buf)
  /\ decoder.state \in CHUNKED_IN_CHUNK_SIZE .. CHUNKED_IN_TRAILERS_LINE_MIDDLE
  /\ decoder.state # CHUNKED_IN_CHUNK_DATA
  /\ Goto("Exit") /\ UNCHANGED <<decoder, src, ret>>

decode_hex(ch) == IF ch \in HexDigits THEN hex_val(ch) ELSE -1

ChunkSize ==
  /\ In(CHUNKED_IN_CHUNK_SIZE)
  /\ \/ /\ decode_hex(Here) # -1 /\ decoder.hex_count # HexMax
        /\ src' = src + 1
        /\ decoder' = [decoder EXCEPT !.hex_count = @ + 1,
             !.bytes_left = (@ * 16 + decode_hex(Here)) % Pow16[HexMax]]
        /\ Goto("switch") /\ UNCHANGED ret
     \/ /\ decode_hex(Here) = -1 /\ decoder.hex_count # 0
        /\ Here \in SizeTerminators
        /\ decoder' = [decoder EXCEPT !.hex_count = 0,
                                      !.state = CHUNKED_IN_CHUNK_EXT]
        /\ Goto("switch") /\ UNCHANGED <<src, ret>>
     \/ /\ IF decode_hex(Here) = -1
             THEN decoder.hex_count = 0 \/ Here \notin SizeTerminators
             ELSE decoder.hex_count = HexMax
        /\ Refuse

ChunkExt ==
  /\ In(CHUNKED_IN_CHUNK_EXT)
  /\ \/ Here = CR /\ Advance(CHUNKED_IN_CHUNK_HEADER_EXPECT_LF)
     \/ Here = LF /\ Refuse
     \/ Here \notin {CR, LF} /\ Advance(CHUNKED_IN_CHUNK_EXT)

HeaderExpectLF ==
  /\ In(CHUNKED_IN_CHUNK_HEADER_EXPECT_LF)
  /\ \/ Here # LF /\ Refuse
     \/ /\ Here = LF /\ decoder.bytes_left # 0
        /\ Advance(CHUNKED_IN_CHUNK_DATA)
     \/ /\ Here = LF /\ decoder.bytes_left = 0 /\ decoder.consume_trailer
        /\ Advance(CHUNKED_IN_TRAILERS_LINE_HEAD)
     \/ /\ Here = LF /\ decoder.bytes_left = 0 /\ ~decoder.consume_trailer
        /\ src' = src + 1
        /\ Goto("Complete") /\ UNCHANGED <<decoder, ret>>

memmove(to, from, n) ==
  buf' = IF to # from THEN copy_within(buf, from, n, to) ELSE buf

ChunkData ==
  LET avail == Len(buf) - src
      Take(n, s) == /\ memmove(dst, src, n)
                    /\ src' = src + n /\ dst' = dst + n
                    /\ decoder' = [decoder EXCEPT !.state = s, !.bytes_left = @ - n]
  IN
  /\ at = "switch" /\ decoder.state = CHUNKED_IN_CHUNK_DATA
  /\ IF avail < decoder.bytes_left
       THEN Take(avail, CHUNKED_IN_CHUNK_DATA) /\ at' = "Exit"
       ELSE Take(decoder.bytes_left, CHUNKED_IN_CHUNK_DATA_EXPECT_CR) /\ at' = at
  /\ UNCHANGED <<ret, bufsz>>

DataExpectCR ==
  /\ In(CHUNKED_IN_CHUNK_DATA_EXPECT_CR)
  /\ IF Here = CR THEN Advance(CHUNKED_IN_CHUNK_DATA_EXPECT_LF) ELSE Refuse

DataExpectLF ==
  /\ In(CHUNKED_IN_CHUNK_DATA_EXPECT_LF)
  /\ IF Here = LF THEN Advance(CHUNKED_IN_CHUNK_SIZE) ELSE Refuse

TrailersLineHead ==
  /\ In(CHUNKED_IN_TRAILERS_LINE_HEAD)
  /\ \/ Here = CR /\ Advance(CHUNKED_IN_TRAILERS_LINE_HEAD)
     \/ Here = LF /\ src' = src + 1 /\ Goto("Complete") /\ UNCHANGED <<decoder, ret>>
     \/ Here \notin {CR, LF} /\ Advance(CHUNKED_IN_TRAILERS_LINE_MIDDLE)

TrailersLineMiddle ==
  /\ In(CHUNKED_IN_TRAILERS_LINE_MIDDLE)
  /\ Advance(IF Here = LF THEN CHUNKED_IN_TRAILERS_LINE_HEAD
                          ELSE CHUNKED_IN_TRAILERS_LINE_MIDDLE)

(* default: the assertion of the original stops the process. *)
AssertFails ==
  /\ at = "switch"
  /\ decoder.state \notin CHUNKED_IN_CHUNK_SIZE .. CHUNKED_IN_TRAILERS_LINE_MIDDLE
  /\ Goto("abort") /\ UNCHANGED <<decoder, src, ret>>

(***************************************************************************)
(* Complete falls into Exit: the bytes not decoded move down, and a call   *)
(* that stays incomplete is charged for its framing.                       *)
(***************************************************************************)
Leave ==
  LET answer   == IF at = "Complete" THEN Len(buf) - src ELSE ret
      overhead == (decoder.total_overhead + Len(buf) - dst) % U64
  IN
  /\ at \in {"Complete", "Exit"} /\ at' = "idle"
  /\ memmove(dst, src, Len(buf) - src)
  /\ bufsz' = dst
  /\ IF answer = PARTIAL
       THEN /\ decoder' = [decoder EXCEPT !.total_overhead = overhead]
            /\ ret' = IF /\ overhead >= OverheadLimit
                         /\ (decoder.total_read - overhead) % U64
                              < decoder.total_read \div 4
                        THEN MALFORMED ELSE PARTIAL
       ELSE decoder' = decoder /\ ret' = answer
  /\ UNCHANGED <<src, dst>>

Case ==
  \/ ChunkSize \/ ChunkExt \/ HeaderExpectLF
  \/ ChunkData \/ DataExpectCR \/ DataExpectLF
  \/ TrailersLineHead \/ TrailersLineMiddle

Next ==
  \/ \E data \in Inputs : Call(data)
  \/ Suspend \/ Case \/ AssertFails
  \/ Leave
=============================================================================
