-------------------------- MODULE ChunkedReference --------------------------
(***************************************************************************)
(* The chunked coding as a grammar, read off a whole stream at once, and   *)
(* the agreement of the decoder with it: what a caller has after any       *)
(* number of calls depends on the bytes that arrived and on nothing else.  *)
(* The framing-overhead rule is not part of the coding.                    *)
(***************************************************************************)
EXTENDS ChunkedSession, FiniteSetsExt

(* Index of the first byte of S in f from index at on, past the end if none. *)
First(f, at, S) == Min({i \in at .. Len(f) : f[i] \in S} \cup {Len(f) + 1})

(* Whether a CR LF stands at index at: it does, it may yet, or it cannot. *)
BreakAt(f, at) ==
  IF \E i \in 1 .. 2 : at + i - 1 <= Len(f) /\ f[at + i - 1] # CRLF[i] THEN "wrong"
  ELSE IF at < Len(f) THEN "there" ELSE "unknown"

Number(digits) ==
  LET value[i \in 0 .. Len(digits)] ==
        IF i = 0 THEN 0 ELSE 16 * value[i - 1] + hex_val(digits[i])
  IN value[Len(digits)]

(***************************************************************************)
(* What bytes say: the verdict on them, the body they carry, the index     *)
(* where the body's encoding ends, and what the open chunk owes.           *)
(***************************************************************************)
Says(verdictOn, bodyOf, end, owed) ==
  [verdict |-> verdictOn, body |-> bodyOf, end |-> end, owed |-> owed]

More(got)   == Says("more", got, 0, 0)
Failed(got) == Says("failed", got, 0, 0)

(* What is said of data and the bytes that follow it. *)
Then(data, rest) == Says(rest.verdict, data \o rest.body, rest.end, rest.owed)

(* The trailer lines from index at on end at a line of CRs and an LF. *)
EndsTrailers(f, at, e) ==
  /\ f[e] = LF
  /\ \E b \in at .. e : (b = at \/ f[b - 1] = LF) /\ \A i \in b .. e - 1 : f[i] = CR

Trailers(f, at) ==
  LET ends == {e \in at .. Len(f) : EndsTrailers(f, at, e)}
  IN IF ends = {} THEN More(<< >>) ELSE Says("complete", << >>, Min(ends), 0)

(* The line of a chunk that begins at index at: its digits, and its break. *)
DigitsEnd(f, at)  == First(f, at, Byte \ HexDigits)
SizeDigits(f, at) == SubSeq(f, at, DigitsEnd(f, at) - 1)
LineEnd(f, at)    == First(f, DigitsEnd(f, at), {CR, LF})

BadSize(f, at) ==
  \/ Len(SizeDigits(f, at)) > HexMax
  \/ /\ DigitsEnd(f, at) <= Len(f)
     /\ SizeDigits(f, at) = << >> \/ f[DigitsEnd(f, at)] \notin SizeTerminators

(* The bytes from index at on, the start of a chunk; next[i], those from i. *)
Chunk(f, at, trailers, next) ==
  LET lineEnd == LineEnd(f, at)
      size    == Number(SizeDigits(f, at))
      after   == lineEnd + 2 + size
      data    == SubSeq(f, lineEnd + 2, Min({after - 1, Len(f)}))
  IN IF BadSize(f, at) \/ BreakAt(f, lineEnd) = "wrong" THEN Failed(<< >>)
     ELSE IF BreakAt(f, lineEnd) = "unknown" THEN More(<< >>)
     ELSE IF size = 0
       THEN IF trailers THEN Trailers(f, lineEnd + 2)
            ELSE Says("complete", << >>, lineEnd + 1, 0)
     ELSE IF Len(data) < size
       THEN Says("more", data, 0, size - Len(data))
     ELSE CASE BreakAt(f, after) = "wrong"   -> Failed(data)
            [] BreakAt(f, after) = "unknown" -> More(data)
            [] BreakAt(f, after) = "there"   -> Then(data, next[after + 2])

Reading(f, trailers) ==
  LET from[at \in 1 .. Len(f) + 1] == Chunk(f, at, trailers, from) IN from

Meaning(f) == Reading(f, dec.consume_trailer)[1]
Arrived    == SubSeq(stream, 1, fed)

(***************************************************************************)
(* Between two calls the caller has the verdict and the body of the bytes  *)
(* that arrived, and after the last one the octets that follow them, for   *)
(* every way of cutting the stream into calls.                             *)
(***************************************************************************)
DecodesTheCoding ==
  pc = "idle" =>
    LET m == Meaning(Arrived) IN
    /\ verdict = m.verdict
    /\ body = m.body
    /\ verdict = "complete" => fed - ret = m.end

(***************************************************************************)
(* "Returns if the chunked decoder is in middle of chunked data": exactly  *)
(* when the bytes that arrived leave data of an announced chunk to come.   *)
(***************************************************************************)
InDataExact ==
  pc = "idle" /\ verdict = "more" =>
    LET m == Meaning(Arrived) IN
    /\ is_in_data(dec) <=> m.owed > 0
    /\ is_in_data(dec) => dec.bytes_left = m.owed

(***************************************************************************)
(* "Malformed: input can never become valid no matter how it is extended": *)
(* a stream that carries a whole body is never rejected on the way.        *)
(***************************************************************************)
MalformedIsFinal ==
  verdict = "failed" => Meaning(stream).verdict # "complete"
=============================================================================
