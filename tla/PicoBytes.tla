----------------------------- MODULE PicoBytes -----------------------------
(***************************************************************************)
(* Bytes and the byte classes the parsers branch on.  A byte is its value, *)
(* 0 .. 255, and a buffer is a sequence of bytes: buffer offset p of the   *)
(* code (counted from 0) is index p + 1 of the sequence.                   *)
(***************************************************************************)
EXTENDS Integers, Sequences

Byte == 0 .. 255

HT    == 9
LF    == 10
CR    == 13
SP    == 32
COLON == 58
SEMI  == 59

CRLF == <<CR, LF>>

(* The values an entry point returns for an error. *)
MALFORMED == -1
PARTIAL   == -2

(***************************************************************************)
(* The digits of a chunk size, and the value of one.  The code's hex_val   *)
(* is None exactly on the bytes that are not HexDigits.                    *)
(***************************************************************************)
HexDigits == (48 .. 57) \cup (65 .. 70) \cup (97 .. 102)

hex_val(b) ==
  IF b \in 48 .. 57 THEN b - 48
  ELSE IF b \in 65 .. 70 THEN b - 65 + 10
  ELSE b - 97 + 10

(***************************************************************************)
(* What may follow a chunk size: white space, an extension, a line end.    *)
(***************************************************************************)
SizeTerminators == {SP, HT, SEMI, LF, CR}

(***************************************************************************)
(* The classes of a head: what a method or a header name is made of (the   *)
(* token characters), a request target, a value or a reason phrase.        *)
(***************************************************************************)
Digits   == 48 .. 57
Controls == (0 .. 31) \cup {127}

TokenChars ==
  (33 .. 126) \ ({34, 40, 41, 44, 47, 123, 125} \cup (58 .. 64) \cup (91 .. 93))
PathChars  == Byte \ (Controls \cup {SP})
ValueChars == (Byte \ Controls) \cup {HT}

(***************************************************************************)
(* copy_within (a memmove): the n bytes from offset from on are copied to  *)
(* offset to; both ranges lie in the buffer, and may overlap.              *)
(***************************************************************************)
copy_within(buf, from, n, to) ==
  [i \in 1 .. Len(buf) |->
     IF to < i /\ i <= to + n THEN buf[i - to + from] ELSE buf[i]]
=============================================================================
