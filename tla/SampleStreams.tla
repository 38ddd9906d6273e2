--------------------------- MODULE SampleStreams ---------------------------
(***************************************************************************)
(* Streams for the small instances of the chunked modules: one byte of     *)
(* each class the decoder tells apart, all the short streams over them,    *)
(* and whole messages with every change of one byte.                       *)
(***************************************************************************)
EXTENDS PicoBytes

LOCAL INSTANCE SequencesExt

Digit(n) == 48 + n
LETTER   == 120 \* "x": no digit, may not follow a size

Alphabet == {Digit(0), Digit(1), CR, LF, SEMI, LETTER}

(* A body of one byte, and the first byte of a message that follows it. *)
Short == <<Digit(1)>> \o CRLF \o <<LETTER>> \o CRLF \o <<Digit(0)>> \o CRLF
           \o CRLF \o <<Digit(1)>>

(* Two chunks, the data of the first a line end, an extension, a size of   *)
(* two digits, and two trailer lines.                                      *)
Long == <<Digit(2), SP>> \o CRLF \o CRLF \o CRLF
          \o <<Digit(0), Digit(1), SEMI, LETTER>> \o CRLF \o <<Digit(0)>> \o CRLF
          \o <<Digit(0)>> \o CRLF \o <<LETTER, CR>> \o CRLF \o <<CR>> \o CRLF

(* s, and s with one byte replaced or dropped; or also put in. *)
Changes(s) ==
  {s} \cup {ReplaceAt(s, i, b) : i \in 1 .. Len(s), b \in Alphabet}
      \cup {RemoveAt(s, i) : i \in 1 .. Len(s)}

Edits(s) == Changes(s) \cup {InsertAt(s, i, b) : i \in 1 .. Len(s), b \in Alphabet}

UpTo(n) == SeqOf(Alphabet, n)

Powers(n) == [i \in 0 .. n |-> 16 ^ i]
=============================================================================
