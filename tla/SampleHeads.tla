---------------------------- MODULE SampleHeads ----------------------------
(***************************************************************************)
(* Heads for the small instances of the head modules: whole requests,      *)
(* responses and header blocks with every change of one byte, and all the  *)
(* short header blocks over a byte of each class.                          *)
(***************************************************************************)
EXTENDS PicoBytes

LOCAL INSTANCE SequencesExt

LETTER == 97  \* a token character
HIGH   == 200 \* no token character, but one of a target or a value
DEL    == 127

VersionText == <<72, 84, 84, 80, 47, 49, 46, 49>>

(* An empty line, "a b HTTP/1.1" and a field. *)
Request ==
  CRLF \o <<LETTER, SP, HIGH, SP>> \o VersionText \o CRLF
    \o <<LETTER, COLON, HIGH>> \o CRLF \o CRLF

(* "HTTP/1.1 200 O", a field and its continuation, bare line ends. *)
Response ==
  VersionText \o <<SP, 50, 48, 48, SP, HIGH, LF>>
    \o <<LETTER, COLON, HIGH, LF>> \o <<SP, LETTER, LF>> \o <<LF>>

Fields ==
  <<LETTER, COLON, SP, HIGH, HT>> \o CRLF \o <<HT, LETTER, LF>>
    \o <<LETTER, COLON, LF>> \o CRLF

(* s, and s with one byte replaced, dropped or put in. *)
Edits(s, bytes) ==
  {s} \cup {ReplaceAt(s, i, b) : i \in 1 .. Len(s), b \in bytes}
      \cup {RemoveAt(s, i) : i \in 1 .. Len(s)}
      \cup {InsertAt(s, i, b) : i \in 1 .. Len(s), b \in bytes}

(* One field whose value is a run of n letters and an end: words of every  *)
(* kind, at every distance from the end of the line.                       *)
Runs(n, ends) ==
  {<<LETTER, COLON>> \o [i \in 1 .. m |-> IF i = 2 THEN SP ELSE LETTER] \o end
     \o CRLF \o CRLF : m \in 0 .. n, end \in ends}

UpTo(bytes, n) == SeqOf(bytes, n)
=============================================================================
