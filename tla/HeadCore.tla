------------------------------ MODULE HeadCore ------------------------------
(***************************************************************************)
(* What the three head parsers share: the completeness gate, the scan of a *)
(* value, the version, and the header block with its sink.  A call is a    *)
(* run of steps over its buffer, one per byte that the loops of the code   *)
(* look at; pc names the loop.  Offsets count from 0, as in the code.      *)
(***************************************************************************)
EXTENDS HeadValues, SwarScan

VARIABLES
  kind,   \* the entry point called: "request", "response" or "headers"
  pc,     \* "idle" between calls, else the part the running call is at
  buf,    \* the caller's bytes
  cap,    \* the capacity of the caller's header array
  pos,    \* read offset
  start,  \* where the token being read begins
  stop,   \* where the value being trimmed ends
  breaks, \* line breaks in a row the gate has seen
  line,   \* the outputs for the first line
  slots,  \* the caller's header array
  count,  \* headers completed, the output *num_headers
  ret     \* the value returned by the last call

args    == <<kind, buf, cap>>
cursors == <<pos, start, stop, breaks>>
outputs == <<line, slots, count>>
vars    == <<args, pc, cursors, outputs, ret>>

Octet(p) == buf[p + 1]

(* Where the parse proper begins, and what follows the version. *)
FirstPart(k) ==
  CASE k = "request" -> "blank" [] k = "response" -> "version"
    [] k = "headers" -> "line"

AfterVersion == IF kind = "request" THEN "eol" ELSE "space"

-----------------------------------------------------------------------------
(***************************************************************************)
(* Ways a step goes on.                                                    *)
(***************************************************************************)
Return(value) ==
  /\ ret' = value
  /\ pc' = "idle"

Fail(error) ==
  /\ Return(error)
  /\ UNCHANGED <<args, cursors, outputs>>

Goto(part) ==
  /\ pc' = part
  /\ UNCHANGED <<args, ret>>

(* One byte further in the same loop. *)
BugNoAdvance ==
  /\ pos' = pos
  /\ Goto(pc)
  /\ UNCHANGED <<start, stop, breaks, outputs>>

Advance ==
  /\ pos' = pos + 1
  /\ Goto(pc)
  /\ UNCHANGED <<start, stop, breaks, outputs>>

(* The current byte is there, and is one of S. *)
Sees(S) == pos < Len(buf) /\ Octet(pos) \in S

(* A line break at the current byte: its length, or the error it is. *)
LineBreak ==
  IF Octet(pos) = LF THEN 1
  ELSE IF pos + 1 = Len(buf) THEN PARTIAL
  ELSE IF Octet(pos + 1) = LF THEN 2 ELSE MALFORMED

Breaks == {CR, LF}

BadLineBreak ==
  /\ pc \in {"gate", "blank", "eol", "line", "value", "reason"}
  /\ Sees(Breaks)
  /\ LineBreak < 0
  /\ Fail(LineBreak)

(* The loops that ask for more bytes as soon as they have none. *)
Reading ==
  {"gate", "blank", "method", "before_path", "path", "before_version", "eol",
   "space", "spaces", "line", "name", "before_value", "value", "reason"}

Starved ==
  /\ pc \in Reading
  /\ pos >= Len(buf)
  /\ Fail(PARTIAL)

-----------------------------------------------------------------------------
(***************************************************************************)
(* is_complete: with last_len given, nothing is parsed before two line     *)
(* breaks in a row have been seen from three bytes before it on.           *)
(***************************************************************************)
BugGateFromEnd(last_len) == last_len
GateFrom(last_len) == IF last_len < 3 THEN 0 ELSE last_len - 3

GateByte ==
  /\ pc = "gate"
  /\ Sees(Byte \ Breaks)
  /\ pos' = pos + 1
  /\ breaks' = 0
  /\ Goto(pc)
  /\ UNCHANGED <<start, stop, outputs>>

GateBreak ==
  /\ pc = "gate"
  /\ Sees(Breaks)
  /\ LineBreak > 0
  /\ breaks' = breaks + 1
  /\ \/ /\ breaks' < 2
        /\ pos' = pos + LineBreak
        /\ Goto(pc)
     \/ /\ breaks' = 2
        /\ pos' = 0
        /\ Goto(FirstPart(kind))
  /\ UNCHANGED <<start, stop, outputs>>

-----------------------------------------------------------------------------
(***************************************************************************)
(* parse_http_version, which attempts nothing with less than nine bytes.   *)
(***************************************************************************)
HttpOne == <<72, 84, 84, 80, 47, 49, 46>> \* "HTTP/1."

VersionHere ==
  /\ SubSeq(buf, pos + 1, pos + 7) = HttpOne
  /\ Octet(pos + 7) \in Digits

Version ==
  /\ pc = "version"
  /\ \/ /\ Len(buf) - pos < 9
        /\ Fail(PARTIAL)
     \/ /\ Len(buf) - pos >= 9
        /\ ~VersionHere
        /\ Fail(MALFORMED)
     \/ /\ Len(buf) - pos >= 9
        /\ VersionHere
        /\ line' = [line EXCEPT !.version = Octet(pos + 7) - 48]
        /\ pos' = pos + 8
        /\ Goto(AfterVersion)
        /\ UNCHANGED <<start, stop, breaks, slots, count>>

-----------------------------------------------------------------------------
(***************************************************************************)
(* parse_headers.                                                          *)
(***************************************************************************)
set_name(name)   == slots' = [slots EXCEPT ![count + 1].name = name]
set_value(value) == slots' = [slots EXCEPT ![count + 1].value = value]

(* The blank line: the head is complete. *)
BlockEnd ==
  /\ pc = "line"
  /\ Sees(Breaks)
  /\ LineBreak > 0
  /\ pos' = pos + LineBreak
  /\ Return(c_int(pos'))
  /\ UNCHANGED <<args, start, stop, breaks, outputs>>

BugFullEarly     == count + 1 >= cap
BugCapAfterWrite == count > cap
Full == count = cap

TooManyHeaders ==
  /\ pc = "line"
  /\ Sees(Byte \ Breaks)
  /\ Full
  /\ Fail(MALFORMED)

(* A line that begins with a blank goes on with the header before it. *)
BugFoldsFirst == Sees({SP, HT})
Continues == count # 0 /\ Sees({SP, HT})

Continuation ==
  /\ pc = "line"
  /\ ~Full
  /\ Continues
  /\ set_name(Null)
  /\ start' = pos
  /\ Goto("value_words")
  /\ UNCHANGED <<pos, stop, breaks, line, count>>

NewHeader ==
  /\ pc = "line"
  /\ ~Full
  /\ Sees(Byte \ Breaks) /\ ~Continues
  /\ start' = pos
  /\ Goto("name")
  /\ UNCHANGED <<pos, stop, breaks, outputs>>

NameByte ==
  /\ pc = "name"
  /\ Sees(TokenChars)
  /\ Advance

(* The name is published before an empty one is refused. *)
NameEnd ==
  /\ pc = "name"
  /\ Sees({COLON})
  /\ set_name(Span(start, pos))
  /\ \/ /\ pos = start
        /\ Return(MALFORMED)
        /\ UNCHANGED <<args, pos>>
     \/ /\ pos # start
        /\ pos' = pos + 1
        /\ Goto("before_value")
  /\ UNCHANGED <<start, stop, breaks, line, count>>

NameBad ==
  /\ pc = "name"
  /\ Sees(Byte \ (TokenChars \cup {COLON}))
  /\ Fail(MALFORMED)

BugStartKept ==
  /\ pc = "before_value"
  /\ \/ Sees({SP, HT}) /\ Advance
     \/ /\ Sees(Byte \ {SP, HT})
        /\ Goto("value_words")
        /\ UNCHANGED <<cursors, outputs>>

BeforeValue ==
  /\ pc = "before_value"
  /\ \/ Sees({SP, HT}) /\ Advance
     \/ /\ Sees(Byte \ {SP, HT})
        /\ start' = pos
        /\ Goto("value_words")
        /\ UNCHANGED <<pos, stop, breaks, outputs>>

(* get_token_to_eol, of a header value or of a reason phrase: clean words  *)
(* are skipped, then the bytes are looked at one by one.                   *)
InWords == pc \in {"value_words", "reason_words"}

SkipWords ==
  /\ InWords
  /\ \/ /\ WindowClean(buf, pos)
        /\ pos' = pos + 2 * Lanes
        /\ Goto(pc)
     \/ /\ Clean(buf, pos) /\ ~WindowClean(buf, pos)
        /\ pos' = pos + Lanes
        /\ Goto(pc)
     \/ /\ ~Clean(buf, pos)
        /\ pos' = pos
        /\ Goto(IF pc = "value_words" THEN "value" ELSE "reason")
  /\ UNCHANGED <<start, stop, breaks, outputs>>

ValueByte ==
  /\ pc \in {"value", "reason"}
  /\ Sees(ValueChars)
  /\ Advance

ValueBad ==
  /\ pc \in {"value", "reason"}
  /\ Sees(Byte \ (ValueChars \cup Breaks))
  /\ Fail(MALFORMED)

ValueEnd ==
  /\ pc = "value"
  /\ Sees(Breaks)
  /\ LineBreak > 0
  /\ stop' = pos
  /\ pos' = pos + LineBreak
  /\ Goto("trim")
  /\ UNCHANGED <<start, breaks, outputs>>

(* rtrim, byte by byte, then the header is complete. *)
BugTrimsToNothing == Octet(stop - 1) \in {SP, HT}
TrailingBlank == start < stop /\ Octet(stop - 1) \in {SP, HT}

TrimBlank ==
  /\ pc = "trim"
  /\ TrailingBlank
  /\ stop' = stop - 1
  /\ Goto(pc)
  /\ UNCHANGED <<pos, start, breaks, outputs>>

HeaderDone ==
  /\ pc = "trim"
  /\ ~TrailingBlank
  /\ set_value(Span(start, stop))
  /\ count' = count + 1
  /\ Goto("line")
  /\ UNCHANGED <<cursors, line>>

CoreStep ==
  \/ Starved \/ BadLineBreak
  \/ GateByte \/ GateBreak
  \/ Version
  \/ BlockEnd \/ TooManyHeaders \/ Continuation \/ NewHeader
  \/ NameByte \/ NameEnd \/ NameBad
  \/ BeforeValue \/ SkipWords
  \/ ValueByte \/ ValueBad \/ ValueEnd
  \/ TrimBlank \/ HeaderDone
=============================================================================
