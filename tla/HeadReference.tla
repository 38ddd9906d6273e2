--------------------------- MODULE HeadReference ---------------------------
(***************************************************************************)
(* A head as a grammar, read off a whole stream at once: lines, a first    *)
(* line, header fields, an empty line.  The parsers agree with it however  *)
(* the stream is cut and whatever the hint of each call.                   *)
(***************************************************************************)
EXTENDS HeadSession, FiniteSetsExt

(***************************************************************************)
(* A line is the offsets of its content, without its LF or CR LF, and of   *)
(* what follows it.  Only a line that has its LF is one.                   *)
(***************************************************************************)
Line(b, from) ==
  LET lf == Min({i \in from .. Len(b) - 1 : b[i + 1] = LF})
  IN [from |-> from, next |-> lf + 1,
      to   |-> IF lf > from /\ b[lf] = CR THEN lf - 1 ELSE lf]

HasLine(b, from) == \E i \in from .. Len(b) - 1 : b[i + 1] = LF

Empty(l) == l.from = l.to

(* The first offset of from .. to whose byte is not in S, or to. *)
Past(b, S, from, to) == Min({i \in from .. to - 1 : b[i + 1] \notin S} \cup {to})

(* The last one after which there are only blanks. *)
Trim(b, from, to) ==
  Min({i \in from .. to : \A j \in i + 1 .. to : b[j] \in {SP, HT}})

Only(b, S, from, to) == \A i \in from + 1 .. to : b[i] \in S

VersionAt(b, at) ==
  SubSeq(b, at + 1, at + 7) = HttpOne /\ at + 8 <= Len(b) /\ b[at + 8] \in Digits

-----------------------------------------------------------------------------
Parsed(out) == [ok |-> TRUE, out |-> out]
Refused     == [ok |-> FALSE, out |-> NoLine]

RequestOf(b, l) ==
  LET method  == Past(b, Byte \ {SP}, l.from, l.to)
      path    == Past(b, {SP}, method, l.to)
      pathEnd == Past(b, Byte \ {SP}, path, l.to)
      version == Past(b, {SP}, pathEnd, l.to)
  IN IF /\ method > l.from /\ Only(b, TokenChars, l.from, method)
        /\ pathEnd > path /\ Only(b, PathChars, path, pathEnd)
        /\ version > pathEnd /\ l.to = version + 8 /\ VersionAt(b, version)
     THEN Parsed([NoLine EXCEPT !.method = Span(l.from, method),
                                !.path = Span(path, pathEnd),
                                !.version = b[version + 8] - 48])
     ELSE Refused

StatusOf(b, l) ==
  LET code == Past(b, {SP}, l.from + 8, l.to)
      text == Past(b, {SP}, code + 3, l.to)
      Digit(i) == b[code + i] - 48
  IN IF /\ VersionAt(b, l.from) /\ code > l.from + 8
        /\ code + 3 <= l.to /\ Only(b, Digits, code, code + 3)
        /\ Only(b, ValueChars, code + 3, l.to)
        /\ text > code + 3 \/ text = l.to
     THEN Parsed([NoLine EXCEPT !.version = b[l.from + 8] - 48,
                    !.status = 100 * Digit(1) + 10 * Digit(2) + Digit(3),
                    !.msg = Span(text, l.to)])
     ELSE Refused

FieldOf(b, l, first) ==
  LET colon == Past(b, Byte \ {COLON}, l.from, l.to)
      Value(from) == Span(from, Trim(b, from, l.to))
  IN IF ~first /\ b[l.from + 1] \in {SP, HT}
     THEN IF Only(b, ValueChars, l.from, l.to)
          THEN Parsed([name |-> Null, value |-> Value(l.from)])
          ELSE Refused
     ELSE IF /\ l.from < colon /\ colon < l.to
             /\ Only(b, TokenChars, l.from, colon)
             /\ Only(b, ValueChars, colon + 1, l.to)
          THEN Parsed([name  |-> Span(l.from, colon),
                       value |-> Value(Past(b, {SP, HT}, colon + 1, l.to))])
          ELSE Refused

(***************************************************************************)
(* What the bytes b say: whether they begin with a head, where it ends,    *)
(* and its parts, the fields as far as they are fields.                    *)
(***************************************************************************)
Nothing   == [ok |-> FALSE, end |-> 0, line |-> NoLine, fields |-> << >>]
Over(end) == [ok |-> TRUE, end |-> end, line |-> NoLine, fields |-> << >>]

(* The lines of a block from offset at on; next[i], those from i. *)
Field(b, from, at, next) ==
  LET l     == Line(b, at)
      field == FieldOf(b, l, at = from)
  IN IF ~HasLine(b, at) THEN Nothing
     ELSE IF Empty(l) THEN Over(l.next)
     ELSE IF ~field.ok THEN Nothing
     ELSE [next[l.next] EXCEPT !.fields = <<field.out>> \o @]

(* A block that begins at offset from, up to an empty line. *)
Fields(b, from) ==
  LET rest[at \in from .. Len(b)] == Field(b, from, at, rest) IN rest

Block(b, out, from) == [Fields(b, from)[from] EXCEPT !.line = out]

(* A request may be preceded by one empty line. *)
Leading(k, b) ==
  IF k = "request" /\ HasLine(b, 0) /\ Empty(Line(b, 0)) THEN Line(b, 0).next ELSE 0

FirstOf(k, b, l) == IF k = "request" THEN RequestOf(b, l) ELSE StatusOf(b, l)

Meaning(k, b) ==
  LET at == Leading(k, b)
      l  == Line(b, at)
  IN IF k = "headers" THEN Block(b, NoLine, 0)
     ELSE IF ~HasLine(b, at) \/ Empty(l) \/ ~FirstOf(k, b, l).ok THEN Nothing
     ELSE Block(b, FirstOf(k, b, l).out, l.next)

Whole == Meaning(exchange.kind, exchange.stream)
Valid == Whole.ok /\ Len(Whole.fields) <= exchange.cap

(* The lengths the C int that a call returns can hold. *)
ASSUME LengthAssumption ==
  \A x \in Exchanges : 2 * Len(x.stream) < CIntMod

(***************************************************************************)
(* A head is accepted only where the grammar has one, with the grammar's   *)
(* end and parts: the answer does not depend on how the stream was cut.    *)
(***************************************************************************)
AcceptsTheHead ==
  pc = "idle" /\ ret >= 0 =>
    /\ Valid
    /\ ret = Whole.end /\ line = Whole.line
    /\ SubSeq(slots, 1, count) = Whole.fields

(***************************************************************************)
(* "Malformed: input can never become valid no matter how it is extended": *)
(* no prefix of a valid head is rejected, by the gate or by the parser.    *)
(* A standalone block of no header is left out, see EmptyBlockAnswered.    *)
(***************************************************************************)
EmptyBlock == exchange.kind = "headers" /\ Whole.fields = << >>

RejectsNoHead == pc = "idle" /\ ret = MALFORMED => ~Valid \/ EmptyBlock

(***************************************************************************)
(* Once a whole head has arrived the caller is not asked for more: the     *)
(* gate, which looks from three bytes before the last call's end on, finds *)
(* the end of the head wherever the calls were cut.                        *)
(***************************************************************************)
HeadNotMissed ==
  pc = "idle" /\ ret = PARTIAL /\ fed >= Whole.end => ~Valid \/ EmptyBlock

(***************************************************************************)
(* "Completed headers (prefix survives errors)": whatever the answer, the  *)
(* headers counted are the first ones of the message.                      *)
(***************************************************************************)
PrefixSurvives ==
  pc = "idle" /\ count > 0 =>
    /\ count <= Len(Whole.fields)
    /\ SubSeq(slots, 1, count) = SubSeq(Whole.fields, 1, count)

(***************************************************************************)
(* The two claims of the code's comment on Error, also of a header block   *)
(* that is an empty line: what has arrived is no strict prefix of a valid  *)
(* message, and is one.                                                    *)
(***************************************************************************)
EmptyBlockAnswered ==
  pc = "idle" /\ Valid /\ fed >= Whole.end => ret >= 0
=============================================================================
