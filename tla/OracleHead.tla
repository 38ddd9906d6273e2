----------------------------- MODULE OracleHead -----------------------------
(***************************************************************************)
(* The C original of the head parsers (reference/picohttpparser.c), as     *)
(* functions of the caller's bytes.  A parse in progress is a record of    *)
(* the read offset, the outputs as published so far and ret: 0 while the   *)
(* parse goes on, else the error with which the functions of the original  *)
(* return NULL.  Sse chooses between the two builds of its scans.          *)
(***************************************************************************)
EXTENDS HeadValues

LOCAL INSTANCE FiniteSetsExt

CONSTANTS
  Lanes, \* bytes the unrolled value loop takes at once: 8; half a register
  Sse    \* TRUE: the build with __SSE4_2__

Fails(m, error) == [m EXCEPT !.ret = error]
At(m, p)        == [m EXCEPT !.pos = p]

(***************************************************************************)
(* `if ((buf = f(...)) == NULL) return NULL`: every part of a parse leaves *)
(* one that has failed as it is.                                           *)
(***************************************************************************)
Failed(m) == m.ret # 0

(* *token = ..., *token_len = ...: in the first line, or in the header     *)
(* being read.                                                             *)
Publish(m, where, token) ==
  IF where \in {"name", "value"} THEN [m EXCEPT !.slots[m.count + 1][where] = token]
                                 ELSE [m EXCEPT !.line[where] = token]

Octet(b, p) == b[p + 1]

(* The least offset from p up to q whose byte is in S, or q. *)
First(b, p, q, S) == Min({i \in p .. q - 1 : Octet(b, i) \in S} \cup {q})

(* findchar_fast: whole registers only, and not at all without SSE. *)
findchar_fast(b, p, ranges) ==
  IF Sse THEN First(b, p, p + ((Len(b) - p) \div (2 * Lanes)) * (2 * Lanes), ranges)
         ELSE p

token_char_map ==
  {33, 35, 36, 37, 38, 39, 42, 43, 45, 46} \cup (48 .. 57) \cup (65 .. 90)
    \cup {94, 95} \cup (96 .. 122) \cup {124, 126}

(* `|` and `~` are within the ranges: the slow loop passes over them. *)
TokenRanges ==
  (0 .. 32) \cup {34, 40, 41, 44, 47} \cup (58 .. 64) \cup (91 .. 93) \cup (123 .. 255)

(* parse_token and ADVANCE_TOKEN: a token of chars up to the byte next. *)
Token(b, m, ranges, chars, next, where) ==
  LET e == First(b, findchar_fast(b, m.pos, ranges), Len(b),
                 {next} \cup (Byte \ chars))
  IN CASE Failed(m)          -> m
       [] ~Failed(m) /\ e = Len(b)
                             -> Fails(m, PARTIAL)
       [] ~Failed(m) /\ e < Len(b) /\ Octet(b, e) = next
                             -> At(Publish(m, where, Span(m.pos, e)), e)
       [] OTHER              -> Fails(m, MALFORMED)

parse_token(b, m, next, where) ==
  Token(b, m, TokenRanges, token_char_map, next, where)

ADVANCE_TOKEN(b, m, where) ==
  Token(b, m, (0 .. 32) \cup {127}, (33 .. 126) \cup (128 .. 255), SP, where)

(* The bytes that end a value: the controls but HT, and DEL. *)
Ctl == ((0 .. 31) \ {HT}) \cup {127}

(* The scalar build takes Lanes bytes a round, while it has as many. *)
RECURSIVE Unrolled(_, _)
Unrolled(b, p) ==
  LET q == First(b, p, p + Lanes, Byte \ (32 .. 126)) IN
  IF Len(b) - p < Lanes THEN p
  ELSE IF q = p + Lanes THEN Unrolled(b, q)
  ELSE IF Octet(b, q) \in Ctl THEN q ELSE Unrolled(b, q + 1)

(* A line break at m: CR must be followed by LF. *)
LineBreak(b, m) ==
  IF Failed(m) THEN m
  ELSE IF Octet(b, m.pos) = LF THEN At(m, m.pos + 1)
  ELSE IF m.pos + 1 = Len(b) THEN Fails(m, PARTIAL)
  ELSE IF Octet(b, m.pos + 1) = LF THEN At(m, m.pos + 2) ELSE Fails(m, MALFORMED)

get_token_to_eol(b, m, where) ==
  LET e == First(b, IF Sse THEN findchar_fast(b, m.pos, Ctl) ELSE Unrolled(b, m.pos),
                 Len(b), Ctl)
      end == LineBreak(b, At(m, e))
  IN IF Failed(m) THEN m
     ELSE IF e = Len(b) THEN Fails(m, PARTIAL)
     ELSE IF Octet(b, e) \notin {CR, LF} THEN Fails(m, MALFORMED)
     ELSE IF Failed(end) THEN end ELSE Publish(end, where, Span(m.pos, e))

(* is_complete, from the offset of m with n line breaks in a row before it. *)
RECURSIVE is_complete(_, _, _)
is_complete(b, m, n) ==
  IF n = 2 \/ Failed(m) THEN m
  ELSE IF m.pos >= Len(b) THEN Fails(m, PARTIAL)
  ELSE IF Octet(b, m.pos) \in {CR, LF} THEN is_complete(b, LineBreak(b, m), n + 1)
  ELSE is_complete(b, At(m, m.pos + 1), 0)

-----------------------------------------------------------------------------
(* PARSE_INT: a digit, of weight mul, added to the number so far. *)
PARSE_INT(b, m, where, sofar, mul) ==
  IF Failed(m) THEN m
  ELSE IF Octet(b, m.pos) \notin 48 .. 57 THEN Fails(m, MALFORMED)
  ELSE At(Publish(m, where, sofar + mul * (Octet(b, m.pos) - 48)), m.pos + 1)

parse_http_version(b, m) ==
  IF Failed(m) THEN m
  ELSE IF Len(b) - m.pos < 9 THEN Fails(m, PARTIAL)
  ELSE IF SubSeq(b, m.pos + 1, m.pos + 7) # <<72, 84, 84, 80, 47, 49, 46>>
    THEN Fails(m, MALFORMED)
  ELSE PARSE_INT(b, At(m, m.pos + 7), "version", 0, 1)

(* ++buf until there is no blank; there must be a byte each time. *)
SkipFrom(b, m, p, blanks) ==
  LET e == First(b, p, Len(b), Byte \ blanks) IN
  IF Failed(m) THEN m ELSE IF e = Len(b) THEN Fails(m, PARTIAL) ELSE At(m, e)

SkipSpaces(b, m) == SkipFrom(b, m, m.pos + 1, {SP})

-----------------------------------------------------------------------------
(* A header with a name: an empty one is refused when it is published. *)
Name(b, m) ==
  LET n == parse_token(b, m, COLON, "name") IN
  IF ~Failed(n) /\ n.slots[n.count + 1].name.len = 0 THEN Fails(n, MALFORMED)
  ELSE SkipFrom(b, n, n.pos + 1, {SP, HT})

Continuation(m) == Publish(m, "name", Null)

(* The value, without the blanks at its end. *)
Value(b, m) ==
  LET n == get_token_to_eol(b, m, "value")
      token == n.slots[n.count + 1].value
      end == CHOOSE e \in token.off .. token.off + token.len :
               /\ \A i \in e .. token.off + token.len - 1 : Octet(b, i) \in {SP, HT}
               /\ e = token.off \/ Octet(b, e - 1) \notin {SP, HT}
  IN IF Failed(n) THEN n
     ELSE [Publish(n, "value", Span(token.off, end)) EXCEPT !.count = @ + 1]

RECURSIVE parse_headers(_, _, _)
parse_headers(b, m, max_headers) ==
  LET continued == m.count # 0 /\ Octet(b, m.pos) \in {SP, HT}
      header == IF continued THEN Continuation(m) ELSE Name(b, m)
  IN IF Failed(m) THEN m
     ELSE IF m.pos = Len(b) THEN Fails(m, PARTIAL)
     ELSE IF Octet(b, m.pos) \in {CR, LF} THEN LineBreak(b, m)
     ELSE IF m.count = max_headers THEN Fails(m, MALFORMED)
     ELSE parse_headers(b, Value(b, header), max_headers)

-----------------------------------------------------------------------------
parse_request(b, m, max_headers) ==
  LET EmptyLine == IF Len(b) = 0 THEN Fails(m, PARTIAL)
                   ELSE IF Octet(b, 0) \in {CR, LF} THEN LineBreak(b, m) ELSE m
      Method == SkipSpaces(b, parse_token(b, EmptyLine, SP, "method"))
      Path == SkipSpaces(b, ADVANCE_TOKEN(b, Method, "path"))
      Version == IF ~Failed(Path) /\ (Path.line.method.len = 0 \/ Path.line.path.len = 0)
                   THEN Fails(Path, MALFORMED) ELSE parse_http_version(b, Path)
      Eol == IF Failed(Version) \/ Octet(b, Version.pos) \in {CR, LF}
               THEN LineBreak(b, Version) ELSE Fails(Version, MALFORMED)
  IN parse_headers(b, Eol, max_headers)

(* PARSE_INT_3: published digit by digit, the most significant first. *)
Status(b, m) ==
  LET Hundreds == PARSE_INT(b, m, "status", 0, 100)
      Tens == PARSE_INT(b, Hundreds, "status", Hundreds.line.status, 10)
  IN IF ~Failed(m) /\ Len(b) - m.pos < 4 THEN Fails(m, PARTIAL)
     ELSE PARSE_INT(b, Tens, "status", Tens.line.status, 1)

(* The phrase keeps its leading space until it is published. *)
Reason(b, m) ==
  LET n     == get_token_to_eol(b, m, "msg")
      msg   == n.line.msg
      first == First(b, msg.off, Len(b), Byte \ {SP})
  IN IF Failed(n) \/ msg.len = 0 THEN n
     ELSE IF Octet(b, msg.off) = SP
       THEN Publish(n, "msg", Span(first, msg.off + msg.len))
     ELSE Fails(n, MALFORMED)

parse_response(b, m, max_headers) ==
  LET Version == parse_http_version(b, m)
      Space == IF ~Failed(Version) /\ Octet(b, Version.pos) # SP
                 THEN Fails(Version, MALFORMED) ELSE SkipSpaces(b, Version)
  IN parse_headers(b, Reason(b, Status(b, Space)), max_headers)

-----------------------------------------------------------------------------
(* The bytes read as an int, which is their number modulo CIntMod. *)
AsInt(n) ==
  CHOOSE i \in -(CIntMod \div 2) .. (CIntMod - 1) \div 2 : (i - n) % CIntMod = 0

(***************************************************************************)
(* The entry points.  The outputs are zeroed, the header array is the      *)
(* caller's; with last_len # 0 nothing is parsed before the message looks  *)
(* complete.  The answer is the error, or the bytes read as an int.        *)
(***************************************************************************)
Zeroed(slots) == [pos |-> 0, ret |-> 0, line |-> NoLine, slots |-> slots, count |-> 0]

Answer(kind, b, last_len, slots, max_headers) ==
  LET m == Zeroed(slots)
      gate == is_complete(b, At(m, IF last_len < 3 THEN 0 ELSE last_len - 3), 0)
      begin == IF last_len = 0 THEN m ELSE At(gate, 0)
      end == CASE Failed(begin)                        -> begin
               [] ~Failed(begin) /\ kind = "request"  -> parse_request(b, begin, max_headers)
               [] ~Failed(begin) /\ kind = "response" -> parse_response(b, begin, max_headers)
               [] ~Failed(begin) /\ kind = "headers"  -> parse_headers(b, begin, max_headers)
  IN [ret |-> IF Failed(end) THEN end.ret ELSE AsInt(end.pos),
      line |-> end.line, slots |-> end.slots, count |-> end.count]
=============================================================================
