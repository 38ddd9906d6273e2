---------------------------- MODULE RequestLine ----------------------------
(***************************************************************************)
(* The first line of a request, up to the version's line break.            *)
(***************************************************************************)
EXTENDS HeadCore

(* One empty line is skipped in front of the request line. *)
LeadingLine ==
  /\ pc = "blank"
  /\ \/ Sees(Breaks) /\ LineBreak > 0 /\ pos' = pos + LineBreak
     \/ Sees(Byte \ Breaks) /\ pos' = pos
  /\ start' = pos'
  /\ Goto("method")
  /\ UNCHANGED <<stop, breaks, outputs>>

MethodByte ==
  /\ pc = "method"
  /\ Sees(TokenChars)
  /\ Advance

MethodEnd ==
  /\ pc = "method"
  /\ Sees({SP})
  /\ line' = [line EXCEPT !.method = Span(start, pos)]
  /\ pos' = pos + 1
  /\ Goto("before_path")
  /\ UNCHANGED <<start, stop, breaks, slots, count>>

MethodBad ==
  /\ pc = "method"
  /\ Sees(Byte \ (TokenChars \cup {SP}))
  /\ Fail(MALFORMED)

(* skip_spaces, which skips SP only. *)
BeforePath ==
  /\ pc = "before_path"
  /\ \/ Sees({SP}) /\ Advance
     \/ /\ Sees(Byte \ {SP})
        /\ start' = pos
        /\ Goto("path")
        /\ UNCHANGED <<pos, stop, breaks, outputs>>

PathByte ==
  /\ pc = "path"
  /\ Sees(PathChars)
  /\ Advance

PathEnd ==
  /\ pc = "path"
  /\ Sees({SP})
  /\ line' = [line EXCEPT !.path = Span(start, pos)]
  /\ pos' = pos + 1
  /\ Goto("before_version")
  /\ UNCHANGED <<start, stop, breaks, slots, count>>

PathBad ==
  /\ pc = "path"
  /\ Sees(Byte \ (PathChars \cup {SP}))
  /\ Fail(MALFORMED)

(* An empty method or path is refused once the spaces after it are over. *)
BugEmptyMethod == line.path.len = 0
EmptyToken == line.method.len = 0 \/ line.path.len = 0

BeforeVersion ==
  /\ pc = "before_version"
  /\ \/ Sees({SP}) /\ Advance
     \/ /\ Sees(Byte \ {SP})
        /\ EmptyToken
        /\ Fail(MALFORMED)
     \/ /\ Sees(Byte \ {SP})
        /\ ~EmptyToken
        /\ Goto("version")
        /\ UNCHANGED <<cursors, outputs>>

RequestEol ==
  /\ pc = "eol"
  /\ \/ /\ Sees(Breaks)
        /\ LineBreak > 0
        /\ pos' = pos + LineBreak
        /\ Goto("line")
        /\ UNCHANGED <<start, stop, breaks, outputs>>
     \/ /\ Sees(Byte \ Breaks)
        /\ Fail(MALFORMED)

RequestStep ==
  \/ LeadingLine
  \/ MethodByte \/ MethodEnd \/ MethodBad
  \/ BeforePath
  \/ PathByte \/ PathEnd \/ PathBad
  \/ BeforeVersion
  \/ RequestEol
=============================================================================
