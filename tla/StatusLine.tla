----------------------------- MODULE StatusLine -----------------------------
(***************************************************************************)
(* The first line of a response, after its version.                        *)
(***************************************************************************)
EXTENDS HeadCore

(* One SP is required, any more are skipped. *)
SpaceRequired ==
  /\ pc = "space"
  /\ \/ /\ Sees({SP})
        /\ pos' = pos + 1
        /\ Goto("spaces")
        /\ UNCHANGED <<start, stop, breaks, outputs>>
     \/ /\ Sees(Byte \ {SP})
        /\ Fail(MALFORMED)

MoreSpaces ==
  /\ pc = "spaces"
  /\ \/ Sees({SP}) /\ Advance
     \/ /\ Sees(Byte \ {SP})
        /\ start' = pos
        /\ Goto("status")
        /\ UNCHANGED <<pos, stop, breaks, outputs>>

(* parse_status attempts nothing with less than four bytes, and publishes  *)
(* the code digit by digit.                                                *)
StatusShort == pc = "status" /\ pos = start /\ Len(buf) - pos < 4

Weight == <<100, 10, 1>>[pos - start + 1]

StatusCode ==
  \/ /\ StatusShort
     /\ Fail(PARTIAL)
  \/ /\ pc = "status"
     /\ ~StatusShort
     /\ Sees(Byte \ Digits)
     /\ Fail(MALFORMED)
  \/ /\ pc = "status"
     /\ ~StatusShort
     /\ Sees(Digits)
     /\ line' = [line EXCEPT !.status = @ + Weight * (Octet(pos) - 48)]
     /\ pos' = pos + 1
     /\ \/ pos' < start + 3 /\ Goto("status") /\ UNCHANGED start
        \/ pos' = start + 3 /\ Goto("reason_words") /\ start' = pos'
     /\ UNCHANGED <<stop, breaks, slots, count>>

(* The reason phrase is published before its first byte is looked at. *)
ReasonEnd ==
  /\ pc = "reason"
  /\ Sees(Breaks)
  /\ LineBreak > 0
  /\ line' = [line EXCEPT !.msg = Span(start, pos)]
  /\ \/ /\ start # pos
        /\ Octet(start) # SP
        /\ Return(MALFORMED)
        /\ UNCHANGED <<args, cursors>>
     \/ /\ start = pos \/ Octet(start) = SP
        /\ stop' = pos
        /\ pos' = pos + LineBreak
        /\ Goto(IF start = pos THEN "line" ELSE "strip")
        /\ UNCHANGED <<start, breaks>>
  /\ UNCHANGED <<slots, count>>

LeadingSpace == start < stop /\ Octet(start) = SP

StripSpaces ==
  /\ pc = "strip"
  /\ \/ /\ LeadingSpace
        /\ start' = start + 1
        /\ Goto("strip")
        /\ UNCHANGED line
     \/ /\ ~LeadingSpace
        /\ line' = [line EXCEPT !.msg = Span(start, stop)]
        /\ Goto("line")
        /\ UNCHANGED start
  /\ UNCHANGED <<pos, stop, breaks, slots, count>>

StatusStep ==
  \/ SpaceRequired \/ MoreSpaces
  \/ StatusCode
  \/ ReasonEnd \/ StripSpaces
=============================================================================
