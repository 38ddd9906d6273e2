--------------------------- MODULE ChunkedSession ---------------------------
(***************************************************************************)
(* The decoder under a caller that keeps the contract of its API: a peer   *)
(* sends a stream, the network hands it over in pieces of any size, and    *)
(* the caller decodes each piece once, appends what the call delivered to  *)
(* the body, and stops at the first verdict, as the receive loop of        *)
(* scripts/integ_http11.c does.                                            *)
(***************************************************************************)
EXTENDS ChunkedDecoder

CONSTANT Streams \* what a peer may send

ASSUME StreamAssumption ==
  /\ Streams \subseteq Seq(Byte)
  /\ \A s \in Streams : Len(s) <= MaxRead

VARIABLES
  stream,  \* what the peer sends, also past the end of the body
  fed,     \* the number of its bytes handed to the decoder so far
  body,    \* what the caller has collected
  verdict  \* "more", or the outcome: "complete" or "failed"

session == <<stream, fed, body, verdict>>
allvars == <<vars, session>>

SessionInit ==
  /\ Init
  /\ stream \in Streams
  /\ fed = 0
  /\ body = << >>
  /\ verdict = "more"

(* recv: the next n bytes of the stream arrive and are decoded. *)
Deliver(n) ==
  /\ verdict = "more"
  /\ Enter(SubSeq(stream, fed + 1, fed + n))
  /\ fed' = fed + n
  /\ UNCHANGED <<stream, body, verdict>>

Work == Step /\ UNCHANGED session

(* The call returns; the caller takes the decoded bytes and the verdict. *)
Return ==
  /\ Epilogue
  /\ body' = body \o SubSeq(buf', 1, bufsz')
  /\ verdict' = IF ret' = PARTIAL THEN "more"
                ELSE IF ret' = MALFORMED THEN "failed" ELSE "complete"
  /\ UNCHANGED <<stream, fed>>

SessionNext ==
  \/ \E n \in 1 .. Len(stream) - fed : Deliver(n)
  \/ Work
  \/ Return

SessionSpec == SessionInit /\ [][SessionNext]_allvars

(***************************************************************************)
(* The peer's bytes arrive as long as the caller asks for them, and a call *)
(* keeps running.                                                          *)
(***************************************************************************)
FairSession == SessionSpec /\ WF_allvars(SessionNext)

-----------------------------------------------------------------------------
(***************************************************************************)
(* The offset of the stream the decoder has read up to, and the body       *)
(* including what the running call has decoded so far.                     *)
(***************************************************************************)
Position  == fed - Len(buf) + src
Collected == IF pc = "idle" THEN body ELSE body \o SubSeq(buf, 1, dst)

SessionTypeOK ==
  /\ TypeOK
  /\ stream \in Seq(Byte)
  /\ fed \in 0 .. Len(stream)
  /\ body \in Seq(Byte)
  /\ verdict \in {"more", "complete", "failed"}

(***************************************************************************)
(* The rule's counters mean what it takes them for: between two calls, the *)
(* bytes read are those the peer sent and the bytes that are not framing   *)
(* are exactly the body, however the stream was cut.                       *)
(***************************************************************************)
CountersExact ==
  pc = "idle" /\ verdict = "more" =>
    /\ dec.total_read = fed
    /\ dec.total_read - dec.total_overhead = Len(body)

(***************************************************************************)
(* A peer cannot have the caller wait on framing alone: an exchange that   *)
(* goes on has delivered a quarter of what it read, or less framing than   *)
(* OverheadLimit.                                                          *)
(***************************************************************************)
FramingBounded ==
  pc = "idle" /\ verdict = "more" =>
    \/ fed - Len(body) < OverheadLimit
    \/ Len(body) >= fed \div 4

(***************************************************************************)
(* Every byte that arrived is accounted for once: the body, the framing    *)
(* skipped and, when the body is complete, the octets left for the next    *)
(* message, which are the stream's own.                                    *)
(***************************************************************************)
NothingLost ==
  verdict = "complete" =>
    /\ Position + ret = fed
    /\ SubSeq(buf, bufsz + 1, bufsz + ret) = SubSeq(stream, Position + 1, fed)

(***************************************************************************)
(* A stream is decided, or read to its end: the caller is never left with  *)
(* bytes it has not decoded while the decoder asks for more.               *)
(***************************************************************************)
StreamDrained == <>[](verdict # "more" \/ (pc = "idle" /\ fed = Len(stream)))
=============================================================================
