-------------------------- MODULE ChunkedContract --------------------------
(***************************************************************************)
(* What a chunked decoder promises, with no buffer, no call and no split:  *)
(* a reader walks the peer's stream once.  It skips framing, opens chunks, *)
(* and copies to the body the stream's own next bytes, as many as the      *)
(* chunk announced and in their order; the body is complete only between   *)
(* chunks, after a last chunk, and an outcome is final.                    *)
(***************************************************************************)
EXTENDS Integers, Sequences

CONSTANTS
  Streams,  \* what a peer may send
  MaxSize   \* the largest chunk size

VARIABLES
  stream, \* what the peer sends
  takes,  \* whether the reader takes the trailer lines too
  pos,    \* bytes read
  mode,   \* "framing", "data", "trailer", "complete" or "failed"
  owed,   \* bytes of the open chunk not delivered yet
  body    \* bytes delivered

vars == <<stream, takes, pos, mode, owed, body>>

Init ==
  /\ stream \in Streams
  /\ takes \in BOOLEAN
  /\ pos = 0
  /\ mode = "framing"
  /\ owed = 0
  /\ body = << >>

(* n bytes of the stream that are there to read. *)
Read(n) ==
  /\ n <= Len(stream) - pos
  /\ pos' = pos + n
  /\ UNCHANGED <<stream, takes>>

SkipFraming ==
  /\ mode \in {"framing", "trailer"}
  /\ Read(1)
  /\ UNCHANGED <<mode, owed, body>>

OpenChunk(size) ==
  /\ mode = "framing"
  /\ Read(1)
  /\ mode' = "data"
  /\ owed' = size
  /\ UNCHANGED body

Payload(n) ==
  /\ mode = "data"
  /\ n <= owed
  /\ Read(n)
  /\ body' = body \o SubSeq(stream, pos + 1, pos + n)
  /\ owed' = owed - n
  /\ mode' = IF owed' = 0 THEN "framing" ELSE "data"

LastChunk ==
  /\ mode = "framing"
  /\ Read(1)
  /\ mode' = IF takes THEN "trailer" ELSE "complete"
  /\ UNCHANGED <<owed, body>>

EndTrailers ==
  /\ mode = "trailer"
  /\ Read(1)
  /\ mode' = "complete"
  /\ UNCHANGED <<owed, body>>

(* At any point: the framing is wrong, or there is too much of it. *)
Reject ==
  /\ mode \in {"framing", "data", "trailer"}
  /\ mode' = "failed"
  /\ UNCHANGED <<stream, takes, pos, owed, body>>

Next ==
  \/ SkipFraming
  \/ \E size \in 1 .. MaxSize : OpenChunk(size)
  \/ \E n \in 1 .. owed : Payload(n)
  \/ LastChunk
  \/ EndTrailers
  \/ Reject

Spec == Init /\ [][Next]_vars
=============================================================================
