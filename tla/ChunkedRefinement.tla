------------------------- MODULE ChunkedRefinement -------------------------
(***************************************************************************)
(* The decoder under its caller implements ChunkedContract: seen from      *)
(* outside, cutting the stream into calls, rewriting the buffer in place   *)
(* and carrying the state across calls change nothing.                     *)
(***************************************************************************)
EXTENDS ChunkedSession

AbstractMode ==
  IF err = "complete" THEN "complete"
  ELSE IF err = "malformed" \/ verdict = "failed" THEN "failed"
  ELSE IF st = ST_DATA THEN "data"
  ELSE IF st \in Trailer THEN "trailer"
  ELSE "framing"

Owed == IF st = ST_DATA THEN left ELSE 0

Contract ==
  INSTANCE ChunkedContract WITH
    MaxSize <- Usize - 1,
    takes   <- dec.consume_trailer,
    pos     <- Position,
    mode    <- AbstractMode,
    owed    <- Owed,
    body    <- Collected

(***************************************************************************)
(* Every behaviour of the decoder and its caller is one of the contract.   *)
(***************************************************************************)
ImplementsContract == Contract!Spec
=============================================================================
