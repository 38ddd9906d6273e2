--------------------------- MODULE ChunkedDropIn ---------------------------
(***************************************************************************)
(* The port of the chunked decoder stands in for the C original: the       *)
(* struct the original works on is the port's, with the locals of the hot  *)
(* loop in the place of the fields they shadow.  The callers here are all  *)
(* there are: they begin with a zero-filled struct, with one a previous    *)
(* use left behind, or with a forged one.                                  *)
(***************************************************************************)
EXTENDS ForgedDecoder

Struct == [dec EXCEPT !.state = st, !.bytes_left = left, !.hex_count = hex]

Label == CASE pc = "idle" -> "idle"
           [] pc = "loop" -> "switch"
           [] pc = "exit" -> IF err = "complete" THEN "Complete" ELSE "Exit"

Answer == IF pc = "idle" THEN ret
          ELSE IF err = "malformed" THEN MALFORMED ELSE PARTIAL

Original ==
  INSTANCE OracleDecoder WITH decoder <- Struct, at <- Label, ret <- Answer

(***************************************************************************)
(* Every step of the port is the original's on the same struct and the     *)
(* same buffer, from any struct and through any calls: the same bytes are  *)
(* moved, the same counters kept, the same fields left for the next call   *)
(* and the same value returned.  The two exceptions are those of           *)
(* docs/divergences.md: null arguments (rows 1 and 3) and a _state outside *)
(* the eight (row 2), which the original does not survive.                 *)
(***************************************************************************)
ReplacesOracle == [][Original!Next \/ NullArgument \/ Corrupt]_(Original!vars)
=============================================================================
