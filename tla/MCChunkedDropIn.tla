-------------------------- MODULE MCChunkedDropIn --------------------------
(***************************************************************************)
(* Structs of every kind: zero-filled, in the middle of a body with counts *)
(* at their limits, and forged on both sides of the eight states.          *)
(***************************************************************************)
EXTENDS ChunkedDropIn, SampleStreams

CONSTANT MaxLen \* bound: bytes of one buffer

MCInputs == UpTo(MaxLen)
MCPow16  == Powers(HexMax)

(* The counters start at nothing, or with the rule about to apply. *)
Counters == {<<0, 0>>, <<3, OverheadLimit>>}

MCStructs ==
  {[Fresh(trailer) EXCEPT !.state = s, !.bytes_left = n, !.hex_count = h,
      !.total_read = c[1], !.total_overhead = c[2]] :
     trailer \in BOOLEAN, s \in {-1, ST_SIZE, ST_DATA, ST_TRAIL_MID + 1},
     n \in {0, 2}, h \in {0, HexMax}, c \in Counters}
  \cup {[Fresh(trailer) EXCEPT !.state = s] : trailer \in BOOLEAN, s \in States}
=============================================================================
