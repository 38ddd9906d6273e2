------------------------ MODULE MCChunkedReference ------------------------
(***************************************************************************)
(* Instances of ChunkedReference: all the short streams, and the sample    *)
(* messages with every change of one byte.                                 *)
(***************************************************************************)
EXTENDS ChunkedReference, SampleStreams

MCStreams == UpTo(4) \cup Edits(Short) \cup Edits(Long)
MCPow16   == Powers(HexMax)

(* Messages of the grammar, for the rule that is no part of it. *)
MCMessages == {Short, Long}
=============================================================================
