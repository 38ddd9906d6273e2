------------------------ MODULE MCChunkedRefinement ------------------------
(***************************************************************************)
(* Instances of ChunkedRefinement, with a limit on framing low enough for  *)
(* the overhead rule to end sessions, and not only the framing.            *)
(***************************************************************************)
EXTENDS ChunkedRefinement, SampleStreams

MCStreams == UpTo(3) \cup Edits(Short) \cup Changes(Long)
MCPow16   == Powers(HexMax)
=============================================================================
