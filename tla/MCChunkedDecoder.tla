------------------------- MODULE MCChunkedDecoder -------------------------
(***************************************************************************)
(* Small instances of ChunkedDecoder: every buffer of up to MaxLen bytes   *)
(* over one byte of each class the decoder tells apart.                    *)
(***************************************************************************)
EXTENDS ChunkedDecoder, SampleStreams

CONSTANT MaxLen \* bound: bytes of one buffer

MCInputs == UpTo(MaxLen)
MCPow16  == Powers(HexMax)
=============================================================================
