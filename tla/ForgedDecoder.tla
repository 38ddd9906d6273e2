--------------------------- MODULE ForgedDecoder ---------------------------
(***************************************************************************)
(* The decoder on a struct its caller did not zero-fill: one that an       *)
(* earlier body left behind, one with arbitrary counts in a state of the   *)
(* machine (the dirty decoders of the harnesses), or one with a _state     *)
(* outside the eight, as tests/chunked.rs and docs/divergences.md (row 2)  *)
(* forge it.  The C original aborts or hangs on the last.                  *)
(***************************************************************************)
EXTENDS ChunkedDecoder

CONSTANT Structs \* the decoders to start from

ASSUME StructsAssumption == Structs \subseteq Decoders

ForgedInit == \E d \in Structs : InitWith(d)
ForgedSpec == ForgedInit /\ [][Next]_vars
ForgedFair == ForgedSpec /\ WF_vars(Step \/ Epilogue)

(***************************************************************************)
(* On a forged _state the entry point fails closed, call after call: it    *)
(* answers an error, copies nothing, and of the decoder only the count of  *)
(* bytes read moves.  No other struct ever becomes a forged one.           *)
(***************************************************************************)
FailsClosed ==
  dec.state \notin States =>
    /\ ret \in {0, MALFORMED}
    /\ buf = input /\ bufsz = Len(input)
    /\ \E d \in Structs : dec = [d EXCEPT !.total_read = dec.total_read]
=============================================================================
