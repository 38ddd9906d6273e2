-------------------------- MODULE MCHeadReference --------------------------
(***************************************************************************)
(* Small instances of the head parsers and their caller, against the       *)
(* grammar.                                                                *)
(***************************************************************************)
EXTENDS HeadReference

CONSTANTS
  MaxBlock, \* bound: bytes of an arbitrary header block
  Changes   \* the bytes put into the samples

Sample == INSTANCE SampleHeads

To(entry, streams, capacity) == [kind : {entry}, stream : streams, cap : {capacity}]

MCExchanges ==
  To("request", Sample!Edits(Sample!Request, Changes), 1)
    \cup To("response", Sample!Edits(Sample!Response, Changes), 2)
    \cup To("headers", Sample!Edits(Sample!Fields, Changes), 3)
    \cup To("headers", Sample!UpTo({Sample!LETTER, COLON, SP, CR, LF}, MaxBlock), 1)
=============================================================================
