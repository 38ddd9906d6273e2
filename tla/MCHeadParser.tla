---------------------------- MODULE MCHeadParser ----------------------------
(***************************************************************************)
(* A small instance of the head parsers under any caller: every entry      *)
(* point on every buffer, a head of its own kind or not.                   *)
(***************************************************************************)
EXTENDS HeadDropIn

Sample == INSTANCE SampleHeads

MCHeads ==
  {SubSeq(s, 1, n) : n \in 0 .. 12,
     s \in {Sample!Request, Sample!Response, Sample!Fields}}
    \cup {Sample!Request, Sample!Response}
    \cup {[Sample!Response EXCEPT ![i] = Sample!DEL] : i \in 9 .. 20}
    \cup Sample!Edits(Sample!Fields, {SP})
    \cup Sample!Runs(7, {<< >>, <<Sample!HIGH>>, <<HT, Sample!LETTER>>, <<Sample!DEL>>})
=============================================================================
