--------------------------- MODULE MCIntegration ---------------------------
(***************************************************************************)
(* The fixtures of the consumer with its own sizes, for correct parsers,   *)
(* and small ones whose traffic fills the buffers of a consumer that waits *)
(* for a defective parser.                                                 *)
(***************************************************************************)
EXTENDS Integration

(* The bytes of n that lie past offset first. *)
Part(n, first, most) ==
  IF n < first THEN 0 ELSE IF n - first > most THEN most ELSE n - first

(* "5 CRLF hello CRLF 6;ext=1 CRLF  world CRLF 0 CRLF ..." *)
Hello(n) == [o \in 0 .. n |-> Part(o, 3, 5) + Part(o, 19, 6)]

Loopback ==
  [correct |-> {TRUE}, buf |-> 4096, decoded |-> 256, headers_max |-> 32,
   server |-> [head |-> 133, first |-> 27, skip |-> 11, coding |-> 32, ends |-> 30, headers |-> 6,
               read |-> 32, bodyread |-> 24, data |-> Hello(32)],
   client |-> [head |-> 73, skip |-> 0, coding |-> 48, ends |-> 48, headers |-> 2,
               read |-> 16, bodyread |-> 7, data |-> Hello(48)]]

Tight ==
  [correct |-> BOOLEAN, buf |-> 16, decoded |-> 5, headers_max |-> 2,
   server |-> [head |-> 11, first |-> 4, skip |-> 3, coding |-> 8, ends |-> 6, headers |-> 2,
               read |-> 5, bodyread |-> 4, data |-> [o \in 0 .. 8 |-> Part(o, 2, 3)]],
   client |-> [head |-> 9, skip |-> 0, coding |-> 9, ends |-> 9, headers |-> 1,
               read |-> 4, bodyread |-> 2, data |-> [o \in 0 .. 9 |-> Part(o, 2, 3)]]]

MCFixtures == {Loopback, Tight}
=============================================================================
