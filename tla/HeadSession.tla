---------------------------- MODULE HeadSession ----------------------------
(***************************************************************************)
(* A head parser under a caller that streams, as the receive loop of       *)
(* scripts/integ_http11.c does: each call is given all the bytes received  *)
(* so far, the length of the call before it as last_len and the full       *)
(* capacity again, until the answer is no longer PARTIAL.                  *)
(***************************************************************************)
EXTENDS HeadParser

CONSTANT Exchanges \* what a peer may send, to which entry point and array

ASSUME ExchangeAssumption ==
  Exchanges \subseteq [kind : Kinds, stream : Seq(Byte), cap : Nat]

VARIABLES
  exchange, \* the one that takes place
  fed       \* the number of bytes of its stream received so far

headvars == <<vars, exchange, fed>>

SessionInit ==
  /\ Init
  /\ exchange \in Exchanges
  /\ kind = exchange.kind
  /\ fed = 0

(* recv: n more bytes arrive, and all of them are parsed, from the start. *)
Deliver(n) ==
  /\ ret = PARTIAL
  /\ fed' = fed + n
  /\ Enter(exchange.kind, SubSeq(exchange.stream, 1, fed'), fed, exchange.cap)
  /\ UNCHANGED exchange

SessionNext ==
  \/ \E n \in 1 .. Len(exchange.stream) - fed : Deliver(n)
  \/ Step /\ UNCHANGED <<exchange, fed>>

SessionSpec == SessionInit /\ [][SessionNext]_headvars

(* The peer's bytes arrive while the caller asks for them. *)
FairSession == SessionSpec /\ WF_headvars(SessionNext)

(***************************************************************************)
(* The caller gets its answer, or has read the stream to its end.          *)
(***************************************************************************)
HeadDecided == <>[](pc = "idle" /\ (ret # PARTIAL \/ fed = Len(exchange.stream)))
=============================================================================
