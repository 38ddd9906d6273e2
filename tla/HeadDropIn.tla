----------------------------- MODULE HeadDropIn -----------------------------
(***************************************************************************)
(* The port of the head parsers stands in for the C original: a caller     *)
(* that passes the same arguments to both gets the same from both.         *)
(***************************************************************************)
EXTENDS HeadParser

VARIABLE hint \* last_len of the running call

Scalar   == INSTANCE OracleHead WITH Sse <- FALSE
Vectored == INSTANCE OracleHead WITH Sse <- TRUE

dropvars == <<vars, hint>>

DropInInit == Init /\ hint = 0

DropInNext ==
  \/ \E entry \in Kinds, data \in Heads, last_len \in Hints, capacity \in Caps :
       Enter(entry, data, last_len, capacity) /\ hint' = last_len
  \/ \E capacity \in Caps : NullArray(capacity) /\ UNCHANGED hint
  \/ NullPointer /\ UNCHANGED hint
  \/ Step /\ UNCHANGED hint

DropInSpec == DropInInit /\ [][DropInNext]_dropvars

(* A call runs on its caller's thread and waits for nothing. *)
FairDropIn == DropInSpec /\ WF_dropvars(Step /\ UNCHANGED hint)

(***************************************************************************)
(* A call that returns has the outcome of the original in both of its      *)
(* builds: the value returned (as a C int, also of a head too long for     *)
(* one), the first line as far as it was published, the number of headers, *)
(* and the array, the slots of an unfinished header included.  A hint past *)
(* the end of the buffer is undefined in the original                      *)
(* (docs/divergences.md, row 4).                                           *)
(***************************************************************************)
Unused == [i \in 1 .. cap |-> [name |-> Stale, value |-> Stale]]

Outcome == [ret |-> ret, line |-> line, slots |-> slots, count |-> count]

AgreesWithOracle ==
  [][pc # "idle" /\ pc' = "idle" /\ hint <= Len(buf) =>
       /\ Outcome' = Scalar!Answer(kind, buf, hint, Unused, cap)
       /\ Outcome' = Vectored!Answer(kind, buf, hint, Unused, cap)]_dropvars
=============================================================================
