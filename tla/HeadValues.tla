----------------------------- MODULE HeadValues -----------------------------
(***************************************************************************)
(* What a head parser hands its caller: pieces of the buffer, the zeroed   *)
(* outputs for the first line, and a C int.                                *)
(***************************************************************************)
EXTENDS PicoBytes

CONSTANT CIntMod \* 2^32: the values of the C int a call returns

ASSUME CIntAssumption == CIntMod \in Nat \ {0}

(***************************************************************************)
(* What a pointer and a length of the caller may hold: a piece of the      *)
(* buffer, NULL, or what was there before the call.                        *)
(***************************************************************************)
Span(from, to) == [off |-> from, len |-> to - from]
Null  == [off |-> -1, len |-> 0]
Stale == [off |-> -2, len |-> 0]

Spans == [off : Nat, len : Nat]

(* The outputs for the first line, as they are zeroed on entry. *)
NoLine ==
  [method |-> Null, path |-> Null, version |-> -1, status |-> 0, msg |-> Null]

(* `consumed as c_int`: the value that is left in its bits. *)
c_int(n) ==
  LET low == n % CIntMod IN
  IF 2 * low >= CIntMod THEN low - CIntMod ELSE low
=============================================================================
