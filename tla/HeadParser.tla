----------------------------- MODULE HeadParser -----------------------------
(***************************************************************************)
(* phr_parse_request, phr_parse_response and phr_parse_headers under a     *)
(* caller that may call them in any order, with any bytes, any hint and    *)
(* any capacity.                                                           *)
(***************************************************************************)
EXTENDS RequestLine, StatusLine

CONSTANTS
  Heads,  \* the buffers a caller may pass
  Hints,  \* the values of last_len
  Caps    \* the capacities of the header array

ASSUME CallAssumption ==
  /\ Heads \subseteq Seq(Byte)
  /\ Hints \subseteq Nat
  /\ Caps \subseteq Nat

Kinds == {"request", "response", "headers"}

Init ==
  /\ kind \in Kinds
  /\ pc = "idle"
  /\ buf = << >> /\ cap = 0
  /\ pos = 0 /\ start = 0 /\ stop = 0 /\ breaks = 0
  /\ line = NoLine /\ slots = << >> /\ count = 0
  /\ ret = PARTIAL

(* The header array holds whatever the caller left in it. *)
Zeroed(capacity) ==
  /\ line' = NoLine
  /\ count' = 0
  /\ cap' = capacity
  /\ slots' = [i \in 1 .. capacity |-> [name |-> Stale, value |-> Stale]]

Enter(entry, data, last_len, capacity) ==
  /\ pc = "idle"
  /\ kind' = entry
  /\ buf' = data
  /\ Zeroed(capacity)
  /\ pos' = IF last_len = 0 THEN 0 ELSE GateFrom(last_len)
  /\ start' = 0 /\ stop' = 0 /\ breaks' = 0
  /\ pc' = IF last_len = 0 THEN FirstPart(entry) ELSE "gate"
  /\ UNCHANGED ret

(* A null array of a capacity above zero is refused, the outputs zeroed;   *)
(* any other null pointer before that.                                     *)
NullArray(capacity) ==
  /\ pc = "idle"
  /\ capacity # 0
  /\ Zeroed(capacity)
  /\ ret' = MALFORMED
  /\ UNCHANGED <<kind, buf, pc, cursors>>

NullPointer ==
  /\ pc = "idle"
  /\ ret' = MALFORMED
  /\ UNCHANGED <<args, pc, cursors, outputs>>

Step == CoreStep \/ RequestStep \/ StatusStep

Next ==
  \/ \E entry \in Kinds, data \in Heads, last_len \in Hints, capacity \in Caps :
       Enter(entry, data, last_len, capacity)
  \/ \E capacity \in Caps : NullArray(capacity)
  \/ NullPointer
  \/ Step

Spec == Init /\ [][Next]_vars

(* A call runs on its caller's thread and waits for nothing. *)
FairSpec == Spec /\ WF_vars(Step)

-----------------------------------------------------------------------------
(***************************************************************************)
(* The variables have their types.                                         *)
(***************************************************************************)
Parts == {"idle", "version", "status", "strip", "trim", "value_words",
          "reason_words"} \cup Reading

Lines ==
  [method : Spans \cup {Null}, path : Spans \cup {Null}, version : -1 .. 9,
   status : 0 .. 999, msg : Spans \cup {Null}]

Slots == [name : Spans \cup {Null, Stale}, value : Spans \cup {Stale}]

HeadTypeOK ==
  /\ kind \in Kinds /\ pc \in Parts
  /\ buf \in Seq(Byte) /\ cap \in Nat
  /\ pos \in Nat /\ start \in Nat /\ stop \in Nat /\ breaks \in 0 .. 2
  /\ line \in Lines
  /\ slots \in [1 .. cap -> Slots]
  /\ count \in 0 .. cap
  /\ ret \in Int

(***************************************************************************)
(* "Every offset lies inside the input buffer by construction in the       *)
(* core": the pieces a call hands out, on success and on failure, are      *)
(* pieces of the caller's bytes already read, and follow one another       *)
(* without overlap in the order of the message.                            *)
(***************************************************************************)
End(piece)  == piece.off + piece.len
Given(piece) == piece.off >= 0

(* Where the header in slot i begins: its value, on a continuation line. *)
HeaderAt(i) == IF Given(slots[i].name) THEN slots[i].name.off
                                       ELSE slots[i].value.off

Inside(piece) == Given(piece) => End(piece) <= pos /\ pos <= Len(buf)

OutputsInOrder ==
  /\ Inside(line.method) /\ Inside(line.path) /\ Inside(line.msg)
  /\ \A i \in 1 .. cap : Inside(slots[i].name) /\ Inside(slots[i].value)
  /\ Given(line.path) => Given(line.method) /\ End(line.method) < line.path.off
  /\ \A i \in 1 .. count :
       /\ Given(slots[i].value)
       /\ Given(slots[i].name) => End(slots[i].name) < slots[i].value.off
       /\ End(line.path) < HeaderAt(i) /\ End(line.msg) < HeaderAt(i)
       /\ i < count => End(slots[i].value) < HeaderAt(i + 1)

(***************************************************************************)
(* "i < cap is enforced by the core ... before any write", and headers are *)
(* written one after the other: every counted slot was written by this     *)
(* call, the first one is no continuation line, the slot in progress is    *)
(* within the array, and no slot after it is touched.                      *)
(***************************************************************************)
Writing == pc \in {"name", "before_value", "value_words", "value", "trim"}

SlotsInOrder ==
  /\ Writing => count < cap
  /\ count > 0 => Given(slots[1].name)
  /\ \A i \in 1 .. cap :
       /\ i <= count => Stale \notin {slots[i].name, slots[i].value}
       /\ i > count => slots[i].value = Stale
       /\ i > count + 1 => slots[i].name = Stale

(***************************************************************************)
(* Every call returns: no loop goes round without reading on.              *)
(***************************************************************************)
HeadReturns == pc # "idle" ~> pc = "idle"
=============================================================================
