------------------------------ MODULE SwarScan ------------------------------
(***************************************************************************)
(* The word-at-a-time filter of the value scan (get_token_to_eol): blocks  *)
(* of bytes that are all printable are skipped whole, two words at a time, *)
(* then one; the byte loop decides everything else.  A word is a function  *)
(* on its lanes, the least significant first; its arithmetic is exact,     *)
(* with the borrows and carries that run from lane to lane.                *)
(***************************************************************************)
EXTENDS PicoBytes

CONSTANT Lanes \* bytes of a word: 8

ASSUME LanesAssumption == Lanes \in Nat \ {0}

Word == [0 .. Lanes - 1 -> Byte]

Printable == 32 .. 126
HighBit   == 128 .. 255

(* x - 0x2020...: a lane borrows from the next when it is below 0x20, or   *)
(* is 0x20 and has lent one itself.                                        *)
borrow(x, i) ==
  IF \E j \in 0 .. i - 1 : x[j] < 32 /\ \A k \in j + 1 .. i - 1 : x[k] = 32
    THEN 1 ELSE 0

(* x + 0x0101...: 0xff carries, and 0xfe does when it is carried into. *)
carry(x, i) ==
  IF \E j \in 0 .. i - 1 : x[j] = 255 /\ \A k \in j + 1 .. i - 1 : x[k] >= 254
    THEN 1 ELSE 0

(* The lane i of `less` and of `more` has its high bit set. *)
less(x, i) == (x[i] - 32 - borrow(x, i)) % 256 \in HighBit /\ x[i] \notin HighBit
more(x, i) == (x[i] + 1 + carry(x, i)) % 256 \in HighBit \/ x[i] \in HighBit

has_outside_printable(x) == \E i \in 0 .. Lanes - 1 : less(x, i) \/ more(x, i)

-----------------------------------------------------------------------------
(***************************************************************************)
(* The word of buf at offset p, and whether it is there and clean.         *)
(***************************************************************************)
WordAt(buf, p) == [i \in 0 .. Lanes - 1 |-> buf[p + i + 1]]

Clean(buf, p) ==
  /\ p + Lanes <= Len(buf)
  /\ ~has_outside_printable(WordAt(buf, p))

(***************************************************************************)
(* Two words at once.  A window that is clean in its low half only is left *)
(* at its high half: the loop of single words looks at that again, and     *)
(* stops there.                                                            *)
(***************************************************************************)
BugHalfClean(buf, p) == Clean(buf, p) /\ p + 2 * Lanes <= Len(buf)
WindowClean(buf, p)  == Clean(buf, p) /\ Clean(buf, p + Lanes)
=============================================================================
