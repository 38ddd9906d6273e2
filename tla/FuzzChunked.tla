---------------------------- MODULE FuzzChunked ----------------------------
(***************************************************************************)
(* The fuzzer of the chunked decoder (scripts/fuzz_chunked.c): a body made *)
(* of windows of seeds and mutated, decoded in one to four calls.          *)
(***************************************************************************)
EXTENDS Drivers, FiniteSetsExt

CONSTANTS
  MAX_BODY,     \* the size of the body buffer
  MAX_CALLS,    \* calls of one iteration
  BodyRounds,   \* iterations asked for
  BodyChanges,  \* the most mutations of one body
  MaxReports,   \* mismatches a campaign stops after
  HexRun,       \* the longest run of digits put in
  Lefts, Hexes, \* bytes_left and _hex_count of dirty structs
  Overheads, Deltas \* their framing count, and what was read beyond it

(* A body has room for the byte an empty one gets; at most sixteen digits  *)
(* have been counted.                                                      *)
ASSUME BodyAssumption ==
  /\ MAX_BODY \in Nat \ {0} /\ MAX_CALLS \in Nat /\ MaxReports \in Nat
  /\ BodyRounds \in Nat /\ BodyChanges \in Nat /\ HexRun \in Nat
  /\ Lefts \subseteq Nat /\ Hexes \subseteq 0 .. 16
  /\ Overheads \subseteq Nat /\ Deltas \subseteq Nat

Decoding == program = "fuzz" /\ entry = "chunked"

Enough == mismatches >= MaxReports

(* One seed at least is on the command line; all of them are read. *)
LoadBodies ==
  /\ Decoding /\ phase = "load"
  /\ \/ /\ Files # {} /\ pool' = Files
        /\ phase' = "start"
        /\ UNCHANGED <<program, entry, defect, argv, swept, len, fuzzing, todo, apart,
                       tally, triage, rc>>
     \/ GivesUp

window_seed(n) == Min({n, MAX_BODY})

Spliced(a, b) ==
  LET first == Min({a, MAX_BODY \div 2}) IN first + Min({b, MAX_BODY - first})

(* A window of one seed, or windows of two one after the other. *)
build_body ==
  /\ Decoding /\ phase = "start" /\ ~Enough /\ iter < BodyRounds
  /\ iter' = iter + 1
  /\ \/ \E n \in pool : len' = window_seed(n)
     \/ \E a, b \in pool : len' = Spliced(a, b)
  /\ left' \in 1 .. BodyChanges
  /\ phase' = "mutate"
  /\ UNCHANGED <<program, entry, defect, given, snapshot, writable, todo, apart, tally,
                 triage, rc>>

Grown(n) == len + Min({n, MAX_BODY - len})

(***************************************************************************)
(* One mutation: bytes overwritten; one deleted, never the last; one put   *)
(* in when there is room; a run of digits as far as there is; a truncation *)
(* that leaves a byte; a window of a seed at the end.  An empty body gets  *)
(* a byte.                                                                 *)
(***************************************************************************)
MutatedBody ==
  IF len = 0 THEN {1}
  ELSE {len} \cup (IF len > 1 THEN {len - 1} \cup 1 .. len ELSE {})
             \cup {Grown(n) : n \in pool \cup 1 .. HexRun}

BodyMutation ==
  /\ Decoding /\ phase = "mutate" /\ left > 0
  /\ len' \in MutatedBody
  /\ left' = left - 1
  /\ UNCHANGED <<program, entry, defect, phase, given, iter, snapshot, writable, todo,
                 apart, tally, triage, rc>>

-----------------------------------------------------------------------------
(* The struct a stream begins with: zeroed, or in one of the states 0 to 3 *)
(* with what that state reads, and perhaps near the limit on framing.      *)
fresh_dec == [st |-> 0, bytes_left |-> 0, hex |-> 0, overhead |-> 0, read |-> 0]

DirtyFields ==
  {<<0, l, h>> : l \in Lefts, h \in Hexes} \cup {<<1, 0, 0>>, <<2, 0, 0>>}
    \cup {<<3, l, 0>> : l \in Lefts}

dirty_dec ==
  LET With(f, over, read) ==
        [st |-> f[1], bytes_left |-> f[2], hex |-> f[3], overhead |-> over, read |-> read]
  IN {With(f, 0, 0) : f \in DirtyFields}
       \cup {With(f, over, over + delta) :
               f \in DirtyFields, over \in Overheads, delta \in Deltas}

(***************************************************************************)
(* One call, or two to four cut at points drawn with replacement and       *)
(* sorted: two equal ones make an empty call.                              *)
(***************************************************************************)
BugAsDrawn(n) == [1 .. n - 1 -> 0 .. len]
Cuts(n) ==
  {cuts \in [1 .. n - 1 -> 0 .. len] : \A i, j \in 1 .. n - 1 : i < j => cuts[i] <= cuts[j]}

Parts(cuts) ==
  [j \in 1 .. Len(cuts) + 1 |->
     (IF j <= Len(cuts) THEN cuts[j] ELSE len) - (IF j = 1 THEN 0 ELSE cuts[j - 1])]

Splits ==
  {<<len>>} \cup
  (IF len = 0 THEN {}
   ELSE UNION {{Parts(cuts) : cuts \in Cuts(n)} : n \in 2 .. MAX_CALLS})

(* The snapshot is written before the split and the struct are drawn. *)
Split ==
  /\ Decoding /\ phase = "mutate" /\ left = 0
  /\ snapshot' = IF writable THEN len ELSE snapshot
  /\ \E lens \in Splits, struct \in {fresh_dec} \cup dirty_dec, trailer \in {0, 1} :
       todo' = [j \in DOMAIN lens |->
                 [entry |-> "chunked", how |-> [struct |-> struct, trailer |-> trailer,
                                                lens |-> SubSeq(lens, 1, j)]]]
  /\ phase' = "calls"
  /\ UNCHANGED <<program, entry, defect, given, len, left, iter, writable, apart, tally,
                 triage, rc>>

(* The campaign stops at the fifth mismatch, also within an iteration.     *)
BugStopsAfterIteration == {}
Fifth == {count \in Nat : count >= MaxReports}

(* There may be no memory for the copies either side gets.                 *)
step ==
  /\ Decoding /\ phase = "calls" /\ todo # <<>>
  /\ \/ Compare({"ret", "out_len", "in_data", "dec", "buf"}, Fifth)
     \/ GivesUp

BodyNext ==
  /\ Decoding /\ phase = "calls" /\ todo = <<>>
  /\ phase' = "start"
  /\ UNCHANGED <<program, entry, defect, given, len, fuzzing, todo, apart, tally, triage,
                 rc>>

BodyDone ==
  Decoding /\ phase = "start" /\ (Enough \/ iter = BodyRounds) /\ Exit /\ UNCHANGED swept

FuzzChunkedNext ==
  LoadBodies \/ build_body \/ BodyMutation \/ Split \/ step \/ BodyNext \/ BodyDone
=============================================================================
