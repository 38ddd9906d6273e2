----------------------------- MODULE DiffTests -----------------------------
(***************************************************************************)
(* The differential testers (scripts/difftest_request.c, _response.c,      *)
(* _headers.c, _chunked.c): each sweeps the files it is given, one after   *)
(* another, with nothing carried over but the counts.                      *)
(***************************************************************************)
EXTENDS Drivers, SequencesExt

CONSTANT BigFile \* files up to this length are swept exhaustively

ASSUME SweepAssumption == BigFile \in Nat

(* The length of the file given: a case file, or any. *)
Given == IF triage THEN {case} ELSE Files

Opens(name, n, calls) ==
  /\ program = "difftest" /\ entry = name /\ phase = "load" /\ argv > 0
  /\ argv' = argv - 1
  /\ len' = n /\ todo' = calls
  /\ phase' = "calls"
  /\ UNCHANGED <<program, entry, defect, swept, pool, fuzzing, apart, tally, triage, rc>>

(* No file is given, or the next cannot be opened, held or read. *)
Refuses == program = "difftest" /\ phase = "load" /\ GivesUp

(* No count of mismatches ends a sweep. *)
Never == {}

Compares(name, compared) ==
  /\ program = "difftest" /\ entry = name /\ phase = "calls" /\ todo # <<>>
  /\ Compare(compared, Never)

Call(name, cap, n, hint) == [entry |-> name, how |-> [cap |-> cap, prefix |-> n, last_len |-> hint]]

(* Each prefix with the length of the one before.                          *)
BugStrictPrefixes(name, cap, n) ==
  [i \in 1 .. n |-> Call(name, cap, i - 1, IF i = 1 THEN 0 ELSE i - 2)]

Chained(name, cap, n) ==
  [i \in 1 .. n + 1 |-> Call(name, cap, i - 1, IF i = 1 THEN 0 ELSE i - 2)]

Cold(name, cap, n) == [i \in 1 .. n |-> Call(name, cap, i - 1, 0)]

(***************************************************************************)
(* For each capacity: the whole file with no hint; every prefix, the       *)
(* whole file last, with the length of the one before as the hint; every   *)
(* strict prefix with no hint.                                             *)
(***************************************************************************)
HeadCalls(name, n) ==
  FlattenSeq([c \in DOMAIN Caps |->
    <<Call(name, Caps[c], n, 0)>> \o Chained(name, Caps[c], n) \o Cold(name, Caps[c], n)])

RequestSweep == \E n \in Given : Opens("request", n, HeadCalls("request", n))

ResponseSweep == \E n \in Given : Opens("response", n, HeadCalls("response", n))

HeadersSweep == \E n \in Given : Opens("headers", n, HeadCalls("headers", n))

(* What run_case and cmp_one compare: slots are the completed headers and  *)
(* the one in progress.                                                    *)
RequestCase ==
  Compares("request",
    {"ret", "minor_version", "num_headers", "method", "path", "slots"})

ResponseCase ==
  Compares("response",
    {"ret", "minor_version", "status", "msg", "num_headers", "slots"})

HeadersCase == Compares("headers", {"ret", "num_headers", "slots"})

-----------------------------------------------------------------------------
(* A stream of calls on the decoder that begins with struct. *)
Stream(struct, trailer, lens) ==
  [i \in DOMAIN lens |->
    [entry |-> "chunked", how |-> [struct |-> struct, trailer |-> trailer,
                                         lens |-> SubSeq(lens, 1, i)]]]

(* The struct after memset, and with a state, bytes left and a digit count. *)
Struct(st, bytes_left, hex) ==
  [st |-> st, bytes_left |-> bytes_left, hex |-> hex, overhead |-> 0, read |-> 0]

Zeroed == Struct(0, 0, 0)

Dirty == <<Struct(0, 5, 2), Struct(1, 0, 0), Struct(2, 0, 0), Struct(3, 10, 0),
           Struct(0, 0, 7)>>

Quarter(n, i) == (n * i) \div 4

Cuttings(n) ==
  IF n <= BigFile THEN [k \in 1 .. n + 1 |-> k - 1] ELSE [i \in 1 .. 3 |-> Quarter(n, i)]

TwoCalls(n, k) == <<k, n - k>>

QuarterPairs == <<<<0, 1>>, <<0, 2>>, <<0, 3>>, <<1, 2>>, <<1, 3>>, <<2, 3>>>>

ThreeCalls(n, q) ==
  <<Quarter(n, q[1]), Quarter(n, q[2]) - Quarter(n, q[1]), n - Quarter(n, q[2])>>

(***************************************************************************)
(* For each setting of consume_trailer: A, the file in one call; B, in     *)
(* two, cut anywhere or, when big, at the quarters; C, in three, cut at    *)
(* two of the quarters; D, in one call on structs no call left behind.     *)
(***************************************************************************)
ChunkedMatrix(n, t) ==
  Stream(Zeroed, t, <<n>>)
  \o FlattenSeq([i \in DOMAIN Cuttings(n) |-> Stream(Zeroed, t, TwoCalls(n, Cuttings(n)[i]))])
  \o FlattenSeq([i \in DOMAIN QuarterPairs |-> Stream(Zeroed, t, ThreeCalls(n, QuarterPairs[i]))])
  \o (IF n <= BigFile
        THEN FlattenSeq([i \in DOMAIN Dirty |-> Stream(Dirty[i], t, <<n>>)])
        ELSE <<>>)

ChunkedCalls(n) == ChunkedMatrix(n, 0) \o ChunkedMatrix(n, 1)

ChunkedSweep == \E n \in Given : Opens("chunked", n, ChunkedCalls(n))

(* The outputs step compares after each call: the whole struct, and the    *)
(* whole buffer.                                                           *)
ChunkedStep == Compares("chunked", {"ret", "out_len", "in_data", "dec", "buf"})

(* It copies the bytes for either side first, if there is memory.          *)
ChunkedNoMemory ==
  /\ program = "difftest" /\ entry = "chunked" /\ phase = "calls" /\ todo # <<>>
  /\ GivesUp

(* All calls on a file have been made. *)
Swept ==
  /\ program = "difftest" /\ phase = "calls" /\ todo = <<>>
  /\ swept' = swept \cup {len}

NextFile ==
  /\ Swept /\ argv > 0
  /\ phase' = "load"
  /\ UNCHANGED <<program, entry, defect, argv, pool, len, fuzzing, todo, apart, tally,
                 triage, rc>>

SweepDone == Swept /\ argv = 0 /\ Exit

DiffTest ==
  \/ RequestSweep \/ ResponseSweep \/ HeadersSweep \/ ChunkedSweep \/ Refuses
  \/ RequestCase \/ ResponseCase \/ HeadersCase \/ ChunkedStep \/ ChunkedNoMemory
  \/ NextFile \/ SweepDone
=============================================================================
