------------------------------ MODULE Drivers ------------------------------
(***************************************************************************)
(* What the programs that compare the C oracle with the Rust library have  *)
(* in common (scripts/difftest_*.c, fuzz_parse.c, fuzz_chunked.c): a       *)
(* buffer, calls made on both sides with the same arguments, outputs       *)
(* compared, mismatches counted, an exit code that tells.  A file that     *)
(* cannot be read, or memory that runs out, ends any of them with 2.       *)
(*                                                                         *)
(* The contents of buffers are not told apart, only their lengths.  The    *)
(* sides under test are deterministic: they disagree in one output of the  *)
(* one call that defect names, or crash in it, or agree throughout.        *)
(*                                                                         *)
(* A call is [entry, how]: how is [cap, prefix, last_len] for the head     *)
(* parsers; for the decoder [struct, trailer, lens], the struct the stream *)
(* began with and the lengths given so far, this call's the last.          *)
(***************************************************************************)
EXTENDS Integers, Sequences

CONSTANTS
  Files,    \* lengths of the files given to a program
  Args,     \* numbers of files on a tester's command line
  Caps,     \* the capacities tried, in order
  Defects   \* what may be wrong with the two sides

HeadEntries == {"request", "response", "headers"}
Entries     == HeadEntries \cup {"chunked"}

(* What an entry point gives back: its return value and what its pointer   *)
(* arguments lead to; for the decoder also what phr_decode_chunked_is_in_  *)
(* data says afterwards.                                                   *)
Outputs(name) ==
  CASE name = "request"  -> {"ret", "minor_version", "num_headers", "method", "path", "slots"}
    [] name = "response" -> {"ret", "minor_version", "status", "msg", "num_headers", "slots"}
    [] name = "headers"  -> {"ret", "num_headers", "slots"}
    [] name = "chunked"  -> {"ret", "out_len", "in_data", "dec", "buf"}

(* Lengths and capacities are numbers; a defect is in an output of its     *)
(* call, or the call crashes.                                              *)
ASSUME DriversAssumption ==
  /\ Files \subseteq Nat /\ Args \subseteq Nat /\ Caps \in Seq(Nat)
  /\ \A d \in Defects :
       /\ d.call = [entry |-> d.call.entry, how |-> d.call.how]
       /\ d.call.entry \in Entries => d.output \in Outputs(d.call.entry) \cup {"crash"}

VARIABLES
  program,    \* "difftest" or "fuzz"
  entry,      \* the entry point compared
  defect,     \* the call and the output the sides differ in, or "crash"
  phase,      \* what main is at
  argv,       \* files a tester has not come to
  swept,      \* history: the lengths of the files it is done with
  pool,       \* the lengths of the seeds a fuzzer has loaded
  len,        \* bytes in the buffer
  left,       \* mutations to come
  iter,       \* iterations begun
  todo,       \* calls to come on this buffer
  apart,      \* the carried decoders of the two sides differ
  writable,   \* the directory of the case files can be written
  snapshot,   \* the length of the snapshot on disk, or none
  mismatches, \* mismatches reported
  differed,   \* history: the sides differed in some call
  case,       \* the length of the first case file written, or none
  triage,     \* this is the difftest on that case file
  rc          \* the exit code

given   == <<argv, swept, pool>>
fuzzing == <<left, iter, snapshot, writable>>
tally   == <<mismatches, differed, case>>
vars    == <<program, entry, defect, phase, given, len, fuzzing, todo, apart,
             tally, triage, rc>>

none == -1

(* Whether the sides differ in this call, and in what. *)
Outcomes(call) ==
  IF apart /\ Len(call.how.lens) > 1 THEN {"same", "dec"}
  ELSE IF call = defect.call THEN {defect.output}
  ELSE {"same"}

(* Decoders that differ stay different while they are carried. *)
Apart(call, outcome) ==
  apart' = /\ call.entry = "chunked"
           /\ outcome = "dec" \/ (apart /\ Len(call.how.lens) > 1)

(***************************************************************************)
(* One call on either side and the comparison of the outputs in compared.  *)
(* A mismatch is counted; the fuzzers write the buffer to a case file.  At *)
(* a count in stops the calls that are left are not made.                  *)
(***************************************************************************)
Compare(compared, stops) ==
  LET call == Head(todo) IN
  \E outcome \in Outcomes(call) :
    LET mismatch == outcome \in compared IN
    /\ differed' = (differed \/ outcome # "same")
    /\ mismatches' = IF mismatch THEN mismatches + 1 ELSE mismatches
    /\ case' = IF mismatch /\ program = "fuzz" /\ writable /\ case = none THEN len ELSE case
    /\ Apart(call, outcome)
    /\ IF outcome = "crash" THEN phase' = "crashed" /\ todo' = <<>>
       ELSE /\ todo' = IF mismatches' \in stops THEN <<>> ELSE Tail(todo)
            /\ UNCHANGED phase
    /\ UNCHANGED <<program, entry, defect, given, len, fuzzing, triage, rc>>

(* At its end a program answers 0 when there was no mismatch, else 1. *)
Exit ==
  /\ phase' = "done"
  /\ rc' = IF mismatches = 0 THEN 0 ELSE 1
  /\ UNCHANGED <<program, entry, defect, argv, pool, len, fuzzing, todo, apart, tally,
                 triage>>

(* It does not come to its end, whatever it has found so far. *)
GivesUp ==
  /\ phase' = "done" /\ rc' = 2
  /\ todo' = <<>>
  /\ UNCHANGED <<program, entry, defect, given, len, fuzzing, apart, tally, triage>>

Init ==
  /\ program \in {"difftest", "fuzz"} /\ entry \in Entries
  /\ defect \in Defects
  /\ phase = "load"
  /\ argv \in (IF program = "difftest" THEN Args ELSE {0})
  /\ swept = {} /\ pool = {}
  /\ len = 0 /\ left = 0 /\ iter = 0 /\ todo = <<>> /\ apart = FALSE
  /\ writable \in BOOLEAN
  /\ snapshot = none /\ mismatches = 0 /\ differed = FALSE /\ case = none
  /\ triage = FALSE /\ rc = none
=============================================================================
