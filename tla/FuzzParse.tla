----------------------------- MODULE FuzzParse -----------------------------
(***************************************************************************)
(* The fuzzer of the head parsers (scripts/fuzz_parse.c).  Every choice    *)
(* its generator may make is made; only what it does to the length of the  *)
(* working buffer is kept.                                                 *)
(***************************************************************************)
EXTENDS Drivers, FiniteSetsExt

CONSTANTS
  MAXLEN,     \* the size of the working buffer
  Snippets,   \* the lengths of the grammar snippets
  Iterations, \* iterations asked for
  Mutations,  \* the most mutations of one buffer
  MAX_CASES   \* mismatches a campaign stops after

ASSUME ParseAssumption ==
  /\ MAXLEN \in Nat /\ Snippets \subseteq Nat
  /\ Iterations \in Nat /\ Mutations \in Nat /\ MAX_CASES \in Nat

Parsing == program = "fuzz" /\ entry \in HeadEntries

Finished == iter = Iterations \/ mismatches >= MAX_CASES

(***************************************************************************)
(* The seeds: files too long for the buffer and those of other entry       *)
(* points are left out, and one that cannot be read ends the program.      *)
(* What a pool of fewer files leads to, a pool of them all does.           *)
(***************************************************************************)
load_seeds ==
  /\ Parsing /\ phase = "load"
  /\ \/ /\ pool' \in {{}, {n \in Files : n <= MAXLEN}}
        /\ phase' = "start"
        /\ UNCHANGED <<program, entry, defect, argv, swept, len, fuzzing, todo, apart,
                       tally, triage, rc>>
     \/ GivesUp

NoSeeds == Parsing /\ phase = "start" /\ pool = {} /\ GivesUp

PickSeed ==
  /\ Parsing /\ phase = "start" /\ ~Finished
  /\ iter' = iter + 1
  /\ len' \in pool
  /\ left' \in 1 .. Mutations
  /\ phase' = "mutate"
  /\ UNCHANGED <<program, entry, defect, given, snapshot, writable, todo, apart, tally,
                 triage, rc>>

(* One mutation; len is what it makes of the length. *)
Mutates(n) ==
  /\ len' = n /\ left' = left - 1
  /\ UNCHANGED <<program, entry, defect, phase, given, iter, snapshot, writable, todo,
                 apart, tally, triage, rc>>

BugUnbounded(n) == len + n
insert_at(n) == IF len + n > MAXLEN THEN len ELSE len + n

(* Substitute; insert, delete a span, truncate, splice in the tail of a    *)
(* seed, duplicate a line or a piece, insert a snippet.                    *)
mutate ==
  /\ Parsing /\ phase = "mutate" /\ left > 0
  /\ \/ Mutates(len)
     \/ Mutates(insert_at(1))
     \/ \E n \in 0 .. len : Mutates(n)
     \/ \E other \in pool : \E tail \in 0 .. other : Mutates(len + Min({tail, MAXLEN - len}))
     \/ \E n \in 1 .. len : Mutates(insert_at(n))
     \/ \E n \in Snippets : Mutates(insert_at(n))

(***************************************************************************)
(* A capacity, a hint within the buffer, a snapshot of the buffer on disk  *)
(* before the two sides see it.                                            *)
(***************************************************************************)
BugStaleSnapshot == IF writable /\ snapshot = none THEN len ELSE snapshot
snap_current == IF writable THEN len ELSE snapshot

Aim ==
  /\ Parsing /\ phase = "mutate" /\ left = 0
  /\ \E c \in DOMAIN Caps, hint \in 0 .. len :
       todo' = <<[entry |-> entry,
                 how |-> [cap |-> Caps[c], prefix |-> len, last_len |-> hint]]>>
  /\ snapshot' = snap_current
  /\ phase' = "calls"
  /\ UNCHANGED <<program, entry, defect, given, len, left, iter, writable, apart, tally,
                 triage, rc>>

(* The limit is looked at after the one comparison of an iteration. *)
NoStop == {}

(* The outputs the comparison looks at. *)
cmp_request  == {"ret", "minor_version", "num_headers", "method", "path", "slots"}
BugStatusForgotten == {"ret", "minor_version", "msg", "num_headers", "slots"}
cmp_response == {"ret", "minor_version", "status", "msg", "num_headers", "slots"}
cmp_headers  == {"ret", "num_headers", "slots"}

run_entry ==
  /\ Parsing /\ phase = "calls" /\ todo # <<>>
  /\ Compare(CASE entry = "request"  -> cmp_request
               [] entry = "response" -> cmp_response
               [] entry = "headers"  -> cmp_headers, NoStop)

ParseNext ==
  /\ Parsing /\ phase = "calls" /\ todo = <<>>
  /\ phase' = "start"
  /\ UNCHANGED <<program, entry, defect, given, len, fuzzing, todo, apart, tally, triage,
                 rc>>

ParseDone == Parsing /\ phase = "start" /\ Finished /\ Exit /\ UNCHANGED swept

FuzzParseNext ==
  load_seeds \/ NoSeeds \/ PickSeed \/ mutate \/ Aim \/ run_entry \/ ParseNext \/ ParseDone
=============================================================================
