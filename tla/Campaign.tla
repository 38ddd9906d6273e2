------------------------------ MODULE Campaign ------------------------------
(***************************************************************************)
(* The differential programs, each on its own, and after a fuzzer that     *)
(* found a mismatch the difftest of the same entry point on the case file  *)
(* it wrote: scripts/fuzz_triage.sh.                                       *)
(***************************************************************************)
EXTENDS DiffTests, FuzzParse, FuzzChunked

(* An empty case file is refused; the other is all the difftest is given.  *)
Triage ==
  /\ program = "fuzz" /\ phase = "done" /\ case > 0
  /\ program' = "difftest" /\ phase' = "load" /\ triage' = TRUE
  /\ argv' = 1 /\ swept' = {}
  /\ mismatches' = 0 /\ differed' = FALSE /\ apart' = FALSE /\ rc' = none
  /\ UNCHANGED <<entry, defect, pool, len, fuzzing, todo, case>>

Next == DiffTest \/ FuzzParseNext \/ FuzzChunkedNext \/ Triage

Spec == Init /\ [][Next]_vars

(* Programs that take one step after another. *)
FairSpec == Spec /\ WF_vars(Next)

-----------------------------------------------------------------------------
(***************************************************************************)
(* The variables have their types, and the working buffers their sizes.    *)
(***************************************************************************)
CampaignTypeOK ==
  /\ program \in {"difftest", "fuzz"} /\ entry \in Entries /\ defect \in Defects
  /\ phase \in {"load", "start", "mutate", "calls", "done", "crashed"}
  /\ argv \in Nat /\ swept \subseteq Nat /\ pool \subseteq Nat
  /\ entry \in HeadEntries => \A n \in pool : n <= MAXLEN
  /\ len \in Nat
  /\ program = "fuzz" => len <= (IF entry = "chunked" THEN MAX_BODY ELSE MAXLEN)
  /\ left \in Nat /\ iter \in Nat
  /\ snapshot \in Nat \cup {none} /\ case \in Nat \cup {none}
  /\ writable \in BOOLEAN /\ apart \in BOOLEAN
  /\ differed \in BOOLEAN /\ triage \in BOOLEAN
  /\ mismatches \in Nat /\ rc \in {none, 0, 1, 2}

(***************************************************************************)
(* "Exit 0 iff zero mismatches": a program that comes to its end has taken *)
(* every file, and has exit code 0 when the two sides agreed in every      *)
(* output of every call, and only then; one that gives up has exit code 2, *)
(* so that 0 says that nothing differed and 1 that something did, but not  *)
(* every other code that something did, as docs/fuzzing.md:16 has it.      *)
(***************************************************************************)
ExitTells == phase = "done" => rc = 2 \/ (argv = 0 /\ (rc = 0 <=> ~differed))

(***************************************************************************)
(* "Full buffers plus every prefix streaming plus every strict prefix      *)
(* cold", "two-call splits", "three-call splits at quarters", "dirty       *)
(* decoders": a difference in any of these calls on any of the files swept *)
(* is found, wherever in the file it is, and the program cannot end with 0 *)
(* whatever becomes of the files that follow.                              *)
(***************************************************************************)
DecodesFrom(d, lens) == {[struct |-> d, trailer |-> t, lens |-> lens] : t \in {0, 1}}

Holding(st, bytes_left, hex) ==
  [st |-> st, bytes_left |-> bytes_left, hex |-> hex, overhead |-> 0, read |-> 0]

Soiled ==
  {Holding(0, 5, 2), Holding(1, 0, 0), Holding(2, 0, 0), Holding(3, 10, 0), Holding(0, 0, 7)}

Division(n) ==
  LET Cut      == IF n <= BigFile THEN 0 .. n ELSE {(n * i) \div 4 : i \in 1 .. 3}
      Quarters == {q \in (0 .. 3) \X (0 .. 3) : q[1] < q[2]}
  IN {<<n>>} \cup {<<k, n - k>> : k \in Cut}
       \cup {<<(n * q[1]) \div 4, (n * q[2]) \div 4 - (n * q[1]) \div 4,
               n - (n * q[2]) \div 4>> : q \in Quarters}

PromisedParses(n) ==
  LET Parse(c, k, hint) == [cap |-> c, prefix |-> k, last_len |-> hint]
  IN UNION {{Parse(c, n, 0)} \cup {Parse(c, k, 0) : k \in 0 .. n}
              \cup {Parse(c, k, k - 1) : k \in 1 .. n} : c \in Range(Caps)}

PromisedDecodes(n) ==
  (UNION {DecodesFrom(Holding(0, 0, 0), lens) : lens \in Division(n)})
    \cup (IF n > BigFile THEN {} ELSE UNION {DecodesFrom(d, <<n>>) : d \in Soiled})

Promised(n) == IF entry = "chunked" THEN PromisedDecodes(n) ELSE PromisedParses(n)

SweepFinds ==
  program = "difftest" /\ defect.call.entry = entry
    /\ (\E n \in swept : defect.call.how \in Promised(n))
    => mismatches > 0 /\ rc # 0

(***************************************************************************)
(* "After a crash the last input is on disk": the snapshot is the buffer   *)
(* the sides were given when one of them crashed, if it can be written.    *)
(***************************************************************************)
CrashOnDisk == program = "fuzz" /\ phase = "crashed" /\ writable => snapshot = len

(* The bytes given in calls of these lengths. *)
Total(lens) ==
  LET upTo[i \in 0 .. Len(lens)] == IF i = 0 THEN 0 ELSE upTo[i - 1] + lens[i]
  IN upTo[Len(lens)]

(***************************************************************************)
(* The oracle is only called where C defines what it does: hints within    *)
(* the buffer; a state it does not abort on, counters that do not wrap,    *)
(* calls that take the body apart from the first byte to the last and      *)
(* never reach beyond it.                                                  *)
(***************************************************************************)
OracleDefined ==
  \A i \in DOMAIN todo :
    LET how == todo[i].how IN
    IF todo[i].entry # "chunked"
    THEN how.prefix <= len /\ how.last_len <= how.prefix
    ELSE /\ how.struct.st \in 0 .. 3 /\ how.struct.hex <= 16
         /\ how.struct.overhead <= how.struct.read
         /\ \A j \in DOMAIN how.lens : how.lens[j] >= 0
         /\ Total(how.lens) <= len
         /\ i = Len(todo) => Total(how.lens) = len

(***************************************************************************)
(* "Keeps going up to 5 mismatches": no campaign reports more.  One        *)
(* difference may be reported in every call that carries it on.            *)
(***************************************************************************)
ReportsBounded ==
  program = "fuzz" => mismatches <= (IF entry = "chunked" THEN MaxReports ELSE MAX_CASES)

(***************************************************************************)
(* "The difftest binaries are the same comparison the fuzz drivers use, so *)
(* a fuzz mismatch dump can be re-checked" (scripts/fuzz_triage.sh:14),    *)
(* "single-buffer repros that fuzz_triage.sh accepts directly"             *)
(* (docs/fuzzing.md:46): the difftest does not find the case file clean.   *)
(***************************************************************************)
CaseReproduces == triage /\ phase = "done" => rc # 0
=============================================================================
