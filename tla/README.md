# picohttpparser-rs in TLA+

A verification development for the Rust rewrite of PicoHTTPParser: what its
parsers and its chunked decoder do, call by call, under callers that deliver
bytes in pieces; what the C original they replace does with the same bytes; what
the programs do that compare the two and that use them over a connection; what
TLC checks about all of it on small instances; and what TLAPS proves for every
value of the constants. File names are relative to the repository.

## 1. Inventory

The library has no threads, no allocation and no I/O. What makes it hard is
that its callers stream: a message arrives in pieces of any size, the same
function is called again and again, and only the caller's variables carry
anything from one call to the next. The code works in place and for speed
(offsets into the caller's buffer, word-at-a-time scans), its contract is mostly
in prose, and it promises to be a drop-in for a C library whose outputs it must
reproduce byte for byte, also on errors.

| Component | State | Operations | Interaction |
|---|---|---|---|
| Chunked decoder (`src/chunked.rs`, entry points in `src/ffi.rs`) | the caller's `phr_chunked_decoder`: state, bytes owed, digit count, trailer mode, two counters; in a call also read and write offsets in the caller's buffer | `phr_decode_chunked`, `phr_decode_chunked_is_in_data` | called with newly arrived bytes only; rewrites the buffer, returns the octets left |
| Shared head parser (`src/core.rs`) | none between calls; in a call a read offset, the header slots, the count | `is_complete`, `parse_token`, `get_token_to_eol`, `parse_http_version`, `parse_headers` | called by the three head entry points; writes headers through a sink |
| SWAR scan (`src/core.rs`) | none | `has_outside_printable`, the block loops of `get_token_to_eol` | filter in front of the exact byte loop |
| Request line, status line (`src/request.rs`, `src/response.rs`) | progress of the running call | `parse_request`, `parse_response` | core |
| C entry points (`src/ffi.rs`) | the caller's output variables | five exported functions, null guards, panic guard, publication of outputs on success and on error, conversion of the length to a C int | caller and parsers |
| C original (`reference/picohttpparser.c`) | the caller's struct and outputs | the same five functions, in a scalar and an SSE build | the oracle of the differential programs |
| Loopback consumer (`scripts/integ_http11.c`) | two ends' buffers, `last_len`, staging area, decoder, decoded body, exit code | streaming head loop, second parse of the header block, carry-over past the body, decode loop, reply and close, for either end | one thread, one TCP connection; the parsers as a library |
| Differential testers (`scripts/difftest_*.c`) | mismatch count | sweeps of prefixes, hints, capacities, cuts and dirty structs over a file | both sides with the same arguments |
| Fuzzers and triage (`scripts/fuzz_*.c`, `fuzz_triage.sh`) | work buffer, iteration, snapshot and case files, mismatch count | mutate, snapshot, call both sides, compare, dump; triage hands a dump to the tester | both sides; the file system; the tester |
| Benchmarks (`scripts/bench_*`, `reference/bench.c`) | timings | loops around single calls | neither |

Tests and corpus, and the compile-time pins of the ABI, are no part of what runs.

What is hard, and what makes each component correct:

* **Chunked decoder.** Any cut of the stream must give the same body; the write
  offset must not overtake the read offset; what a call leaves in the struct
  must be consistent whatever ended the call; the size arithmetic and the two
  64-bit counters of the overhead rule are wrapping; a call must terminate;
  a corrupt struct must fail closed, and any other must do what the original does.
* **Head parsers.** A head delivered in pieces must get the outcome it gets when
  delivered at once; the completeness gate restarts three bytes before
  `last_len` and must neither miss a terminator nor see one that is not there;
  outputs are published on errors too, and are the original's then too; header
  slots are written in two phases and never beyond the caller's capacity; the
  word-wide filter must not let a byte pass that decides something.
* **Entry points.** No mixture of the outputs of two attempts; null guards before
  any write; the width of the result.
* **Loopback consumer.** Where the reads cut the stream decides what is buffered
  when the head ends; every byte behind it must reach the decoder once; each size
  is checked before bytes are copied by it; a defective parser must fail the run, not hang
  it. The second parse of the header block is the place without a check: its begin
  is what `strstr` returns plus two, its size a difference of addresses.
* **Differential programs.** They must call the oracle only where C defines what
  it does, make every call they promise, find any difference in one, tell it in
  the exit code (1, where 2 says that the program gave up on a file or for want of
  memory), and leave the input of a crash on disk.

`PROJECT.json` lists the hazards line by line, with the properties for each.

## 2. Plan

In the order of importance. Done:

1. The decoder, its caller, its abstract specification, the grammar of the
   coding, and the proofs about them, that the decoder reads the grammar among them.
2. The head parsers with the outputs and guards of their entry points, under any
   caller and under a streaming one, and the grammar of a head; the proofs of
   their invariants, that what they accept and publish is the grammar's, and that
   they refuse or miss no head of it.
3. The SWAR filter, and the proof that it passes over no byte that decides.
4. The C original, and that the port stands in for it: proved step by step for the
   decoder, checked call by call for the heads.
5. The loopback consumer with correct and defective parsers; the proofs that it
   writes within its buffers and that correct parsers pass.
6. The differential testers, fuzzers and triage; the proofs of what they promise.

Left:

7. A proof of `AgreesWithOracle`, which needs the scans of the original stated as
   functions the prover can take apart.

## 3. Modules

| Module | What it is |
|---|---|
| `PicoBytes` | bytes, the classes the parsers branch on, `hex_val`, `copy_within` |
| `ChunkedDecoder` | `phr_decode_chunked` under any caller; its invariants |
| `ForgedDecoder` | the same on any struct: left behind, dirty, or forged |
| `OracleDecoder` | the C original's decoder on the caller's struct |
| `ChunkedDropIn` | the refinement mapping from the port's decoder to the original's |
| `ChunkedSession` | the decoder under a caller that keeps the contract |
| `ChunkedContract` | abstract: one walk over the stream, with no buffer and no calls |
| `ChunkedRefinement` | the refinement mapping from session to contract |
| `ChunkedReference` | the coding as a grammar over the whole stream; agreement with it |
| `SwarScan` | the word-at-a-time filter, with its borrows and carries |
| `HeadValues`, `HeadCore` | what the head parsers hand out; what they share: the completeness gate, values, the version, the header block and its sink |
| `RequestLine`, `StatusLine` | the first line of a request and of a response |
| `HeadParser` | the three entry points under any caller; their invariants |
| `OracleHead` | the C original's head parsers as functions, in both builds |
| `HeadDropIn` | port and original given the same arguments |
| `HeadSession` | a head parser under a caller that streams |
| `HeadReference` | a head as a grammar over the whole stream; agreement with it |
| `Integration` | the loopback consumer |
| `Drivers` | what the differential programs share: calls, comparison, mismatches, exit |
| `DiffTests`, `FuzzParse`, `FuzzChunked` | the sweeps; the two fuzzers |
| `Campaign` | any of the programs, and a fuzzer followed by triage |
| `SampleStreams`, `SampleHeads`, `MC*` | instances for TLC |
| `*Proofs` | the theorems (section 5) |

**`ChunkedDecoder`.** `dec` is the caller's struct; `st`, `left`, `hex` are the
locals of the same names; `buf` is the caller's buffer, rewritten in place, and
`input` a history variable that keeps what it was when the call began. A call
is `Enter` (prologue: counts the bytes read, loads the locals), then one action
per branch of the dispatch loop (a byte consumed, a piece of data moved, an
error), then `Epilogue` (write-back, compaction, overhead rule, result). The
grouping of the states in three chains in the code has no effect of its own and
is not represented; the loop over bytes is. `NullArgument` is the fail-closed
guard of the entry point, `Corrupt` the panic with the unwind guard. The caller
of `Spec` is unconstrained: it may call again after completion and after an
error, and with an empty buffer. `ForgedDecoder` starts it from any struct.

**`OracleDecoder`, `ChunkedDropIn`.** The original has no locals for state and
counts and leaves its switch by `goto Complete` or `goto Exit`; its actions are
those of its cases. The mapping overlays the port's locals on the struct. A step
of the port must be a step of the original, except the null guard and the forged
state, where `docs/divergences.md` says the original does not survive.

**`ChunkedSession`** adds the peer's stream, how much of it has been fed, the
body collected and the verdict, after the loop of `scripts/integ_http11.c`
205-239: it takes the decoded bytes before it looks at the result, drops what it
passed, and stops at the first verdict.

**`ChunkedContract`** says what the caller may rely on: framing is skipped, a
chunk is opened with a positive size, and what is appended to the body is the
stream's own next bytes, no more than the chunk owes; the outcome is final. The
mapping reads the abstract mode off `st`, `err` and `verdict`, and the abstract
position off `fed`, `src` and the length of the buffer.

**`ChunkedReference`** defines, by recursion over chunks and with no state
machine, what a prefix of a stream means: the verdict, the body, where its encoding
ends, and what the open chunk owes. The recursion is a function on the indices at
which a chunk may begin, so that it can be proved about; the trailer section is
its first line of CRs only, and what stands between size and line break is skipped.

**`HeadCore`, `RequestLine`, `StatusLine`, `HeadParser`.** `pc` names the loop
the running call is in, `pos` is its read offset, `start` the beginning of the
token being read. A loop of the code is a few actions, one per branch on the
current byte; running out of bytes is `Starved` for all the loops that use
`get(..)`, a bad line break `BadLineBreak`. Method, target and name are read as
in the code, byte by byte up to their terminator. A value is scanned as in
`get_token_to_eol`: windows of two clean words, then single clean words
(`"value_words"`, `"reason_words"`), then the byte loop.
`line` and `count` are the `Progress` of a call, which the entry points copy to
the caller's variables on every return, so they are the caller's outputs when
`pc` is `"idle"`; `phr_parse_headers` has no first line and leaves `line` as it
was zeroed. `slots` is the caller's array, written through the sink while
the call runs: a slot is `Stale` until this call writes it. A span is an
offset and a length, `Null` the null pointer (a continuation line's name).
`Enter` is the entry point up to the parse (zeroing, then the gate if `last_len` is
not 0), `NullArray` and `NullPointer` its two guards, `c_int` the conversion of
the length.

**`SwarScan`** gives `has_outside_printable` lane by lane: a word is a function
on its lanes, the subtraction borrows and the addition carries between them.

**`OracleHead`** is the original as operators that pass a parse in progress (a
record) from one part to the next; a part leaves a failed parse alone, as
`if ((buf = f(...)) == NULL) return NULL` does. `Sse` chooses the build, which
differ in how far `findchar_fast` skips and in which bytes it stops at.
`HeadDropIn` compares the whole outcome of each call of the port with it.

**`HeadSession`** is the head loop of `scripts/integ_http11.c` 119-140: each
call gets all bytes so far and the length before as `last_len`.
**`HeadReference`** splits a stream into lines and reads each of them as a
whole, with no gate, no offset carried and no partial answer.

**`Integration`** follows the one thread of the consumer through `phase`. A
stream is a range of offsets: `inflight` counts what is sent and not received,
`have` what the head loop has buffered, `have2` and `from` what is staged for the
decoder, `handed` how far the decoder has been given the stream. `recv`
(`Recvd`) returns any part of what is there, or nothing when there is nothing, or
when the server closed with bytes unread. The parsers are an environment:
correct ones answer what the fixture holds, given a zeroed decoder, the full
capacity, a hint that is the length before and each byte once; defective ones answer
anything within the bytes and the array they were given. `ServerHeaders` is the
second parse (`scripts/integ_http11.c` 155-173): `hs` is the address of the block,
two past the first CRLF received or past NULL (`PastFirstLine`), and `hlen` its
size as the `size_t` it is (`BlockSize`), which wraps for a head that ends before
`hs`. A parser given memory that was never received may take the process down
(`Crash`), or answer; the answer is compared as an `int` (`AsInt`), so that a
wrapped size is passed by one that is negative or more than was received.
`ServerCarry` comes after that check.

**`Drivers`** and the modules on it do not tell contents apart, only lengths. The
two sides agree but for one output of one call (`Defects`), or crash in it. A
program may give up (`GivesUp`, exit code 2): a tester before any of its files and,
for chunked bodies, in each call (`Refuses`, `ChunkedNoMemory`), a fuzzer while it
loads its seeds, without any, or in a call that has no memory. `argv` counts the
files still to be swept, `swept` (history) keeps those done, `pool` the seeds loaded.
`todo` is the list of calls to be made on the buffer; `Compare` makes the first
on both sides. `DiffTests` generates the sweep of a file, `FuzzParse` and
`FuzzChunked` the mutations (as what each may do to the length) and the calls of
an iteration (the cuts of a body, sorted as the code sorts them before it turns
them into call lengths). `Campaign` adds `Triage`: the tester of the same entry point on the
fuzzer's case file.

## 4. Runs

| Run | Question | Instance |
|---|---|---|
| `decoder` | the invariants of the decoder under any caller | buffers of up to 3 bytes over one byte of each class (two digits, CR, LF, `;`, a letter), 9 bytes in a decoder's life, limit of 2 digits, overhead limit 6, counters modulo 64 |
| `drop_in` | from any struct, each step is the original's; a forged state fails closed; every call returns | zeroed, dirty and forged structs, counters at zero and with the rule about to apply, buffers of up to 2 bytes, 6 bytes in a life, overhead limit 4 |
| `grammar` | verdict, body, leftover and `is_in_data` are those of the grammar, for every cut | all streams of up to 4 bytes, and two messages (extensions, two-digit sizes, trailers, leftover) with every replacement, removal and insertion of a byte |
| `session` | the decoder and its caller implement the contract; the counters; a stream is decided or read to its end | the same messages, streams of up to 3 bytes, overhead limit 8, so that the overhead rule ends sessions |
| `overhead` | expected to fail, see below | two valid messages, overhead limit 8 |
| `heads` | the invariants of the head parsers under any caller; calls return; agreement with the original in both builds | prefixes of a request, a response and a header block, edits of the block, a DEL at each place of the response, values of up to 7 bytes with four kinds of end, each given to all three entry points; hints 0 and 4; no slot or two; words of 2 lanes; a C int of 32 values, less than the longest head |
| `head_grammar` | answer and outputs are those of the grammar, for every cut and chained hints; a caller gets its answer or reads to the end | every replacement, removal and insertion of a byte (HT, LF, CR, SP, `:`, a letter, DEL) in a request with a leading empty line, a response with a continuation line, and a header block; all header blocks of up to 6 bytes over five classes; as many slots as the samples need, or one |
| `empty_block` | expected to fail, see below | samples with CR put in, blocks of up to 4 bytes |
| `integration` | the consumer writes within its buffers, has parsed twice only what it received (but for a head cut short by a defective parser), hands each byte over once, ends, and passes when nothing is wrong | the consumer's own sizes with correct parsers; small sizes (16-byte buffer, 5-byte body, a first line of 4 bytes) with correct and defective ones, so that each buffer is filled and heads end before, at and after the first line; the buffer at address 1000 (`BufAt`), a `size_t` of 65536 values (`SizeMod`) |
| `integration_split` | expected to fail, see below | the same |
| `campaign` | what the differential programs promise | no, one or two files on a tester's command line (`Args`), of 0, 3 and 5 bytes (above and below the size from which a chunked file is split at the quarters only), work buffers of 4, two capacities, two mutations, three iterations, two reports; a difference in each output in calls the sweeps make and in others |
| `triage` | expected to fail, see below | the same |

Bounds. The decoder's control depends on a byte only through its class, on
sizes only through "digits left", "zero or not" and "as much as is there", and
on the counters only through the rule; two digits, sizes up to 255 and a limit of
a few bytes meet all of these, including a third digit and a rule that bites in
the first, a middle and the last call. `Long` goes through every state. Three
bytes a call and nine a life let an unconstrained caller reach each state, end
there in each way, and call again twice. The parsers of a head branch on classes
of bytes too, one of which each sample and each edit puts at every place; the
gate looks back three bytes, so that two calls cut at every pair of offsets meet
every case of it, and a block of six bytes holds a field, a continuation and
an end, or two ends. Capacities are below, at and above the number of fields.
Words of two lanes give a value of seven bytes a clean window, a clean word and
bytes left over at every alignment; the filter itself is proved for every
number of lanes. `HexMax`, `Pow16`, `U64`, `OverheadLimit`, `Lanes` and `CIntMod`
are parameters of the modules; the code's values (16, 2^64, 102400, 8, 2^32) are
covered by the proofs where there is one. `MaxRead` (a bound) says that a
decoder is not fed 2^64 bytes.
A consumer with a 16-byte buffer, whose head, skip and coding together exceed it,
meets the full buffer, the body that does not fit and the carry-over with nothing
or something behind it, as the 4096-byte one would; the sizes are parameters of
the proofs. An address space of 65536
bytes is enough for a wrapped size to be told from every one that is not. The sweeps of
`DiffTests` depend on the file through its length and `BigFile` only, a second file
meets counts that the first one left, and the fuzzers' limits act at the same comparison for any size.

Deadlock checking is off where the system really stops: a session ends with its
verdict or its stream, a program with its exit code, and an unconstrained caller
ends at `MaxRead` only through `NullArgument`, which is always possible.

Fairness. A call runs on its caller's thread and waits for nothing, so
`Step \/ Epilogue` of the decoder (`ForgedFair`) and `Step` of the heads
(`FairDropIn`) are weakly fair. `FairSession` adds that a peer's bytes arrive
while the caller asks for them; it is assumed for `StreamDrained` and
`HeadDecided` only. `FairSpec` of `Integration` is weak fairness of its one
thread: a `recv` returns, because the code sets a receive timeout on every socket
(`set_timeout`), and the mutant without it hangs. The programs of `Campaign` are
sequential.

Four runs are expected to fail: each shows a disagreement between the code and
what a comment or document says of it.

* `overhead`. `src/core.rs` line 20 says of `Malformed` that the input can never
  become valid; the overhead rule (`src/chunked.rs` 285-290, inherited from the
  original) answers it in the middle of streams that are valid to their end. The
  rule is deliberate; the comment is too strong for it, and a caller that
  re-delivers the same bytes in other pieces may get another answer.
* `empty_block`. `phr_parse_headers` accepts a block that is an empty line when
  `last_len` is 0, and with any other `last_len` answers partial, since the gate
  waits for two line breaks (`src/core.rs` 131); `src/core.rs` line 18 says of
  `Partial` that the input is a strict prefix of a valid message. A caller that
  streams a standalone block (trailers, say) and meets an empty one cut between CR
  and LF is not answered. The other properties of `head_grammar` leave this block
  out (`EmptyBlock`) and hold for every other. The original does the same.
* `integration_split`. `scripts/integ_http11.c` lines 19 and 116 say that the run is
  deterministic because reads of a fixed size split delivery at fixed places. A
  `recv` may return less; if the head is then complete and the body behind it is
  not yet buffered, the carry-over fails the run although nothing is wrong.
  `integration` shows that it passes when each `recv` returns all there is.
* `triage`. `scripts/fuzz_triage.sh` line 14 and `docs/fuzzing.md` line 46 say that
  a case file of a fuzzer can be re-checked with the tester. The file holds the
  bytes only; a mismatch that needs the fuzzer's hint, cuts or struct is one
  the tester does not see, and triage refuses it as no reproduction.

One disagreement has no run that is expected to fail, because `ExitTells` states what
holds instead. `docs/fuzzing.md` line 16 says of the testers that they "exit nonzero iff
handed a file on which C and Rust disagree", and `scripts/difftest_request.c` line 13
"Exit 0 iff zero mismatches". They also exit with 2, with no mismatch, when no file
is named or a file cannot be opened, memory runs out or a read is short
(`scripts/difftest_request.c` 99-123, `scripts/difftest_chunked.c` 69-72 and 110-134), and the
fuzzers do while they load their seeds (`scripts/fuzz_parse.c` 108-141 and 526-564,
`scripts/fuzz_chunked.c` 395-424) and without memory in a call (361-364). So 0 says that
nothing differed in what was swept and 1 that something did; 2 says neither, and
mismatches found before are on the output only. `scripts/fuzz_triage.sh` line 96
takes 2 for an error of the oracle, as it is.

Two smaller slips met on the way and shown by no run: the comment at
`scripts/fuzz_chunked.c` 27-30 names the states 4 to 7 among those that abort in C
(only a state outside 0 to 7 does), and that at `scripts/integ_http11.c` 270 says
7-byte reads of a head that the code reads 16 bytes at a time.

## 5. Proofs

The theorems are for every value of the constants that satisfies the named
assumptions: `SizeAssumption` (a digit limit between 1 and 127, `Pow16` the powers of
16), `CounterAssumption` (`MaxRead < U64`: the counters' modulus exceeds what is
fed in a life), `InputAssumption` and `StreamAssumption` (buffers and streams
are byte sequences, a stream no longer than `MaxRead`), `StructsAssumption` (the
structs have the fields' types), `CallAssumption`, `LanesAssumption`,
`CIntAssumption` (byte sequences, natural numbers, positive widths),
`LengthAssumption` (a stream's length fits the C int a call returns: past it the
length wraps, see `heads`, where the C int has 32 values), and
`FixturesAssumption` (the sizes are natural numbers, more of the coding does not
decode to less, the reply has no body before its chunks, a sender's traffic
fits the socket buffer, and the first line of the request is part of its head and
fits the buffer), `AddressAssumption` (the server's buffer is not at address 0 to 2,
lies in the address space and is less than half of it), `LayoutAssumption` (a fixture for correct parsers is laid out as
the program's two are: it fits the buffers, and reads of full size stop where
the head, the body and the coding end), `DriversAssumption` (files have lengths,
a difference is in an output the call has), `SweepAssumption`,
`ParseAssumption` and `BodyAssumption` (sizes and limits are natural numbers; the
structs a fuzzer draws have at most 16 digits).

**`ChunkedDecoderProofs`.** The invariant `IInv` is the conjunction of what
the `decoder` run checks: `TypeOK`, `UnreadIntact`, `NeverCorrupt`,
`CarriedStateConsistent`, `DrainedBeforePartial`, `OverheadWithinRead` and
`LeftoverIntact`. None of them is inductive alone, together they are.
`UnreadIntact` needs that the write offset does not
pass the read offset, and both grow by the same amount in data and only the
latter in framing; `NeverCorrupt` needs the carried state, not only the local
one; `SizeNeverWraps` needs that a size of h digits is below 16^h, which the
bare type does not give and which holds across calls only because the count of
digits is carried and reset with the size. One lemma per action shows that it
preserves `IInv`.

**`ChunkedSessionProofs`.** `SInv` adds to `IInv` what ties the caller to the
decoder: the buffer of a call is the end of what was fed (`InputIsStream`), the
verdict agrees with the last outcome and the locals with the struct between calls
(`VerdictMatchesCall`), and the counters are exact in the middle
of a call too (`CountersInFlight`). `CountersExact`, `FramingBounded` and
`NothingLost` follow. `Refinement` proves that `SessionSpec` implements
`ChunkedContract`: framing steps map to `SkipFraming`, the LF of a size line to
`OpenChunk` or `LastChunk`, a data move to `Payload` (here the concatenation of
the pieces is shown to be the stream's), errors to `Reject`, and
delivering, running out of bytes and returning to stutters, except that the
return under the overhead rule is a `Reject`.

**`ChunkedReferenceProofs`.** The invariant `Reads` ties the dispatch loop to the
grammar. `Within` says where it stands: chunks before an index have been read,
and carried what was collected before it; since then digits (`InSize`), a line up
to its break (`InLine`), data and its break (`InData`, `AfterData`) or trailer
lines (`InTrailers`). `Follows` says of every longer stretch of the stream that
what it says is that body and what it says from the index on. It quantifies over
continuations because a call reads bytes that arrived, and the next one bytes
that had not: the invariant is about the stream, not about a call. `Decided` says that
an error or an end read so far is what every continuation says. Each action is
shown to move along the grammar; the grammar's equations (`RdSizeOpen` to
`RdTrailersEnd`) are lemmas by themselves. That recursion over data is defined
(`ReadingUnfolds`) is proved by the least index at which it is not, since the library's
induction theorems cannot be used.
Between two calls all bytes are read, and `DecodesTheCoding` and `InDataExact`
follow. The overhead rule is no part of the coding: it may fail an exchange the
grammar leaves open. `DecodesOrIsLimited` says so without a condition;
`DecodesCorrectly` and `RejectionIsFinal` exclude it by the number of bytes fed (fewer
than `OverheadLimit`), the condition under which the runs `grammar` and `overhead`
differ. `InDataTells` needs no condition.

**`ChunkedDropInProofs`.** `DropIn` proves `ReplacesOracle` from any struct at
all, so `IInv` is of no use: a forged or dirty struct breaks it. `DropInv` keeps
only the types, the order of the offsets, and that the locals are the struct's
between calls; each action is then matched with the case of the original that
it stands for. `ForgedFailsClosed` is the same argument for `FailsClosed`.

**`HeadParserProofs`.** First the filter: a lane below 0x20 or above 0x7e has the high bit of its
difference or sum set whatever it borrows or carries (`FilterSound`); so what the
loops of words skip holds no byte at which the byte loop would stop
(`CleanSkipsNoDecision`). The filter may stop for a printable byte next to a borrow;
the byte loop then decides, so nothing is claimed there.
Then the parsers: `HInv` adds to `HeadTypeOK`, `OutputsInOrder` and
`SlotsInOrder` where `pos`, `start` and `stop` stand for each value of `pc`
(`CursorsInBuffer`; only the gate may read past the end, since the hint is the
caller's), how much of the first line is published at each of its parts
(`FirstLineFirst`: this is where the bound on the status comes from, 900, 990,
999), and that all that is published ends before the header in progress
(`HeaderInProgress`). A piece is published once its end has been read, so the
order of pieces follows from the order of `start` values.

**`HeadReferenceProofs`.** The invariant `HeadReads` ties each value of `pc` to the
grammar. `Receiving` says that the buffer is what arrived of the stream.
`InFirstLine` says what the bytes read are as a beginning of a first line, and that
`line` holds the parts read (`AtMethod` to `InEol` for a request, `AtCode` to
`InStrip` for a response). `InBlock` says the same of a block: the whole message is
the headers counted followed by what the block says from the current line on
(`Headed`), and the bytes since then are a beginning of a field. It speaks of the whole
stream and not of what arrived, so that it holds across calls whatever the cut. A
piece is read by the grammar from the whole line at once (the first colon, the last
byte that is no blank), by the code from left to right; `PastIs` and `TrimIs` say when a scan
that stopped is that offset, `FieldIs`, `RequestIs` and `StatusIs` when the parts are
the line's. The fields of a block are a recursive function of its offsets; that it is
defined (`FieldsExist`) is proved by the least number of bytes left at which it is
not. `AcceptsOnlyHeads` and `PrefixKept` then say that what is accepted is a
head of the grammar with its parts, and that an error leaves the headers counted
as they stand in the message.

The other direction begins with what the grammar says of a stream that has a head
(`Owed`): the shape of its first line (`RequestSays`, `StatusSays`), of each field (`FieldSays`),
and that up to its end no CR stands alone and that it ends in two line breaks (`HeadEnds`, by the
least number of bytes left of a block). `HeadReads` places the parser in that shape, and
since where a scan stops is one offset (`Within`), the next byte is there before the
end and is one that the part accepts (`RequestIsDue`, `ResponseIsDue`, `BlockIsDue`): so no failing branch is open and what
asks for more bytes lacks some (`StepAnswered`). The invariant `HeadServes` adds what
`HeadReads` does not hold: `NameBegins`, that a line begun as a new header is one, and
`Gated`, that the gate is not past the last line break but one, or is at the last with one
counted. A call begins three bytes before the end of the one
before, which was short of the head (`HeadNotMissed` itself is the hypothesis here), and
the two breaks are four bytes at most; a CR before the first of them would have to be
part of it, so the gate cannot step over it. `NoHeadRejected` and `NoHeadMissed` follow. As the
properties say, they leave out a standalone block of no header, of which the run
`empty_block` shows the contrary.

**`IntegrationProofs`.** `BytesAccounted` says that every byte sent is at one place:
handed over, staged, buffered or in flight; `HeadLengthKnown` that a parsed
length is within the buffer, and right if the parser is. With the types and
`BuffersHold` they are inductive (`BlockFacts`: a head of at least the first line
makes `BlockSize` the bytes from there to its end, all of them received; what
the second parse is given otherwise is the exception that `BuffersHold` names), and `HandedOnce` follows: what is staged begins
where the bytes handed over end, and what `recv` brings begins there when the
stage is empty. `CorrectParsersPass` proves `CorrectRunPasses` by a second invariant:
`OnCourse` says that with correct parsers and reads that return all there is, each loop is
at one of the stops of its reads and before the one at which its message is complete, so that no
branch that fails the run is open. The layout of the traffic is an assumption,
which the constants of the program's two messages satisfy in the runs.

**`CampaignProofs`.** `CInv` holds for files, work buffers, capacities and limits of every
size. `CallsDefined` says of every call still to be made that C defines it (prefix
and hint within the buffer, lengths of a stream's calls within the bytes, a
struct the original accepts) and that the last one of a stream covers the buffer;
it is about the list, because the sweeps make their lists at once. `Tallied`
ties the count of mismatches to whether the sides differed, which `ExitTells`
needs at the end only, and `FilesTaken` says that a tester that comes to its end has
no file left; `RoomToReport` says that a fuzzer below its limit
is the one that makes calls; `SnapshotTaken` that the file holds the buffer of
every call, and of the crash in it; `StillToFind` that a difference in a call the sweep promises was
reported or is in the list, and `FoundInSwept` that one on a file swept before was reported,
so that a tester that gives up on a later file has a count to show. `triage => case \in Nat` is needed because triage hands the
case file's length to the tester. That the lists hold every promised call is proved
of the operators that make them.

**Only model-checked.** Termination (`CallReturns`, `HeadReturns`), `StreamDrained`,
`HeadDecided` and `RunEnds`: liveness is out of the prover's reach.
`AgreesWithOracle`: not out of reach, and not done (section 2).

## 6. Not modelled

* The benchmarks: timing loops around single calls, and the arithmetic of medians.
* The pins of the ABI: compile-time assertions. Signedness of `char` and 32-bit
  layouts (the casts have no effect on the modelled target).
* A forged `_hex_count` above the limit: outside the contract and named in
  `docs/divergences.md`. A `last_len` that is not the length of an earlier delivery
  is given to the parsers in `heads` (it must stay safe) but not in the sessions;
  one past the end of the buffer is not compared with the original, which is
  undefined there.
* A defective parser of `Integration` answers within the bytes and the array it was
  given and returns; one that loops for ever is not covered by `RunEnds`. What stands in
  memory beyond what was received is not modelled: that the second parse is given such
  memory, for a head that ends within the first line, is what the code does, and its
  outcome is any answer, or the end of the process. The headers that a
  defective parser counts and did not write are compared with either result.
* What the original does on a state outside the eight (`abort` or a loop), and
  `memcpy` on overlapping ranges: the copy is modelled by its effect.
* The random generators of the fuzzers (any draw is taken), the choice of `all`
  as an entry point in `fuzz_parse` (each entry is a program of its own), the difference
  between the configured and the default directory of case files (one flag says whether it
  can be written), which of the causes makes a program give up (a bad command line, a
  file, memory, a short read: one choice), the minimisation and the size limit in
  `fuzz_triage.sh`, and Windows paths and sockets.
