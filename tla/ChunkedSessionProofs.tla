------------------------ MODULE ChunkedSessionProofs ------------------------
(***************************************************************************)
(* The decoder under its caller, for every stream and every way of cutting *)
(* it into calls: the counters, the octets left, and the refinement of     *)
(* ChunkedContract.                                                        *)
(***************************************************************************)
EXTENDS ChunkedRefinement, ChunkedDecoderProofs, SequenceTheorems

(* A call runs only while the verdict is out, and the verdict is the call's. *)
VerdictMatchesCall ==
  /\ pc # "idle" => verdict = "more"
  /\ pc = "idle" =>
       /\ dec.state = st /\ dec.bytes_left = left /\ dec.hex_count = hex
       /\ err = "malformed" => verdict = "failed"
       /\ err = "complete" => verdict = "complete"
  /\ pc = "idle" /\ verdict = "more" =>
       err \in {"none", "partial"} /\ src = Len(buf)
  /\ verdict = "complete" => err = "complete" /\ ret = Len(buf) - src
  /\ verdict = "failed" => err \in {"malformed", "partial"}

(* The buffer of the running or last call came from the end of what was fed. *)
InputIsStream ==
  /\ Len(buf) <= fed
  /\ \A i \in 1 .. Len(input) : input[i] = stream[fed - Len(input) + i]

(* CountersExact, in the middle of a call as well. *)
CountersInFlight ==
  /\ dec.total_read = fed
  /\ verdict = "more" =>
       dec.total_overhead + (IF pc = "idle" THEN 0 ELSE Len(buf))
         = fed - Len(body)

SInv ==
  /\ IInv
  /\ SessionTypeOK
  /\ VerdictMatchesCall
  /\ InputIsStream
  /\ CountersInFlight
  /\ FramingBounded

-----------------------------------------------------------------------------
(* The n elements of a sequence that follow offset m. *)
LEMMA SliceOf ==
  ASSUME NEW S, NEW s, NEW m \in Nat, NEW n \in Nat,
         \A i \in m + 1 .. m + n : s[i] \in S
  PROVE  /\ SubSeq(s, m + 1, m + n) \in Seq(S)
         /\ Len(SubSeq(s, m + 1, m + n)) = n
         /\ \A i \in 1 .. n : SubSeq(s, m + 1, m + n)[i] = s[m + i]
  <1>1. /\ SubSeq(s, m + 1, m + n) \in Seq(S)
        /\ Len(SubSeq(s, m + 1, m + n))
             = IF m + 1 <= m + n THEN (m + n) - (m + 1) + 1 ELSE 0
        /\ \A i \in 1 .. (m + n) - (m + 1) + 1 :
             SubSeq(s, m + 1, m + n)[i] = s[(m + 1) + i - 1]
    BY SubSeqProperties
  <1>2. \A i \in 1 .. n : (m + 1) + i - 1 = m + i
    OBVIOUS
  <1>. QED
    BY <1>1, <1>2

LEMMA SessionInitInv == SessionInit => SInv
  <1>. SUFFICES ASSUME SessionInit PROVE SInv
    OBVIOUS
  <1>1. IInv /\ TypeOK
    BY InitIInv DEF SessionInit, IInv
  <1>2. PICK trailer \in BOOLEAN : InitWith(Fresh(trailer))
    BY DEF SessionInit, Init
  <1>3. /\ dec = Fresh(trailer)
        /\ pc = "idle" /\ buf = << >> /\ input = << >>
        /\ src = 0 /\ dst = 0 /\ st = 0 /\ left = 0 /\ hex = 0
        /\ err = "none" /\ ret = 0 /\ bufsz = 0
    BY <1>2 DEF InitWith, Fresh, ST_SIZE
  <1>4. /\ stream \in Streams /\ stream \in Seq(Byte) /\ Len(stream) \in Nat
        /\ fed = 0 /\ body = << >> /\ verdict = "more"
    BY StreamAssumption DEF SessionInit
  <1>5. SessionTypeOK
    BY <1>1, <1>4 DEF SessionTypeOK
  <1>6. VerdictMatchesCall
    BY <1>3, <1>4 DEF VerdictMatchesCall, Fresh, ST_SIZE
  <1>8. InputIsStream
    <2>1. Len(buf) = 0 /\ Len(input) = 0
      BY <1>3
    <2>. QED
      BY <1>4, <2>1 DEF InputIsStream
  <1>9. FramingBounded
    <2>1. Len(body) = 0 /\ fed \div 4 = 0
      BY <1>4
    <2>. QED
      BY <2>1 DEF FramingBounded
  <1>7. CountersInFlight
    <2>1. /\ dec.total_read = 0 /\ dec.total_overhead = 0 /\ Len(body) = 0
          /\ fed = 0
      BY <1>3, <1>4 DEF Fresh
    <2>2. dec.total_overhead + (IF pc = "idle" THEN 0 ELSE Len(buf)) = 0
      BY <1>3, <2>1
    <2>3. fed - Len(body) = 0
      BY <2>1
    <2>. QED
      BY <1>4, <2>1, <2>2, <2>3 DEF CountersInFlight
  <1>. QED
    BY <1>1, <1>5, <1>6, <1>7, <1>8, <1>9 DEF SInv

(* A step of the loop leaves the caller's side as it is. *)
LEMMA StepKeeps ==
  ASSUME IInv, Step
  PROVE  /\ IInv'
         /\ pc = "loop" /\ pc' # "idle"
         /\ dec' = dec /\ input' = input /\ ret' = ret /\ bufsz' = bufsz
         /\ Len(buf') = Len(buf) /\ Len(buf) = Len(input)
  <1>1. IInv'
    BY NextIInv DEF Next
  <1>2. /\ pc = "loop" /\ pc' # "idle"
        /\ dec' = dec /\ input' = input /\ ret' = ret /\ bufsz' = bufsz
    BY NoCorruptStep
    DEF Step, OutOfBytes, SizeDigit, SizeEnd, SizeReject, ExtByte, HeaderLF,
        DataShort, DataFull, DataEnd, TrailLine, TrailEnd, BadLineBreak,
        At, Break, SkipTo, Frame, TakeData
  <1>3. Len(buf) = Len(input) /\ Len(buf') = Len(input')
    BY <1>1 DEF IInv, UnreadIntact, CursorsOrdered
  <1>. QED
    BY <1>1, <1>2, <1>3

LEMMA WorkInv == ASSUME SInv, Work PROVE SInv'
  <1>1. /\ IInv' /\ pc = "loop" /\ pc' # "idle"
        /\ dec' = dec /\ input' = input /\ ret' = ret /\ bufsz' = bufsz
        /\ Len(buf') = Len(buf) /\ Len(buf) = Len(input)
    BY StepKeeps DEF SInv, Work
  <1>2. /\ stream' = stream /\ fed' = fed /\ body' = body
        /\ verdict' = verdict /\ verdict = "more"
    BY <1>1 DEF SInv, Work, session, VerdictMatchesCall
  <1>3. SessionTypeOK'
    BY <1>1, <1>2 DEF SInv, IInv, SessionTypeOK
  <1>4. VerdictMatchesCall' /\ InputIsStream' /\ FramingBounded'
    BY <1>1, <1>2
    DEF SInv, VerdictMatchesCall, InputIsStream, FramingBounded
  <1>5. CountersInFlight'
    BY <1>1, <1>2 DEF SInv, CountersInFlight
  <1>. QED
    BY <1>1, <1>3, <1>4, <1>5 DEF SInv

LEMMA DeliverInv ==
  ASSUME SInv, NEW n \in 1 .. Len(stream) - fed, Deliver(n)
  PROVE  SInv'
  <1>. DEFINE data == SubSeq(stream, fed + 1, fed + n)
  <1>1. /\ stream \in Seq(Byte) /\ Len(stream) \in Nat
        /\ fed \in Nat /\ fed + n <= Len(stream) /\ n \in Nat
    BY DEF SInv, SessionTypeOK
  <1>2. /\ data \in Seq(Byte) /\ Len(data) = n
        /\ \A i \in 1 .. n : data[i] = stream[fed + i]
    <2>1. \A i \in fed + 1 .. fed + n : stream[i] \in Byte
      BY <1>1
    <2>. QED
      BY <1>1, <2>1, SliceOf
  <1>. HIDE DEF data
  <1>3. Enter(data) /\ verdict = "more"
    BY DEF Deliver, data
  <1>4. IInv'
    BY <1>2, <1>3, EnterStep DEF SInv
  <1>5. /\ pc = "idle" /\ pc' = "loop" /\ buf' = data /\ input' = data
        /\ err' = "none" /\ src' = 0 /\ dst' = 0 /\ ret' = ret
        /\ dec' = [dec EXCEPT !.total_read = Counted(data)]
    BY <1>3 DEF Enter
  <1>6. /\ stream' = stream /\ fed' = fed + n /\ body' = body
        /\ verdict' = verdict
    BY DEF Deliver
  <1>7. SessionTypeOK'
    BY <1>1, <1>4, <1>6 DEF SInv, IInv, SessionTypeOK
  <1>8. VerdictMatchesCall' /\ FramingBounded'
    BY <1>3, <1>5, <1>6 DEF VerdictMatchesCall, FramingBounded
  <1>9. InputIsStream'
    <2>1. Len(buf') = n /\ Len(input') = n /\ fed' - n = fed
      BY <1>1, <1>2, <1>5, <1>6
    <2>. QED
      BY <1>1, <1>2, <1>5, <1>6, <2>1 DEF InputIsStream
  <1>10. CountersInFlight'
    <2>1. /\ dec \in Decoders /\ dec.total_read \in Nat
          /\ dec.total_overhead \in Nat /\ dec.total_read = fed
          /\ dec.total_overhead + 0 = fed - Len(body)
      BY <1>3, <1>5, DecoderFields
      DEF SInv, IInv, TypeOK, CountersInFlight
    <2>2. dec.total_read + n \in Nat /\ dec.total_read + n <= MaxRead
      BY <1>1, <1>2, <1>3, <2>1 DEF Enter
    <2>3. Counted(data) = dec.total_read + n
      <3>1. U64 \in Nat \ {0} /\ dec.total_read + n < U64
        BY <2>2, CounterAssumption
      <3>. QED
        BY <1>2, <2>2, <3>1, Modulo DEF Counted
    <2>4. /\ dec'.total_read = dec.total_read + n
          /\ dec'.total_overhead = dec.total_overhead
      BY <1>5, <2>1, <2>2, <2>3, DecoderCounts, CounterAssumption
    <2>5. Len(body) \in Nat /\ Len(buf') = n
      BY <1>2, <1>5 DEF SInv, SessionTypeOK
    <2>6. dec'.total_overhead + n = fed' - Len(body')
      BY <1>1, <1>6, <2>1, <2>4, <2>5
    <2>7. dec'.total_read = fed'
      BY <1>6, <2>1, <2>4
    <2>. QED
      BY <1>5, <2>5, <2>6, <2>7 DEF CountersInFlight
  <1>. QED
    BY <1>4, <1>7, <1>8, <1>9, <1>10 DEF SInv

(* The decoded bytes survive the compaction at the end of a call. *)
LEMMA DecodedSurvive ==
  ASSUME IInv, Epilogue
  PROVE  /\ dst' = dst /\ bufsz' = dst /\ src' = src /\ Len(buf') = Len(buf)
         /\ buf' \in Seq(Byte)
         /\ \A i \in 1 .. dst : buf'[i] = buf[i]
         /\ SubSeq(buf', 1, dst) = SubSeq(buf, 1, dst)
         /\ SubSeq(buf, 1, dst) \in Seq(Byte)
         /\ Len(SubSeq(buf, 1, dst)) = dst
  <1>1. /\ buf' = copy_within(buf, src, Len(buf) - src, dst)
        /\ dst' = dst /\ bufsz' = dst /\ src' = src
        /\ buf \in Seq(Byte) /\ Len(buf) \in Nat
        /\ src \in Nat /\ dst \in Nat /\ dst <= src /\ src <= Len(buf)
    BY DEF Epilogue, Compacted, local, IInv, TypeOK, UnreadIntact,
           CursorsOrdered
  <1>2. /\ buf' \in Seq(Byte) /\ Len(buf') = Len(buf)
    BY <1>1, Compaction DEF Compacted
  <1>3. \A i \in 1 .. dst : buf'[i] = buf[i] /\ buf[i] \in Byte
    BY <1>1 DEF copy_within
  <1>4. /\ SubSeq(buf, 1, dst) \in Seq(Byte)
        /\ Len(SubSeq(buf, 1, dst)) = dst
        /\ \A i \in 1 .. dst : SubSeq(buf, 1, dst)[i] = buf[i]
    BY <1>1, <1>3, SubSeqProperties
  <1>5. /\ SubSeq(buf', 1, dst) \in Seq(Byte)
        /\ Len(SubSeq(buf', 1, dst)) = dst
        /\ \A i \in 1 .. dst : SubSeq(buf', 1, dst)[i] = buf'[i]
    BY <1>1, <1>3, SubSeqProperties
  <1>6. SubSeq(buf', 1, dst) = SubSeq(buf, 1, dst)
    BY <1>1, <1>3, <1>4, <1>5, SeqEqual
  <1>. QED
    BY <1>1, <1>2, <1>3, <1>4, <1>6

LEMMA ReturnInv == ASSUME SInv, Return PROVE SInv'
  <1>1. /\ pc = "exit" /\ pc' = "idle" /\ input' = input
        /\ st' = st /\ left' = left /\ hex' = hex /\ err' = err
        /\ stream' = stream /\ fed' = fed
        /\ body' = body \o SubSeq(buf', 1, bufsz')
        /\ verdict' = IF ret' = PARTIAL THEN "more"
                      ELSE IF ret' = MALFORMED THEN "failed" ELSE "complete"
    BY DEF Return, Epilogue, local
  <1>2. IInv /\ IInv'
    BY EpilogueStep DEF SInv, Return
  <1>3. verdict = "more"
    BY <1>1 DEF SInv, VerdictMatchesCall
  <1>4. /\ dst' = dst /\ bufsz' = dst /\ src' = src /\ Len(buf') = Len(buf)
        /\ SubSeq(buf', 1, dst) \in Seq(Byte)
        /\ Len(SubSeq(buf', 1, dst)) = dst
    BY <1>2, DecodedSurvive DEF Return
  <1>5. /\ body \in Seq(Byte) /\ Len(body) \in Nat /\ fed \in Nat
        /\ Len(buf) \in Nat /\ dst \in Nat /\ src \in Nat /\ src <= Len(buf)
        /\ Len(buf) = Len(input)
    BY SMTT(60), <1>2
    DEF SInv, SessionTypeOK, IInv, TypeOK, UnreadIntact, CursorsOrdered
  <1>6. body' \in Seq(Byte) /\ Len(body') = Len(body) + dst
    BY <1>1, <1>4, <1>5, ConcatProperties
  <1>7. /\ err \in {"complete", "partial", "malformed"}
        /\ err = "complete"  => ret' = Len(buf) - src
        /\ err = "malformed" => ret' = MALFORMED
        /\ err = "partial"   => ret' \in {MALFORMED, PARTIAL}
    BY <1>1, <1>2 DEF IInv, TypeOK, Return, Epilogue
  <1>8. SessionTypeOK'
    BY <1>1, <1>2, <1>6 DEF SInv, IInv, SessionTypeOK
  <1>9. InputIsStream'
    BY <1>1, <1>4 DEF SInv, InputIsStream
  <1>10. VerdictMatchesCall'
    <2>1. dec'.state = st /\ dec'.bytes_left = left /\ dec'.hex_count = hex
      BY <1>2, Published DEF Return, IInv, TypeOK
    <2>2. /\ err = "malformed" => verdict' = "failed"
          /\ err = "complete" => verdict' = "complete"
          /\ verdict' = "more" => err = "partial"
          /\ verdict' = "complete" => err = "complete"
          /\ verdict' = "failed" => err \in {"malformed", "partial"}
      BY <1>1, <1>5, <1>7 DEF MALFORMED, PARTIAL
    <2>3. err = "partial" => src = Len(buf)
      BY <1>2 DEF IInv, DrainedBeforePartial
    <2>. QED
      BY <1>1, <1>4, <1>7, <2>1, <2>2, <2>3 DEF VerdictMatchesCall
  <1>11. CountersInFlight' /\ FramingBounded'
    <2>. DEFINE overhead == (dec.total_overhead + Framing) % U64
    <2>1. /\ dec.total_read = fed /\ dec.total_overhead \in Nat
          /\ dec.total_read \in Nat /\ dec.total_read <= MaxRead
          /\ dec.total_overhead + Len(buf) = fed - Len(body)
      BY <1>1, <1>2, <1>3, DecoderFields
      DEF SInv, CountersInFlight, IInv, TypeOK
    <2>2. /\ Framing = Len(buf) - dst /\ dst <= Len(buf)
          /\ dec.total_overhead + Framing \in Nat
          /\ dec.total_overhead + Framing < U64
          /\ U64 \in Nat \ {0}
      BY SMTT(60), <1>2, <1>5, <2>1, CounterAssumption
      DEF Framing, IInv, UnreadIntact, CursorsOrdered
    <2>3. overhead = dec.total_overhead + Framing
      BY <2>2, Modulo
    <2>. HIDE DEF overhead
    <2>4. overhead = fed - Len(body')
      <3>1. /\ overhead = dec.total_overhead + (Len(buf) - dst)
            /\ dec.total_overhead + Len(buf) = fed - Len(body)
            /\ Len(body') = Len(body) + dst
        BY <1>6, <2>1, <2>2, <2>3
      <3>2. /\ dec.total_overhead \in Nat /\ Len(buf) \in Nat /\ dst \in Nat
            /\ fed \in Nat /\ Len(body) \in Nat
        BY <1>5, <2>1
      <3>. QED
        BY SMTT(60), <3>1, <3>2
    <2>5. /\ dec'.total_read = dec.total_read
          /\ err = "partial" => dec'.total_overhead = overhead
      BY <1>2, Published DEF Return, IInv, TypeOK, overhead
    <2>6. verdict' = "more" =>
            err = "partial" /\ ~OverheadExceeded(dec.total_read, overhead)
      BY <1>1, <1>5, <1>7 DEF Return, Epilogue, MALFORMED, PARTIAL, overhead
    <2>7. CountersInFlight'
      BY <1>1, <2>1, <2>4, <2>5, <2>6, <1>5, <1>6 DEF CountersInFlight
    <2>8. verdict' = "more" =>
            \/ overhead < OverheadLimit
            \/ Len(body') >= fed \div 4
      <3>1. /\ fed - overhead = Len(body') /\ Len(body') \in Nat
            /\ Len(body') <= fed /\ overhead \in Nat
        BY <1>5, <1>6, <2>2, <2>3, <2>4
      <3>2. (fed - overhead) % U64 = Len(body')
        <4>1. Len(body') < U64
          BY <1>5, <2>1, <3>1, CounterAssumption
        <4>. QED
          BY <2>2, <3>1, <4>1, Modulo
      <3>3. fed \div 4 \in Int /\ OverheadLimit \in Nat
        BY <1>5, CounterAssumption
      <3>. QED
        BY <2>1, <2>6, <3>1, <3>2, <3>3 DEF OverheadExceeded
    <2>9. FramingBounded'
      BY <1>1, <2>4, <2>8 DEF FramingBounded
    <2>. QED
      BY <2>7, <2>9
  <1>. QED
    BY <1>2, <1>8, <1>9, <1>10, <1>11 DEF SInv

LEMMA SessionNextInv == SInv /\ [SessionNext]_allvars => SInv'
  <1>. SUFFICES ASSUME SInv, [SessionNext]_allvars PROVE SInv'
    OBVIOUS
  <1>1. ASSUME NEW n \in 1 .. Len(stream) - fed, Deliver(n) PROVE SInv'
    BY <1>1, DeliverInv
  <1>2. CASE Work
    BY <1>2, WorkInv
  <1>3. CASE Return
    BY <1>3, ReturnInv
  <1>4. CASE UNCHANGED allvars
    <2>1. /\ UNCHANGED vars /\ stream' = stream /\ fed' = fed
          /\ body' = body /\ verdict' = verdict
      BY <1>4 DEF allvars, session
    <2>2. IInv'
      BY <2>1, NoStep DEF SInv
    <2>3. /\ dec' = dec /\ pc' = pc /\ buf' = buf /\ input' = input
          /\ src' = src /\ st' = st /\ left' = left /\ hex' = hex
          /\ err' = err /\ ret' = ret
      BY <2>1 DEF vars, local
    <2>. QED
      BY <2>1, <2>2, <2>3
      DEF SInv, SessionTypeOK, IInv, VerdictMatchesCall, InputIsStream,
          CountersInFlight, FramingBounded
  <1>. QED
    BY <1>1, <1>2, <1>3, <1>4 DEF SessionNext

-----------------------------------------------------------------------------
(***************************************************************************)
(* What the session runs check, for all streams and all values of the      *)
(* constants.                                                              *)
(***************************************************************************)
THEOREM SessionInvariance == SessionSpec => []SInv
  BY SessionInitInv, SessionNextInv, PTL DEF SessionSpec

(* The variables of caller and decoder always have their types. *)
THEOREM SessionTypeCorrect == SessionSpec => []SessionTypeOK
  <1>1. SInv => SessionTypeOK
    BY DEF SInv
  <1>. QED
    BY <1>1, SessionInvariance, PTL

(* Bytes read less framing counted is the length of the body delivered. *)
THEOREM CountersMeanBytes == SessionSpec => []CountersExact
  <1>1. SInv => CountersExact
    <2>. SUFFICES ASSUME SInv, pc = "idle", verdict = "more"
                  PROVE  /\ dec.total_read = fed
                         /\ dec.total_read - dec.total_overhead = Len(body)
      BY DEF CountersExact
    <2>1. /\ dec.total_read = fed
          /\ dec.total_overhead + 0 = fed - Len(body)
          /\ Len(body) \in Nat /\ fed \in Nat
      BY DEF SInv, CountersInFlight, SessionTypeOK
    <2>2. dec.total_overhead \in Nat
      BY DecoderFields DEF SInv, SessionTypeOK, TypeOK
    <2>. QED
      BY <2>1, <2>2
  <1>. QED
    BY <1>1, SessionInvariance, PTL

(* An exchange that goes on is not framing for the most part. *)
THEOREM FramingIsBounded == SessionSpec => []FramingBounded
  <1>1. SInv => FramingBounded
    BY DEF SInv
  <1>. QED
    BY <1>1, SessionInvariance, PTL

(* The octets left by a completed call are the next ones of the stream. *)
THEOREM LeftoverIsStream == SessionSpec => []NothingLost
  <1>1. SInv => NothingLost
    <2>. SUFFICES ASSUME SInv, verdict = "complete"
                  PROVE  /\ Position + ret = fed
                         /\ SubSeq(buf, bufsz + 1, bufsz + ret)
                              = SubSeq(stream, Position + 1, fed)
      BY DEF NothingLost
    <2>1. /\ pc = "idle" /\ ret = Len(buf) - src
          /\ src \in Nat /\ Len(buf) \in Nat /\ src <= Len(buf)
          /\ Len(buf) = Len(input) /\ bufsz \in Nat
          /\ fed \in Nat /\ Len(stream) \in Nat /\ fed <= Len(stream)
          /\ Len(buf) <= fed
          /\ buf \in Seq(Byte) /\ stream \in Seq(Byte)
      BY DEF SInv, IInv, VerdictMatchesCall, TypeOK, UnreadIntact,
             CursorsOrdered, SessionTypeOK, InputIsStream
    <2>2. ret \in Nat /\ Position + ret = fed /\ Position \in Nat
      BY <2>1 DEF Position
    <2>3. /\ bufsz + ret <= Len(buf)
          /\ \A i \in 1 .. ret : buf[bufsz + i] = input[Len(input) - ret + i]
      BY <2>1, <2>2 DEF SInv, IInv, LeftoverIntact
    <2>4. \A i \in 1 .. ret : input[Len(input) - ret + i] = stream[Position + i]
      <3>1. \A i \in 1 .. ret :
              /\ Len(input) - ret + i \in 1 .. Len(input)
              /\ fed - Len(input) + (Len(input) - ret + i) = Position + i
        BY SMTT(60), <2>1, <2>2
      <3>. QED
        BY <3>1 DEF SInv, InputIsStream
    <2>5. /\ \A i \in bufsz + 1 .. bufsz + ret : buf[i] \in Byte
          /\ \A i \in Position + 1 .. Position + ret : stream[i] \in Byte
      BY <2>1, <2>2, <2>3
    <2>6. /\ SubSeq(buf, bufsz + 1, bufsz + ret) \in Seq(Byte)
          /\ Len(SubSeq(buf, bufsz + 1, bufsz + ret)) = ret
          /\ \A i \in 1 .. ret :
               SubSeq(buf, bufsz + 1, bufsz + ret)[i] = buf[bufsz + i]
      BY <2>1, <2>2, <2>5, SliceOf
    <2>7. /\ SubSeq(stream, Position + 1, Position + ret) \in Seq(Byte)
          /\ Len(SubSeq(stream, Position + 1, Position + ret)) = ret
          /\ \A i \in 1 .. ret :
               SubSeq(stream, Position + 1, Position + ret)[i]
                 = stream[Position + i]
      BY <2>1, <2>2, <2>5, SliceOf
    <2>. QED
      BY ZenonT(60), <2>2, <2>3, <2>4, <2>6, <2>7, SeqEqual
  <1>. QED
    BY <1>1, SessionInvariance, PTL

-----------------------------------------------------------------------------
(***************************************************************************)
(* The refinement: every step of decoder and caller is a step of the       *)
(* contract, or none.                                                      *)
(***************************************************************************)
LEMMA InitRefines == SessionInit => Contract!Init
  <1>. SUFFICES ASSUME SessionInit PROVE Contract!Init
    OBVIOUS
  <1>1. PICK trailer \in BOOLEAN : InitWith(Fresh(trailer))
    BY DEF SessionInit, Init
  <1>2. /\ dec.consume_trailer = trailer
        /\ pc = "idle" /\ Len(buf) = 0 /\ src = 0 /\ st = 0 /\ err = "none"
        /\ stream \in Streams /\ fed = 0 /\ body = << >> /\ verdict = "more"
    BY <1>1 DEF InitWith, Fresh, ST_SIZE, SessionInit
  <1>3. Position = 0 /\ AbstractMode = "framing" /\ Owed = 0 /\ Collected = << >>
    BY <1>2
    DEF Position, AbstractMode, Owed, Collected, Trailer, ST_DATA,
        ST_TRAIL_HEAD, ST_TRAIL_MID
  <1>. QED
    BY <1>2, <1>3 DEF Contract!Init

(* Where the decoder is in the stream. *)
LEMMA PositionInStream ==
  ASSUME SInv
  PROVE  /\ Position \in Nat /\ Position + (Len(buf) - src) = fed
         /\ fed <= Len(stream) /\ fed \in Nat /\ Len(stream) \in Nat
         /\ stream \in Seq(Byte)
  <1>1. /\ buf \in Seq(Byte) /\ stream \in Seq(Byte)
        /\ src \in Nat /\ fed \in 0 .. Len(stream)
    BY DEF SInv, IInv, TypeOK, SessionTypeOK
  <1>2. src <= Len(buf) /\ Len(buf) = Len(input) /\ Len(input) <= fed
    BY DEF SInv, IInv, UnreadIntact, CursorsOrdered, InputIsStream
  <1>3. Len(buf) \in Nat /\ Len(stream) \in Nat
    BY <1>1, LenProperties
  <1>4. Position = (fed - Len(buf)) + src
    BY DEF Position
  <1>. QED
    BY <1>1, <1>2, <1>3, <1>4

(* Framing bytes consumed one by one, and steps that consume none. *)
LEMMA FramingStep ==
  ASSUME SInv, Work, src < Len(buf), src' = src + 1, buf' = buf, dst' = dst
  PROVE  /\ stream' = stream /\ dec' = dec
         /\ 1 <= Len(stream) - Position /\ Position' = Position + 1
         /\ Collected' = Collected
  <1>1. /\ pc = "loop" /\ pc' # "idle" /\ dec' = dec
        /\ stream' = stream /\ fed' = fed /\ body' = body
    BY StepKeeps DEF SInv, Work, session
  <1>2. src \in Nat /\ Len(buf) \in Nat
    BY <1>1, InLoop DEF SInv
  <1>. QED
    <2>1. 1 <= Len(stream) - Position
      BY <1>2, PositionInStream
    <2>2. Position' = fed - Len(buf) + (src + 1) /\ fed \in Nat
      BY <1>1, PositionInStream DEF Position
    <2>3. Position' = Position + 1
      BY <1>2, <2>2 DEF Position
    <2>4. Collected' = Collected
      BY <1>1 DEF Collected
    <2>. QED
      BY <1>1, <2>1, <2>3, <2>4

LEMMA StillStep ==
  ASSUME SInv, Work, src' = src, buf' = buf, dst' = dst
  PROVE  /\ stream' = stream /\ dec' = dec
         /\ Position' = Position /\ Collected' = Collected
  <1>1. /\ pc = "loop" /\ pc' # "idle" /\ dec' = dec
        /\ stream' = stream /\ fed' = fed /\ body' = body
    BY StepKeeps DEF SInv, Work, session
  <1>. QED
    BY <1>1 DEF Position, Collected

(* In the loop the abstract mode is that of the local state. *)
LEMMA ModeInLoop ==
  ASSUME SInv, pc = "loop"
  PROVE  /\ err = "none" /\ verdict = "more" /\ st \in States
         /\ AbstractMode = IF st = ST_DATA THEN "data"
                           ELSE IF st \in Trailer THEN "trailer" ELSE "framing"
  <1>1. err = "none" /\ verdict = "more" /\ st \in States
    BY InLoop DEF SInv, VerdictMatchesCall
  <1>. QED
    BY <1>1 DEF AbstractMode

(* Framing that opens no chunk and ends nothing. *)
LEMMA SkipRefines ==
  ASSUME SInv, Work, SizeDigit \/ ExtByte \/ DataEnd \/ TrailLine
  PROVE  Contract!SkipFraming
  <1>1. /\ pc = "loop" /\ src < Len(buf) /\ src' = src + 1 /\ buf' = buf
        /\ dst' = dst /\ err' = err
        /\ \/ st \in Trailer /\ st' \in Trailer
           \/ st \notin Trailer \cup {ST_DATA} /\ st' \notin Trailer \cup {ST_DATA}
    BY DEF SizeDigit, ExtByte, DataEnd, TrailLine, At, SkipTo, Frame, Trailer,
           ST_SIZE, ST_EXT, ST_EXPECT_LF, ST_DATA, ST_DATA_CR, ST_DATA_LF,
           ST_TRAIL_HEAD, ST_TRAIL_MID
  <1>2. verdict' = verdict
    BY DEF Work, session
  <1>3. AbstractMode \in {"framing", "trailer"} /\ AbstractMode' = AbstractMode
    BY <1>1, <1>2, ModeInLoop
    DEF AbstractMode, Trailer, ST_DATA, ST_TRAIL_HEAD, ST_TRAIL_MID
  <1>4. Owed' = Owed
    BY <1>1 DEF Owed, Trailer, ST_DATA, ST_TRAIL_HEAD, ST_TRAIL_MID
  <1>5. /\ stream' = stream /\ dec' = dec
        /\ 1 <= Len(stream) - Position /\ Position' = Position + 1
        /\ Collected' = Collected
    BY <1>1, FramingStep
  <1>. QED
    BY <1>3, <1>4, <1>5 DEF Contract!SkipFraming, Contract!Read

LEMMA RejectRefines ==
  ASSUME SInv, Work, SizeReject \/ BadLineBreak
  PROVE  Contract!Reject
  <1>1. /\ pc = "loop" /\ src' = src /\ buf' = buf /\ dst' = dst
        /\ st' = st /\ left' = left /\ err' = "malformed"
    BY DEF SizeReject, BadLineBreak, At, Break, Frame
  <1>2. /\ AbstractMode \in {"framing", "data", "trailer"}
        /\ AbstractMode' = "failed" /\ Owed' = Owed
    BY <1>1, ModeInLoop DEF AbstractMode, Owed
  <1>. QED
    BY <1>1, <1>2, StillStep DEF Contract!Reject

LEMMA HeaderRefines ==
  ASSUME SInv, Work, HeaderLF
  PROVE  Contract!LastChunk \/ \E size \in 1 .. Usize - 1 : Contract!OpenChunk(size)
  <1>1. /\ pc = "loop" /\ st = ST_EXPECT_LF /\ src < Len(buf)
        /\ src' = src + 1 /\ buf' = buf /\ dst' = dst /\ left' = left
        /\ verdict' = verdict
    BY DEF HeaderLF, At, Frame, Work, session
  <1>2. /\ stream' = stream /\ dec' = dec
        /\ 1 <= Len(stream) - Position /\ Position' = Position + 1
        /\ Collected' = Collected
    BY <1>1, FramingStep
  <1>3. AbstractMode = "framing" /\ Owed = 0 /\ err = "none" /\ verdict = "more"
    BY <1>1, ModeInLoop
    DEF Owed, Trailer, ST_EXPECT_LF, ST_DATA, ST_TRAIL_HEAD, ST_TRAIL_MID
  <1>4. CASE left # 0
    <2>1. left \in 1 .. Usize - 1
      BY <1>1, <1>4, InLoop, PowersFit DEF SInv
    <2>2. st' = ST_DATA /\ err' = err
      BY <1>4 DEF HeaderLF
    <2>3. AbstractMode' = "data" /\ Owed' = left
      BY <1>1, <1>3, <2>2 DEF AbstractMode, Owed
    <2>4. Contract!OpenChunk(left)
      BY <1>2, <1>3, <2>3 DEF Contract!OpenChunk, Contract!Read
    <2>. QED
      BY <2>1, <2>4
  <1>5. CASE left = 0
    <2>1. AbstractMode' = IF dec.consume_trailer THEN "trailer" ELSE "complete"
      BY <1>1, <1>3, <1>5
      DEF HeaderLF, Break, AbstractMode, Trailer, ST_DATA, ST_TRAIL_HEAD,
          ST_TRAIL_MID
    <2>2. Owed' = Owed
      BY <1>1, <1>3, <1>5
      DEF HeaderLF, Owed, ST_EXPECT_LF, ST_DATA, ST_TRAIL_HEAD
    <2>. QED
      BY <1>2, <1>3, <2>1, <2>2 DEF Contract!LastChunk, Contract!Read
  <1>. QED
    BY <1>4, <1>5

LEMMA TrailEndRefines ==
  ASSUME SInv, Work, TrailEnd
  PROVE  Contract!EndTrailers
  <1>1. /\ pc = "loop" /\ st = ST_TRAIL_HEAD /\ src < Len(buf) /\ st' = st
        /\ src' = src + 1 /\ buf' = buf /\ dst' = dst /\ left' = left
        /\ err' = "complete"
    BY DEF TrailEnd, At, Break, Frame
  <1>2. AbstractMode = "trailer" /\ AbstractMode' = "complete" /\ Owed' = Owed
    BY <1>1, ModeInLoop
    DEF AbstractMode, Owed, Trailer, ST_DATA, ST_TRAIL_HEAD, ST_TRAIL_MID
  <1>. QED
    BY <1>1, <1>2, FramingStep DEF Contract!EndTrailers, Contract!Read

LEMMA StillRefines ==
  ASSUME SInv, Work, OutOfBytes \/ SizeEnd
  PROVE  UNCHANGED Contract!vars
  <1>1. /\ pc = "loop" /\ src' = src /\ buf' = buf /\ dst' = dst
        /\ left' = left /\ err' \in {"none", "partial"} /\ verdict' = verdict
        /\ \/ st' = st
           \/ st = ST_SIZE /\ st' = ST_EXT
    BY InLoop
    DEF OutOfBytes, SizeEnd, At, Break, Frame, Work, session, SInv
  <1>2. AbstractMode' = AbstractMode /\ Owed' = Owed
    BY <1>1, ModeInLoop
    DEF AbstractMode, Owed, Trailer, ST_SIZE, ST_EXT, ST_DATA, ST_TRAIL_HEAD,
        ST_TRAIL_MID
  <1>. QED
    BY <1>1, <1>2, StillStep DEF Contract!vars

(* What has been collected is bytes. *)
LEMMA CollectedIsSeq == ASSUME SInv PROVE Collected \in Seq(Byte)
  <1>1. /\ body \in Seq(Byte) /\ buf \in Seq(Byte) /\ Len(buf) \in Nat
        /\ dst \in Nat /\ dst <= Len(buf)
    BY DEF SInv, SessionTypeOK, IInv, TypeOK, UnreadIntact, CursorsOrdered
  <1>2. SubSeq(buf, 1, dst) \in Seq(Byte)
    BY <1>1, SubSeqProperties
  <1>. QED
    BY <1>1, <1>2, ConcatProperties DEF Collected

(* A sequence made of one and the next is their concatenation. *)
LEMMA Joined ==
  ASSUME NEW S, NEW s \in Seq(S), NEW t \in Seq(S), NEW u \in Seq(S),
         Len(u) = Len(s) + Len(t),
         \A i \in 1 .. Len(s) : u[i] = s[i],
         \A i \in 1 .. Len(t) : u[Len(s) + i] = t[i]
  PROVE  u = s \o t
  <1>1. /\ s \o t \in Seq(S) /\ Len(s \o t) = Len(s) + Len(t)
        /\ \A i \in 1 .. Len(s) + Len(t) :
             (s \o t)[i] = IF i <= Len(s) THEN s[i] ELSE t[i - Len(s)]
    BY ConcatProperties
  <1>2. Len(s) \in Nat /\ Len(t) \in Nat
    OBVIOUS
  <1>3. \A i \in 1 .. Len(u) : u[i] = (s \o t)[i]
    <2>. SUFFICES ASSUME NEW i \in 1 .. Len(u) PROVE u[i] = (s \o t)[i]
      OBVIOUS
    <2>1. CASE i <= Len(s)
      BY <1>1, <1>2, <2>1
    <2>2. CASE i > Len(s)
      <3>1. i - Len(s) \in 1 .. Len(t) /\ Len(s) + (i - Len(s)) = i
        BY <1>2, <2>2
      <3>2. u[i] = t[i - Len(s)]
        BY <3>1
      <3>. QED
        BY <1>1, <1>2, <2>2, <3>2
    <2>. QED
      BY <1>2, <2>1, <2>2
  <1>. QED
    BY <1>1, <1>3, SeqEqual

(* CopyWithin, of the bytes before the target and of those moved. *)
LEMMA Moved ==
  ASSUME NEW b \in Seq(Byte), NEW from \in Nat, NEW n \in Nat,
         NEW to \in Nat, to <= from, from + n <= Len(b)
  PROVE  /\ copy_within(b, from, n, to) \in Seq(Byte)
         /\ \A i \in 1 .. to : copy_within(b, from, n, to)[i] = b[i]
         /\ \A i \in 1 .. n : copy_within(b, from, n, to)[to + i] = b[from + i]
  <1>1. /\ copy_within(b, from, n, to) \in Seq(Byte)
        /\ \A i \in 1 .. n : copy_within(b, from, n, to)[to + i] = b[from + i]
    BY CopyWithin
  <1>2. \A i \in 1 .. to : copy_within(b, from, n, to)[i] = b[i]
    BY DEF copy_within
  <1>. QED
    BY <1>1, <1>2

(* Two pieces appended one after the other, or joined first. *)
LEMMA Appended ==
  ASSUME NEW S, NEW s \in Seq(S), NEW t \in Seq(S), NEW u \in Seq(S)
  PROVE  s \o (t \o u) = (s \o t) \o u
  BY SMTT(60), ConcatAssociative

(* Chunk data moved down in the buffer is the stream's next bytes. *)
LEMMA PayloadMoves ==
  ASSUME SInv, Work, pc = "loop", NEW n \in Nat, n <= Len(buf) - src,
         TakeData(n)
  PROVE  /\ stream' = stream /\ dec' = dec
         /\ n <= Len(stream) - Position /\ Position' = Position + n
         /\ Collected' = Collected \o SubSeq(stream, Position + 1, Position + n)
  <1>. DEFINE before == SubSeq(buf, 1, dst)
              next   == SubSeq(stream, Position + 1, Position + n)
              after  == SubSeq(buf', 1, dst + n)
  <1>1. /\ pc' # "idle" /\ dec' = dec /\ Len(buf') = Len(buf)
        /\ stream' = stream /\ fed' = fed /\ body' = body
        /\ Len(buf) = Len(input)
    BY StepKeeps DEF SInv, Work, session
  <1>2. /\ buf \in Seq(Byte) /\ Len(buf) \in Nat
        /\ src \in Nat /\ dst \in Nat /\ dst <= src /\ src + n <= Len(buf)
        /\ src' = src + n /\ dst' = dst + n
        /\ buf' = copy_within(buf, src, n, dst)
    BY InLoop DEF SInv, TakeData
  <1>3. /\ Position \in Nat /\ Position + (Len(buf) - src) = fed
        /\ fed <= Len(stream) /\ fed \in Nat /\ Len(stream) \in Nat
        /\ stream \in Seq(Byte)
    BY PositionInStream
  <1>4. n <= Len(stream) - Position
    BY <1>2, <1>3
  <1>5. Position' = Position + n
    <2>1. Position' = fed - Len(buf) + (src + n)
      BY <1>1, <1>2 DEF Position
    <2>. QED
      BY <1>2, <1>3, <2>1 DEF Position
  <1>6. /\ buf' \in Seq(Byte)
        /\ \A i \in 1 .. dst : buf'[i] = buf[i]
        /\ \A i \in 1 .. n : buf'[dst + i] = buf[src + i]
    <2>. DEFINE moved == copy_within(buf, src, n, dst)
    <2>. HIDE DEF before, next, after
    <2>1. moved \in Seq(Byte)
      BY <1>2, Moved
    <2>. HIDE DEF moved
    <2>2. /\ \A i \in 1 .. dst : moved[i] = buf[i]
          /\ \A i \in 1 .. n : moved[dst + i] = buf[src + i]
      <3>1. /\ buf \in Seq(Byte) /\ src \in Nat /\ n \in Nat /\ dst \in Nat
            /\ dst <= src /\ src + n <= Len(buf)
        BY <1>2
      <3>. QED
        BY <3>1, Moved, ZenonT(60) DEF moved
    <2>3. buf' = moved
      BY <1>2 DEF moved
    <2>. QED
      BY <2>1, <2>2, <2>3
  <1>7. \A i \in 1 .. n : buf[src + i] = stream[Position + i]
    <2>1. \A i \in 1 .. n : /\ src + i \in src + 1 .. Len(buf)
                            /\ src + i \in 1 .. Len(input)
                            /\ fed - Len(input) + (src + i) = Position + i
      BY SMTT(60), <1>1, <1>2, <1>3
    <2>2. \A i \in 1 .. n : buf[src + i] = input[src + i]
      BY <2>1 DEF SInv, IInv, UnreadIntact
    <2>3. \A i \in 1 .. n : input[src + i] = stream[Position + i]
      BY <2>1 DEF SInv, InputIsStream
    <2>. QED
      BY <2>2, <2>3
  <1>8. /\ before \in Seq(Byte) /\ Len(before) = dst
        /\ \A i \in 1 .. dst : before[i] = buf[i]
    BY <1>2, SubSeqProperties
  <1>9. /\ next \in Seq(Byte) /\ Len(next) = n
        /\ \A i \in 1 .. n : next[i] = stream[Position + i]
    <2>1. \A i \in Position + 1 .. Position + n : stream[i] \in Byte
      BY <1>3, <1>4
    <2>. QED
      BY <1>3, <2>1, SliceOf
  <1>10. /\ after \in Seq(Byte) /\ Len(after) = dst + n
         /\ \A i \in 1 .. dst + n : after[i] = buf'[i]
    <2>1. dst + n \in Nat /\ \A i \in 1 .. dst + n : buf'[i] \in Byte
      BY <1>1, <1>2, <1>6
    <2>. QED
      BY <2>1, SubSeqProperties
  <1>. HIDE DEF before, next, after
  <1>11. /\ \A i \in 1 .. dst : after[i] = before[i]
         /\ \A i \in 1 .. n : after[dst + i] = next[i]
    <2>1. /\ \A i \in 1 .. dst : i \in 1 .. dst + n
          /\ \A i \in 1 .. n : dst + i \in 1 .. dst + n
      BY <1>2
    <2>2. \A i \in 1 .. dst : after[i] = before[i]
      BY <1>6, <1>8, <1>10, <2>1
    <2>3. \A i \in 1 .. n : after[dst + i] = next[i]
      <3>1. \A i \in 1 .. n : after[dst + i] = buf'[dst + i]
        BY <1>10, <2>1
      <3>2. \A i \in 1 .. n : buf'[dst + i] = next[i]
        BY <1>6, <1>7, <1>9
      <3>. QED
        BY <3>1, <3>2
    <2>. QED
      BY <2>2, <2>3
  <1>13. after = before \o next
    BY <1>8, <1>9, <1>10, <1>11, Joined
  <1>14. body \in Seq(Byte)
    BY DEF SInv, SessionTypeOK
  <1>15. Collected' = body \o after
    BY <1>1, <1>2 DEF Collected, after
  <1>16. Collected = body \o before
    BY DEF Collected, before
  <1>17. body \o (before \o next) = (body \o before) \o next
    BY SMTT(60), <1>8, <1>9, <1>14, Appended
  <1>18. Collected' = Collected \o next
    BY <1>13, <1>15, <1>16, <1>17
  <1>. QED
    BY <1>1, <1>4, <1>5, <1>18 DEF next

LEMMA DataRefines ==
  ASSUME SInv, Work, DataShort \/ DataFull
  PROVE  \/ \E n \in 1 .. Owed : Contract!Payload(n)
         \/ UNCHANGED Contract!vars
  <1>. DEFINE n == IF ChunkFits THEN left ELSE Len(buf) - src
  <1>1. /\ pc = "loop" /\ st = ST_DATA /\ src \in Nat /\ Len(buf) \in Nat
        /\ src <= Len(buf) /\ left \in Nat /\ left > 0
        /\ verdict' = verdict
    BY InLoop
    DEF DataShort, DataFull, SInv, Work, session, SizeMatchesState
  <1>2. /\ n \in Nat /\ n <= left /\ n <= Len(buf) - src
        /\ n = left => ChunkFits
    BY <1>1 DEF ChunkFits
  <1>3. /\ TakeData(n) /\ left' = left - n
        /\ ChunkFits => st' = ST_DATA_CR /\ err' = err
        /\ ~ChunkFits => st' = ST_DATA /\ err' = "partial"
    BY <1>1 DEF DataShort, DataFull, TakeData, Break
  <1>. HIDE DEF n
  <1>4. AbstractMode = "data" /\ Owed = left
    BY <1>1, ModeInLoop DEF Owed
  <1>5. /\ AbstractMode' = IF ChunkFits THEN "framing" ELSE "data"
        /\ Owed' = IF ChunkFits THEN 0 ELSE left - n
    BY <1>1, <1>3, ModeInLoop
    DEF AbstractMode, Owed, Trailer, ST_DATA, ST_DATA_CR, ST_TRAIL_HEAD,
        ST_TRAIL_MID
  <1>6. /\ stream' = stream /\ dec' = dec
        /\ n <= Len(stream) - Position /\ Position' = Position + n
        /\ Collected' = Collected \o SubSeq(stream, Position + 1, Position + n)
    BY <1>1, <1>2, <1>3, PayloadMoves
  <1>7. ChunkFits => n = left
    BY DEF n
  <1>8. CASE n # 0
    <2>1. n \in 1 .. Owed
      BY <1>1, <1>2, <1>4, <1>8
    <2>2. Owed' = Owed - n /\ (Owed' = 0 <=> ChunkFits)
      BY <1>1, <1>2, <1>4, <1>5, <1>7
    <2>3. Contract!Payload(n)
      BY <1>4, <1>5, <1>6, <2>1, <2>2 DEF Contract!Payload, Contract!Read
    <2>. QED
      BY <2>1, <2>3
  <1>9. CASE n = 0
    <2>1. ~ChunkFits
      BY <1>1, <1>7, <1>9
    <2>2. Collected \in Seq(Byte) /\ Position \in Nat
      BY PositionInStream, CollectedIsSeq
    <2>3. SubSeq(stream, Position + 1, Position + 0) = << >>
      BY <2>2, SubSeqEmpty
    <2>4. Collected' = Collected
      BY <1>6, <1>9, <2>2, <2>3, ConcatEmptySeq
    <2>. QED
      BY <1>1, <1>4, <1>5, <1>6, <1>9, <2>1, <2>2, <2>4 DEF Contract!vars
  <1>. QED
    BY <1>8, <1>9

(* The loop, step by step. *)
LEMMA WorkRefines ==
  ASSUME SInv, Work PROVE Contract!Next \/ UNCHANGED Contract!vars
  <1>1. CASE SizeDigit \/ ExtByte \/ DataEnd \/ TrailLine
    BY <1>1, SkipRefines DEF Contract!Next
  <1>2. CASE SizeReject \/ BadLineBreak
    BY <1>2, RejectRefines DEF Contract!Next
  <1>3. CASE HeaderLF
    BY <1>3, HeaderRefines DEF Contract!Next
  <1>4. CASE TrailEnd
    BY <1>4, TrailEndRefines DEF Contract!Next
  <1>5. CASE OutOfBytes \/ SizeEnd
    BY <1>5, StillRefines
  <1>6. CASE DataShort \/ DataFull
    BY <1>6, DataRefines DEF Contract!Next
  <1>7. ~Corrupt
    BY NoCorruptStep DEF SInv
  <1>. QED
    BY <1>1, <1>2, <1>3, <1>4, <1>5, <1>6, <1>7 DEF Work, Step

(* New bytes in the buffer are not read yet. *)
LEMMA DeliverRefines ==
  ASSUME SInv, NEW n \in 1 .. Len(stream) - fed, Deliver(n)
  PROVE  UNCHANGED Contract!vars
  <1>. DEFINE data == SubSeq(stream, fed + 1, fed + n)
  <1>1. /\ Enter(data) /\ fed' = fed + n /\ stream' = stream
        /\ body' = body /\ verdict' = verdict /\ verdict = "more"
    BY DEF Deliver
  <1>2. data \in Seq(Byte) /\ Len(data) = n
    <2>1. \A i \in fed + 1 .. fed + n : stream[i] \in Byte
      BY DEF SInv, SessionTypeOK
    <2>2. fed \in Nat /\ n \in Nat
      BY DEF SInv, SessionTypeOK
    <2>. QED
      BY <2>1, <2>2, SliceOf
  <1>. HIDE DEF data
  <1>3. /\ pc = "idle" /\ pc' = "loop" /\ buf' = data /\ src' = 0 /\ dst' = 0
        /\ err' = "none" /\ st' = dec.state /\ left' = dec.bytes_left
        /\ dec' = [dec EXCEPT !.total_read = Counted(data)]
    BY <1>1 DEF Enter
  <1>4. dec'.consume_trailer = dec.consume_trailer
    BY <1>3 DEF SInv, IInv, TypeOK, Decoders
  <1>5. /\ dec.state = st /\ dec.bytes_left = left
        /\ err \in {"none", "partial"} /\ src = Len(buf)
    BY <1>1, <1>3 DEF SInv, VerdictMatchesCall
  <1>6. Position' = Position
    <2>1. fed \in Nat /\ n \in Nat /\ src \in Nat
      BY DEF SInv, SessionTypeOK, IInv, TypeOK
    <2>2. Len(buf') = n /\ fed' = fed + n /\ src' = 0
      BY <1>1, <1>2, <1>3
    <2>3. Position' = fed
      BY <2>1, <2>2 DEF Position
    <2>4. Position = fed
      BY <1>5, <2>1 DEF Position
    <2>. QED
      BY <2>3, <2>4
  <1>7. AbstractMode' = AbstractMode /\ Owed' = Owed
    BY <1>1, <1>3, <1>5 DEF AbstractMode, Owed
  <1>8. Collected' = Collected
    <2>1. Collected = body /\ Collected' = body \o SubSeq(data, 1, 0)
      BY <1>1, <1>3 DEF Collected
    <2>2. SubSeq(data, 1, 0) = << >>
      BY SubSeqEmpty
    <2>3. body \o << >> = body
      BY ConcatEmptySeq DEF SInv, SessionTypeOK
    <2>. QED
      BY <2>1, <2>2, <2>3
  <1>. QED
    BY <1>1, <1>4, <1>6, <1>7, <1>8 DEF Contract!vars

(* A return publishes what the loop decided; only the overhead rule adds    *)
(* a rejection to it.                                                       *)
LEMMA ReturnRefines ==
  ASSUME SInv, Return
  PROVE  Contract!Reject \/ UNCHANGED Contract!vars
  <1>1. /\ pc = "exit" /\ pc' = "idle" /\ st' = st /\ left' = left
        /\ err' = err /\ stream' = stream /\ fed' = fed
        /\ body' = body \o SubSeq(buf', 1, bufsz')
        /\ verdict' = IF ret' = PARTIAL THEN "more"
                      ELSE IF ret' = MALFORMED THEN "failed" ELSE "complete"
    BY DEF Return, Epilogue, local
  <1>2. /\ bufsz' = dst /\ src' = src /\ Len(buf') = Len(buf)
        /\ SubSeq(buf', 1, dst) = SubSeq(buf, 1, dst)
    BY DecodedSurvive DEF SInv, Return
  <1>3. dec'.consume_trailer = dec.consume_trailer
    BY DEF Return, Epilogue, SInv, IInv, TypeOK, Decoders
  <1>4. Position' = Position /\ Collected' = Collected /\ Owed' = Owed
    BY <1>1, <1>2 DEF Position, Collected, Owed
  <1>5. /\ err \in {"complete", "partial", "malformed"} /\ verdict = "more"
        /\ err = "complete"  => ret' = Len(buf) - src /\ ret' \in Nat
        /\ err = "malformed" => ret' = MALFORMED
    BY SMTT(60), <1>1
    DEF SInv, IInv, TypeOK, UnreadIntact, CursorsOrdered, VerdictMatchesCall,
        Return, Epilogue
  <1>6. CASE err = "partial" /\ verdict' = "failed"
    <2>1. /\ AbstractMode \in {"framing", "data", "trailer"}
          /\ AbstractMode' = "failed"
      BY <1>1, <1>5, <1>6 DEF AbstractMode
    <2>. QED
      BY <1>1, <1>3, <1>4, <2>1 DEF Contract!Reject
  <1>7. CASE ~(err = "partial" /\ verdict' = "failed")
    <2>1. verdict' = "failed" => err = "malformed"
      BY <1>1, <1>5, <1>7 DEF MALFORMED, PARTIAL
    <2>2. AbstractMode' = AbstractMode
      BY <1>1, <1>5, <2>1 DEF AbstractMode
    <2>. QED
      BY <1>1, <1>3, <1>4, <2>2 DEF Contract!vars
  <1>. QED
    BY <1>6, <1>7

LEMMA NextRefines ==
  SInv /\ [SessionNext]_allvars => [Contract!Next]_(Contract!vars)
  <1>. SUFFICES ASSUME SInv, [SessionNext]_allvars
                PROVE  Contract!Next \/ UNCHANGED Contract!vars
    OBVIOUS
  <1>1. ASSUME NEW n \in 1 .. Len(stream) - fed, Deliver(n)
        PROVE  UNCHANGED Contract!vars
    BY <1>1, DeliverRefines
  <1>2. CASE Work
    BY <1>2, WorkRefines
  <1>3. CASE Return
    BY <1>3, ReturnRefines DEF Contract!Next
  <1>4. CASE UNCHANGED allvars
    BY <1>4
    DEF allvars, vars, local, session, Contract!vars, Position, AbstractMode,
        Owed, Collected
  <1>. QED
    BY <1>1, <1>2, <1>3, <1>4 DEF SessionNext

(* Cutting a stream into calls, rewriting the buffer in place and carrying *)
(* the state across calls implement the one walk of ChunkedContract.       *)
THEOREM Refinement == SessionSpec => ImplementsContract
  BY InitRefines, NextRefines, SessionInvariance, PTL
  DEF SessionSpec, ImplementsContract, Contract!Spec
=============================================================================
