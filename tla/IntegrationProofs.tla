------------------------- MODULE IntegrationProofs -------------------------
(***************************************************************************)
(* The consumer writes within its buffers and hands every byte to the      *)
(* decoder once, for every traffic, every size of its reads and buffers,   *)
(* every way recv cuts the streams, and whatever the parsers answer; what  *)
(* it has parsed once more was received, unless a defective parser found a *)
(* head shorter than the first line; and with correct parsers the exchange *)
(* passes when reads return all there is, for every traffic laid out for   *)
(* that.                                                                   *)
(***************************************************************************)
EXTENDS Integration, TLAPS

HeadPhases == {"server_head", "server_headers", "server_carry", "client_head", "client_carry"}
BodyPhases == {"server_body", "client_body"}

(***************************************************************************)
(* Every byte sent is at one place: decoded, staged, buffered or in        *)
(* flight.                                                                 *)
(***************************************************************************)
BytesAccounted ==
  /\ phase \in HeadPhases => have + inflight = Total(Side)
  /\ phase \in BodyPhases => /\ handed + have2 + inflight = Total(Side)
                             /\ have2 > 0 => from = handed
  /\ phase \in {"setup", "client_send"} => inflight = 0

(* Past the head parse its length is known, and is right if the parser is. *)
HeadLengthKnown ==
  /\ phase \in {"server_headers", "server_carry", "client_carry"} =>
       headlen >= 0 /\ (correct => headlen = Me.head)
  /\ phase \in BodyPhases /\ correct => handed >= Me.head + Me.skip
  /\ phase \in {"server_head", "client_head"} => hs = 0

IInv == IntegrationTypeOK /\ BuffersHold /\ BytesAccounted /\ HeadLengthKnown

-----------------------------------------------------------------------------
LEMMA FixtureFacts ==
  ASSUME fx \in Fixtures, NEW s \in Sides
  PROVE  /\ fx.buf \in Nat /\ fx.decoded \in Nat \ {0} /\ fx.headers_max \in Nat
         /\ fx["client"].skip = 0
         /\ fx[s].head \in Nat /\ fx[s].skip \in Nat /\ fx[s].coding \in Nat
         /\ fx[s].ends \in Nat /\ fx[s].headers \in 0 .. fx.headers_max
         /\ fx[s].read \in Nat /\ fx[s].bodyread \in Nat
         /\ fx[s].data \in [0 .. fx[s].coding -> Nat]
         /\ \A o, p \in 0 .. fx[s].coding : o <= p => fx[s].data[o] <= fx[s].data[p]
         /\ Total(s) \in Nat /\ Total(s) = fx[s].head + fx[s].skip + fx[s].coding
BY FixturesAssumption DEF Total

LEMMA FirstLineFacts ==
  ASSUME fx \in Fixtures
  PROVE  /\ fx["server"].first \in Nat /\ 2 <= fx["server"].first
         /\ fx["server"].first <= fx["server"].head /\ fx["server"].first <= fx.buf
<1>1. fx["server"].first \in 2 .. fx["server"].head /\ fx["server"].first <= fx.buf
      /\ "server" \in Sides
  BY FixturesAssumption DEF Sides
<1>2. fx["server"].head \in Nat
  BY <1>1, FixtureFacts
<1> QED BY <1>1, <1>2

LEMMA AddressFacts ==
  ASSUME fx \in Fixtures
  PROVE  /\ BufAt \in Nat /\ BufAt > 2 /\ SizeMod \in Nat /\ BufAt + fx.buf < SizeMod
         /\ 2 * fx.buf < SizeMod
         /\ 0 \in 0 .. SizeMod - 1
<1>1. BufAt \in Nat /\ BufAt > 2 /\ SizeMod \in Nat /\ fx.buf \in Nat
      /\ BufAt + fx.buf < SizeMod /\ 2 * fx.buf < SizeMod
  BY AddressAssumption, FixturesAssumption
<1> QED BY <1>1

LEMMA SideFacts == Side \in Sides
  BY DEF Side, Sides

(* Received bytes were in flight, and are no more than were asked for. *)
LEMMA RecvdFacts ==
  ASSUME inflight \in Nat, NEW size \in Nat, NEW r \in Recvd(size)
  PROVE  r \in Nat /\ r <= size /\ r <= inflight
  BY DEF Recvd, Smaller

LEMMA InitHolds ==
  ASSUME Init
  PROVE  IInv
<1>1. fx.headers_max \in Nat /\ fx.decoded \in Nat \ {0} /\ fx.buf \in Nat
      /\ fx.correct \subseteq BOOLEAN
  BY FixturesAssumption DEF Init
<1>2. IntegrationTypeOK
  <2>1. fx \in Fixtures /\ correct \in BOOLEAN /\ whole \in BOOLEAN
    BY <1>1 DEF Init
  <2>2. headlen \in -2 .. have /\ num_headers \in 0 .. fx.headers_max
    BY <1>1 DEF Init
  <2>3. fx \in Fixtures /\ hs \in Nat /\ hlen \in 0 .. SizeMod - 1
    BY AddressFacts DEF Init
  <2> QED
    BY <2>1, <2>2, <2>3 DEF Init, IntegrationTypeOK
<1>3. BuffersHold /\ BytesAccounted /\ HeadLengthKnown
  BY <1>1 DEF Init, BuffersHold, BytesAccounted, HeadLengthKnown, HeadPhases, BodyPhases
<1> QED
  BY <1>2, <1>3 DEF IInv

(* A run that fails, and leaves the rest as it is. *)
LEMMA FailKeeps ==
  ASSUME IInv, Fail, UNCHANGED <<fx, correct, whole, head, staging>>,
         inflight' \in Nat, unread' \in BOOLEAN
  PROVE  IInv'
<1> USE DEF Fail, head, block, staging
<1>1. IntegrationTypeOK'
  BY DEF IInv, IntegrationTypeOK
<1>2. BuffersHold' /\ BytesAccounted' /\ HeadLengthKnown'
  BY DEF IInv, BuffersHold, Received, ShortHead, BytesAccounted, HeadLengthKnown,
         HeadPhases, BodyPhases
<1> QED
  BY <1>1, <1>2 DEF IInv

LEMMA SetupKeeps ==
  ASSUME IInv, Setup
  PROVE  IInv'
<1>1. CASE Fail
  BY <1>1, FailKeeps DEF Setup, wire, IInv, IntegrationTypeOK
<1>2. CASE Go("client_send")
  <2> USE <1>2 DEF Setup, Go, wire, head, block, staging
  <2>1. IntegrationTypeOK'
    BY DEF IInv, IntegrationTypeOK
  <2>2. BuffersHold' /\ BytesAccounted' /\ HeadLengthKnown'
    BY DEF IInv, BuffersHold, Received, ShortHead, BytesAccounted, HeadLengthKnown,
           HeadPhases, BodyPhases
  <2> QED
    BY <2>1, <2>2 DEF IInv
<1> QED
  BY <1>1, <1>2 DEF Setup

(* One end of the exchange begins, with the traffic for it in flight. *)
LEMMA EndBegins ==
  ASSUME IInv, NEW s \in Sides, UNCHANGED <<fx, correct, whole>>,
         inflight' = Total(s), unread' \in BOOLEAN, Entered, rc' = rc,
         phase' = IF s = "server" THEN "server_head" ELSE "client_head"
  PROVE  IInv'
<1>1. Side' = s /\ phase' \in {"server_head", "client_head"} /\ Total(s)' = Total(s)
  BY DEF Side, Sides, Total
<1>2. Total(s) \in Nat /\ fx.buf \in Nat /\ fx.decoded \in Nat \ {0}
      /\ fx.headers_max \in Nat
  BY FixtureFacts DEF IInv, IntegrationTypeOK
<1>3. IntegrationTypeOK'
  <2>1. hs' \in Nat /\ hlen' \in 0 .. SizeMod - 1
    BY AddressFacts DEF IInv, IntegrationTypeOK, Entered
  <2> QED BY <1>1, <1>2, <2>1 DEF IInv, IntegrationTypeOK, Entered
<1>4. BuffersHold'
  BY <1>2 DEF BuffersHold, Entered
<1>5. BytesAccounted'
  BY <1>1, <1>2 DEF BytesAccounted, Entered, HeadPhases, BodyPhases
<1>6. HeadLengthKnown'
  BY <1>1 DEF HeadLengthKnown, BodyPhases, Entered
<1> QED
  BY <1>3, <1>4, <1>5, <1>6 DEF IInv

LEMMA ClientSendKeeps ==
  ASSUME IInv, ClientSend
  PROVE  IInv'
<1>1. CASE Fail /\ UNCHANGED <<wire, head, staging>>
  BY <1>1, FailKeeps DEF ClientSend, wire, IInv, IntegrationTypeOK
<1>2. CASE SendAll(Total("server")) /\ Entered /\ Go("server_head")
  <2>1. "server" \in Sides
    BY DEF Sides
  <2>2. inflight' = Total("server") /\ unread' \in BOOLEAN
    BY <1>2, <2>1, FixtureFacts DEF ClientSend, SendAll, IInv, BytesAccounted,
                                    IntegrationTypeOK
  <2> QED
    BY <1>2, <2>1, <2>2, EndBegins DEF ClientSend, Go
<1> QED
  BY <1>1, <1>2 DEF ClientSend

LEMMA ServerReplyKeeps ==
  ASSUME IInv, ServerReply
  PROVE  IInv'
<1>1. CASE Fail /\ UNCHANGED <<wire, head, staging>>
  BY <1>1, FailKeeps DEF ServerReply, wire, IInv, IntegrationTypeOK
<1>2. CASE /\ inflight' = Total("client")
           /\ unread' = (inflight > 0)
           /\ Entered
           /\ Go("client_head")
  <2>1. "client" \in Sides /\ "client" # "server"
    BY DEF Sides
  <2>2. unread' \in BOOLEAN
    BY <1>2
  <2>3. phase' = (IF "client" = "server" THEN "server_head" ELSE "client_head")
    BY <1>2, <2>1 DEF Go
  <2>4. rc' = rc /\ UNCHANGED <<fx, correct, whole>>
    BY <1>2 DEF Go, ServerReply
  <2> QED
    BY <1>2, <2>1, <2>2, <2>3, <2>4, EndBegins
<1> QED
  BY <1>1, <1>2 DEF ServerReply

(***************************************************************************)
(* A turn of a head loop.                                                  *)
(***************************************************************************)
LEMMA HeadTurnKeeps ==
  ASSUME IInv, phase \in {"server_head", "client_head"},
         NEW r \in Nat, r <= inflight, have + r <= fx.buf,
         NEW next, next = (IF phase = "server_head" THEN "server_headers"
                                                    ELSE "client_carry"),
         HeadTurn(r, next)
  PROVE  IInv'
<1> DEFINE len == have + r
<1>1. PICK a \in HeadAnswers(have + r, prev, Capacity) :
        /\ inflight' = inflight - r
        /\ have' = have + r /\ prev' = have + r
        /\ num_headers' = a.count
        /\ headlen' = a.ret
        /\ CASE a.ret = -2 -> Go(phase)
             [] a.ret = -1 -> Fail
             [] a.ret >= 0 -> Go(next)
        /\ UNCHANGED <<fx, correct, whole, unread, block, staging>>
  BY DEF HeadTurn
<1>2. /\ Me.head \in Nat /\ Me.headers \in 0 .. fx.headers_max /\ fx.headers_max \in Nat
      /\ have \in Nat /\ inflight \in Nat
  BY FixtureFacts, SideFacts DEF IInv, IntegrationTypeOK, Me
<1>3. /\ a.ret \in -2 .. have + r /\ a.count \in 0 .. fx.headers_max
      /\ correct /\ a.ret >= 0 => a.ret = Me.head
  BY <1>2 DEF HeadAnswers, Capacity
<1>4. phase' \in {phase, next, "done"} /\ rc' \in {0, 1, Signalled}
      /\ (phase' = next => a.ret >= 0)
  <2>1. next # phase /\ next # "done" /\ rc \in {0, 1, Signalled}
    BY DEF IInv, IntegrationTypeOK
  <2>2. CASE a.ret = -2
    BY <1>1, <2>1, <2>2 DEF Go
  <2>3. CASE a.ret = -1
    BY <1>1, <2>1, <2>3 DEF Fail
  <2>4. CASE a.ret >= 0
    <3>1. a.ret # -2 /\ a.ret # -1
      BY <1>3, <2>4
    <3> QED
      BY <1>1, <2>1, <2>4, <3>1 DEF Go
  <2>5. a.ret = -2 \/ a.ret = -1 \/ a.ret >= 0
    BY <1>3, <1>2
  <2> QED
    BY <2>2, <2>3, <2>4, <2>5
<1>5. phase' # "done" => Side' = Side
  <2>1. CASE phase = "server_head"
    BY <1>4, <2>1 DEF Side
  <2>2. CASE phase = "client_head"
    BY <1>4, <2>2 DEF Side
  <2> QED
    BY <2>1, <2>2
<1>6. IntegrationTypeOK'
  BY <1>1, <1>2, <1>3, <1>4 DEF IInv, IntegrationTypeOK, block, staging
<1>7. BuffersHold'
  <2>1. hs' = 0
    BY <1>1 DEF IInv, HeadLengthKnown, block
  <2> QED BY <1>1, <2>1 DEF IInv, BuffersHold, staging
<1>8. BytesAccounted'
  BY <1>1, <1>2, <1>4, <1>5 DEF IInv, BytesAccounted, HeadPhases, BodyPhases, Total
<1>9. HeadLengthKnown'
  <2>1. hs' = 0
    BY <1>1 DEF IInv, HeadLengthKnown, block
  <2> QED BY <1>1, <1>3, <1>4, <1>5, <2>1 DEF HeadLengthKnown, BodyPhases, Me
<1> QED
  BY <1>6, <1>7, <1>8, <1>9 DEF IInv

LEMMA ServerHeadKeeps ==
  ASSUME IInv, ServerHead
  PROVE  IInv'
<1>1. PICK r \in Recvd(Smaller(Me.read, fx.buf - have)) :
        IF r = 0 THEN RecvFails ELSE HeadTurn(r, "server_headers")
  BY DEF ServerHead
<1>2. Me.read \in Nat /\ fx.buf \in Nat /\ have \in Nat /\ have <= fx.buf /\ inflight \in Nat
  BY FixtureFacts, SideFacts DEF IInv, IntegrationTypeOK, BuffersHold, Me
<1>3. /\ Smaller(Me.read, fx.buf - have) \in Nat
      /\ Smaller(Me.read, fx.buf - have) <= fx.buf - have
  BY <1>2 DEF Smaller
<1>4. r \in Nat /\ r <= Smaller(Me.read, fx.buf - have) /\ r <= inflight
  BY <1>2, <1>3, RecvdFacts
<1>5. CASE r = 0
  BY <1>1, <1>5, FailKeeps DEF RecvFails, wire, IInv, IntegrationTypeOK
<1>6. CASE r # 0
  <2>1. HeadTurn(r, "server_headers") /\ have + r <= fx.buf /\ phase = "server_head"
    BY <1>1, <1>2, <1>3, <1>4, <1>6 DEF ServerHead
  <2> QED
    BY <1>4, <2>1, HeadTurnKeeps
<1> QED
  BY <1>5, <1>6

LEMMA ClientHeadKeeps ==
  ASSUME IInv, ClientHead
  PROVE  IInv'
<1>1. PICK r \in Recvd(Me.read) :
        IF r = 0 \/ Overflows(r) THEN RecvFails ELSE HeadTurn(r, "client_carry")
  BY DEF ClientHead
<1>2. Me.read \in Nat /\ fx.buf \in Nat /\ have \in Nat /\ inflight \in Nat
  BY FixtureFacts, SideFacts DEF IInv, IntegrationTypeOK, Me
<1>3. r \in Nat /\ r <= inflight
  BY <1>2, RecvdFacts
<1>4. CASE r = 0 \/ Overflows(r)
  BY <1>1, <1>4, FailKeeps DEF RecvFails, wire, IInv, IntegrationTypeOK
<1>5. CASE ~(r = 0 \/ Overflows(r))
  <2>1. HeadTurn(r, "client_carry") /\ have + r <= fx.buf /\ phase = "client_head"
    BY <1>1, <1>2, <1>3, <1>5 DEF ClientHead, Overflows
  <2> QED
    BY <1>3, <2>1, HeadTurnKeeps
<1> QED
  BY <1>4, <1>5
(***************************************************************************)
(* The block that is parsed once more ends where the head does, unless the *)
(* head ends before the block begins.                                      *)
(***************************************************************************)
LEMMA BlockFacts ==
  ASSUME IInv, phase = "server_headers"
  PROVE  /\ PastFirstLine \in Nat /\ BlockSize \in 0 .. SizeMod - 1
         /\ fx["server"].first <= headlen =>
              /\ PastFirstLine = BufAt + Me.first
              /\ BlockSize = headlen - Me.first
              /\ Received(PastFirstLine, BlockSize)
         /\ correct => /\ fx["server"].first <= headlen /\ headlen = Me.head
                       /\ AsInt(BlockSize) = BlockSize
<1>1. Me = fx["server"]
  BY DEF Me, Side
<1>2. /\ Me.first \in Nat /\ 2 <= Me.first /\ Me.first <= Me.head /\ Me.head \in Nat
      /\ Me.first <= fx.buf /\ fx.buf \in Nat
  BY <1>1, FirstLineFacts, FixtureFacts, SideFacts DEF IInv, IntegrationTypeOK, Me
<1>3. /\ BufAt \in Nat /\ BufAt > 2 /\ SizeMod \in Nat /\ BufAt + fx.buf < SizeMod
      /\ 2 * fx.buf < SizeMod
  BY AddressFacts DEF IInv, IntegrationTypeOK
<1>4. /\ have \in Nat /\ have <= fx.buf /\ headlen \in Int /\ headlen <= have /\ 0 <= headlen
      /\ correct => headlen = Me.head
  BY DEF IInv, IntegrationTypeOK, BuffersHold, HeadLengthKnown
<1> DEFINE at == PastFirstLine
<1>5. \/ at = 2 /\ have < Me.first
      \/ at = BufAt + Me.first /\ ~(have < Me.first)
  BY <1>2, <1>4 DEF PastFirstLine
<1> HIDE DEF at
<1>6. at \in Nat /\ (Me.first <= headlen => at = BufAt + Me.first)
  BY <1>2, <1>3, <1>4, <1>5
<1> DEFINE d == BufAt + headlen - at
<1>7. d \in Int /\ d < SizeMod /\ d >= 0 - SizeMod /\ d # 0 - SizeMod
  BY <1>2, <1>3, <1>4, <1>5
<1>8. Me.first <= headlen => d = headlen - Me.first /\ d >= 0
  BY <1>2, <1>3, <1>4, <1>6
<1> HIDE DEF d
<1>9. BlockSize = IF d < 0 THEN d + SizeMod ELSE d
  BY DEF BlockSize, SizeT, d, at
<1>10. BlockSize \in 0 .. SizeMod - 1
  BY <1>3, <1>7, <1>9
<1>11. Me.first <= headlen => /\ BlockSize = headlen - Me.first
                             /\ Received(at, BlockSize)
  BY <1>2, <1>3, <1>4, <1>6, <1>7, <1>8, <1>9 DEF Received
<1>12. correct => AsInt(BlockSize) = BlockSize
  BY <1>2, <1>3, <1>4, <1>11 DEF AsInt
<1> QED BY <1>1, <1>2, <1>4, <1>6, <1>10, <1>11, <1>12 DEF at

LEMMA ServerHeadersKeeps ==
  ASSUME IInv, ServerHeaders
  PROVE  IInv'
<1>1. /\ phase = "server_headers" /\ hs' = PastFirstLine /\ hlen' = BlockSize
      /\ UNCHANGED <<fx, correct, whole, inflight, unread, have, prev, num_headers, headlen,
                     have2, from, handed, dec, dlen>>
  BY DEF ServerHeaders, wire, staging
<1>2. \/ phase' = "server_carry" /\ rc' = rc
      \/ phase' = "done" /\ rc' = 1
      \/ phase' = "crashed" /\ rc' = Signalled
  BY DEF ServerHeaders, Go, Fail, Crash
<1>3. /\ hs' \in Nat /\ hlen' \in 0 .. SizeMod - 1
      /\ fx["server"].first <= headlen => Received(hs', hlen')
      /\ correct => fx["server"].first <= headlen
  BY <1>1, BlockFacts
<1>4. IntegrationTypeOK'
  BY <1>1, <1>2, <1>3 DEF IInv, IntegrationTypeOK
<1>5. BuffersHold'
  <2>1. fx["server"].first \in Nat /\ headlen \in Int
    BY FirstLineFacts DEF IInv, IntegrationTypeOK
  <2>2. ~Received(hs', hlen') => ~correct /\ headlen < fx["server"].first
    BY <1>3, <2>1
  <2>3. ~Received(hs, hlen)' => ~Received(hs', hlen')
    BY <1>1 DEF Received
  <2>4. /\ have' <= fx'.buf /\ have2' <= fx'.buf /\ dlen' < fx'.decoded
        /\ ShortHead' <=> headlen < fx["server"].first
    BY <1>1 DEF IInv, BuffersHold, ShortHead
  <2> QED BY <1>1, <2>2, <2>3, <2>4 DEF BuffersHold
<1>6. BytesAccounted' /\ HeadLengthKnown'
  <2>1. phase' = "server_carry" => Side' = Side /\ Me' = Me /\ Total(Side)' = Total(Side)
    BY <1>1 DEF Side, Me, Total
  <2> QED BY <1>1, <1>2, <2>1 DEF IInv, BytesAccounted, HeadLengthKnown, HeadPhases, BodyPhases
<1> QED BY <1>4, <1>5, <1>6 DEF IInv

(***************************************************************************)
(* What was read past the head and the body becomes the decoder's stage.   *)
(***************************************************************************)
LEMMA StageKeeps ==
  ASSUME IInv, phase \in {"server_carry", "client_carry"},
         UNCHANGED <<fx, correct, whole, wire>>,
         NEW skip \in Nat, WithinBuffered(skip), correct => skip = Me.skip,
         NEW next, next = (IF phase = "server_carry" THEN "server_body"
                                                     ELSE "client_body"),
         Stage(skip, next)
  PROVE  IInv'
<1>1. /\ from' = headlen + skip /\ have2' = have - (headlen + skip)
      /\ handed' = headlen + skip
      /\ dec' = "ready" /\ dlen' = 0 /\ prev' = 0
      /\ phase' = next /\ rc' = rc
      /\ UNCHANGED <<have, num_headers, headlen, hs, hlen, inflight, unread>>
  BY DEF Stage, Carried, Go, wire, block
<1>2. /\ have \in Nat /\ inflight \in Nat /\ headlen \in Nat /\ headlen + skip <= have
      /\ have + inflight = Total(Side) /\ have <= fx.buf
      /\ correct => headlen = Me.head
  BY DEF IInv, IntegrationTypeOK, BytesAccounted, HeadLengthKnown, HeadPhases,
         BuffersHold, WithinBuffered
<1>3. /\ Me.head \in Nat /\ Me.skip \in Nat
      /\ fx.buf \in Nat /\ fx.decoded \in Nat \ {0} /\ fx.headers_max \in Nat
  BY FixtureFacts, SideFacts DEF IInv, IntegrationTypeOK, Me
<1>4. Side' = Side /\ Total(Side)' = Total(Side) /\ Me' = Me /\ phase' \in BodyPhases
  <2>1. CASE phase = "server_carry"
    BY <1>1, <2>1 DEF Side, Total, Me, BodyPhases
  <2>2. CASE phase = "client_carry"
    BY <1>1, <2>2 DEF Side, Total, Me, BodyPhases
  <2> QED
    BY <2>1, <2>2
<1>5. IntegrationTypeOK'
  <2>1. from' \in Nat /\ have2' \in Nat /\ handed' \in Nat
    BY <1>1, <1>2
  <2> QED
    BY <1>1, <1>4, <2>1 DEF IInv, IntegrationTypeOK, BodyPhases
<1>6. BuffersHold'
  BY <1>1, <1>2, <1>3 DEF IInv, BuffersHold, Received, ShortHead
<1>7. BytesAccounted'
  BY <1>1, <1>2, <1>4 DEF BytesAccounted, HeadPhases, BodyPhases
<1>8. HeadLengthKnown'
  BY <1>1, <1>2, <1>3, <1>4 DEF HeadLengthKnown, BodyPhases
<1> QED
  BY <1>5, <1>6, <1>7, <1>8 DEF IInv

LEMMA ServerCarryKeeps ==
  ASSUME IInv, ServerCarry
  PROVE  IInv'
<1>1. CASE Fail /\ UNCHANGED <<head, staging>>
  BY <1>1, FailKeeps DEF ServerCarry, wire, IInv, IntegrationTypeOK
<1>2. ASSUME NEW skip \in IF correct THEN {Me.skip} ELSE {0, Me.skip, fx.buf},
             WithinBuffered(skip), Stage(skip, "server_body")
      PROVE  IInv'
  <2>1. skip \in Nat /\ (correct => skip = Me.skip)
    BY FixtureFacts, SideFacts DEF IInv, IntegrationTypeOK, Me
  <2> QED BY <1>2, <2>1, StageKeeps DEF ServerCarry
<1> QED
  BY <1>1, <1>2 DEF ServerCarry

LEMMA ClientCarryKeeps ==
  ASSUME IInv, ClientCarry
  PROVE  IInv'
<1>1. Side = "client"
  BY DEF ClientCarry, Side
<1>2. Me.skip = 0
  BY <1>1, SideFacts, FixtureFacts DEF IInv, IntegrationTypeOK, Me
<1>3. WithinBuffered(0)
  BY DEF IInv, IntegrationTypeOK, HeadLengthKnown, ClientCarry, WithinBuffered
<1> QED
  BY <1>2, <1>3, StageKeeps DEF ClientCarry

(***************************************************************************)
(* One call of the decoder, on the next n bytes of the stream.             *)
(***************************************************************************)
LEMMA DecoderAnswers ==
  ASSUME IInv, phase \in BodyPhases,
         NEW n \in Nat, handed + n <= Total(Side),
         NEW a \in DecodeAnswers(handed, n)
  PROVE  a.out \in Nat
<1>1. CASE ~correct \/ dec # "ready"
  <2>1. a \in [ret : -2 .. n, out : 0 .. n, intact : BOOLEAN]
    BY <1>1 DEF DecodeAnswers
  <2> QED
    BY <2>1
<1>2. CASE correct /\ dec = "ready"
  <2> DEFINE start == Me.head + Me.skip
  <2>1. handed \in Nat /\ handed >= start
    BY <1>2 DEF IInv, IntegrationTypeOK, HeadLengthKnown
  <2>2. /\ Me.head \in Nat /\ Me.skip \in Nat /\ Me.coding \in Nat
        /\ Me.data \in [0 .. Me.coding -> Nat]
        /\ \A o, p \in 0 .. Me.coding : o <= p => Me.data[o] <= Me.data[p]
        /\ Total(Side) = start + Me.coding
    BY FixtureFacts, SideFacts DEF IInv, IntegrationTypeOK, Me
  <2>3. /\ handed - start \in 0 .. Me.coding
        /\ handed + n - start \in 0 .. Me.coding
        /\ handed - start <= handed + n - start
    BY <2>1, <2>2
  <2>4. /\ Me.data[handed - start] \in Nat /\ Me.data[handed + n - start] \in Nat
        /\ Me.data[handed - start] <= Me.data[handed + n - start]
    BY <2>2, <2>3
  <2>5. a.out = Me.data[handed + n - start] - Me.data[handed - start]
    BY <1>2 DEF DecodeAnswers
  <2> HIDE DEF start
  <2> QED
    BY <2>4, <2>5
<1> QED
  BY <1>1, <1>2

LEMMA DecodeTurnKeeps ==
  ASSUME IInv, phase \in BodyPhases, UNCHANGED <<fx, correct, whole, unread>>,
         NEW n \in Nat, inflight' \in Nat, handed + n + inflight' = Total(Side),
         NEW leftovers, NEW next \in {"server_reply", "done"},
         DecodeTurn(handed, n, leftovers, next)
  PROVE  IInv'
<1>1. PICK a \in DecodeAnswers(handed, n) :
        /\ from' = handed /\ have2' = 0
        /\ handed' = handed + n
        /\ dlen' = IF NoRoom(a.out) THEN dlen ELSE dlen + a.out
        /\ \/ ~NoRoom(a.out) /\ a.ret = -2 /\ Go(phase)
           \/ ~NoRoom(a.out) /\ a.ret >= 0 /\ a.intact /\ a.ret \in leftovers /\ Go(next)
           \/ /\ \/ NoRoom(a.out) \/ a.ret = -1
                 \/ a.ret >= 0 /\ ~(a.intact /\ a.ret \in leftovers)
              /\ Fail
        /\ UNCHANGED <<head, dec>>
  BY DEF DecodeTurn
<1>2. /\ handed \in Nat /\ dlen \in Nat /\ dlen < fx.decoded
      /\ fx.decoded \in Nat /\ fx.buf \in Nat
      /\ Total(Side) \in Nat
  BY FixtureFacts, SideFacts DEF IInv, IntegrationTypeOK, BuffersHold
<1>3. a.out \in Nat
  BY <1>2, DecoderAnswers
<1>4. dlen' \in Nat /\ dlen' < fx.decoded
  BY <1>1, <1>2, <1>3 DEF NoRoom
<1>5. phase' \in {phase, "server_reply", "done"} /\ rc' \in {0, 1, Signalled}
  BY <1>1 DEF Go, Fail, IInv, IntegrationTypeOK
<1>6. phase' \in BodyPhases => phase' = phase /\ Side' = Side /\ Me' = Me
                               /\ Total(Side)' = Total(Side)
  BY <1>5 DEF BodyPhases, Side, Me, Total
<1>7. IntegrationTypeOK'
  <2>1. from' \in Nat /\ have2' \in Nat /\ handed' \in Nat
    BY <1>1, <1>2
  <2>2. phase' \in {"server_body", "client_body", "server_reply", "done"}
    BY <1>5 DEF BodyPhases
  <2> QED
    BY <1>1, <1>4, <1>5, <2>1, <2>2 DEF IInv, IntegrationTypeOK, head, block
<1>8. BuffersHold'
  BY <1>1, <1>2, <1>4 DEF IInv, BuffersHold, Received, ShortHead, head, block
<1>9. BytesAccounted'
  BY <1>1, <1>2, <1>5, <1>6 DEF BytesAccounted, HeadPhases, BodyPhases
<1>10. HeadLengthKnown'
  <2>1. correct => handed >= Me.head + Me.skip
    BY DEF IInv, HeadLengthKnown
  <2>2. Me.head \in Nat /\ Me.skip \in Nat
    BY FixtureFacts, SideFacts DEF IInv, IntegrationTypeOK, Me
  <2>3. phase' \notin {"server_headers", "server_carry", "client_carry", "server_head",
                       "client_head"}
    BY <1>5 DEF BodyPhases
  <2> QED
    BY <1>1, <1>2, <1>6, <2>1, <2>2, <2>3 DEF HeadLengthKnown
<1> QED
  BY <1>7, <1>8, <1>9, <1>10 DEF IInv

(***************************************************************************)
(* A turn of a body loop: the stage, which begins where the bytes handed   *)
(* over end, or what recv brings, which is the next of the stream.         *)
(***************************************************************************)
LEMMA BodyHandsNext ==
  ASSUME IInv, phase \in BodyPhases, NEW size \in Nat, NEW leftovers, NEW next,
         Body(size, leftovers, next)
  PROVE  \/ Fail /\ UNCHANGED <<fx, correct, whole, wire, head, staging>>
         \/ \E n \in Nat :
              /\ DecodeTurn(handed, n, leftovers, next)
              /\ inflight' \in Nat /\ handed + n + inflight' = Total(Side)
              /\ UNCHANGED <<fx, correct, whole, unread>>
<1>1. /\ inflight \in Nat /\ have2 \in Nat /\ handed \in Nat
      /\ handed + have2 + inflight = Total(Side)
      /\ have2 > 0 => from = handed
  BY DEF IInv, IntegrationTypeOK, BytesAccounted
<1>2. CASE have2 > 0
  <2>1. DecodeTurn(handed, have2, leftovers, next) /\ inflight' = inflight
        /\ UNCHANGED <<fx, correct, whole, unread>>
    BY <1>1, <1>2 DEF Body
  <2> QED
    BY <1>1, <2>1
<1>3. CASE ~(have2 > 0)
  <2>1. PICK r \in Recvd(size) :
          /\ inflight' = inflight - r
          /\ IF r = 0 THEN Fail /\ UNCHANGED <<head, staging>>
             ELSE DecodeTurn(Total(Side) - inflight, r, leftovers, next)
    BY <1>3 DEF Body
  <2>2. r \in Nat /\ r <= inflight
    BY <1>1, RecvdFacts
  <2>3. UNCHANGED <<fx, correct, whole, unread>>
    BY DEF Body
  <2>4. CASE r = 0
    BY <1>1, <2>1, <2>3, <2>4 DEF wire
  <2>5. CASE r # 0
    <3>1. Total(Side) - inflight = handed
      BY <1>1, <1>3
    <3>2. DecodeTurn(handed, r, leftovers, next)
      BY <2>1, <2>5, <3>1
    <3>3. inflight' \in Nat /\ handed + r + inflight' = Total(Side)
      BY <1>1, <1>3, <2>1, <2>2
    <3> QED
      BY <2>2, <2>3, <3>2, <3>3
  <2> QED
    BY <2>4, <2>5
<1> QED
  BY <1>2, <1>3

LEMMA BodyKeeps ==
  ASSUME IInv, phase \in BodyPhases, NEW size \in Nat, NEW leftovers,
         NEW next \in {"server_reply", "done"}, Body(size, leftovers, next)
  PROVE  IInv'
<1>1. CASE Fail /\ UNCHANGED <<fx, correct, whole, wire, head, staging>>
  BY <1>1, FailKeeps DEF wire, IInv, IntegrationTypeOK
<1>2. CASE \E n \in Nat :
             /\ DecodeTurn(handed, n, leftovers, next)
             /\ inflight' \in Nat /\ handed + n + inflight' = Total(Side)
             /\ UNCHANGED <<fx, correct, whole, unread>>
  BY <1>2, DecodeTurnKeeps
<1> QED
  BY <1>1, <1>2, BodyHandsNext

(* Both ends read their bodies in reads of a size that is a number. *)
LEMMA BodySizes ==
  ASSUME IInv
  PROVE  Me.bodyread \in Nat
BY FixtureFacts, SideFacts DEF IInv, IntegrationTypeOK, Me

LEMMA NextKeeps ==
  ASSUME IInv, [Next]_vars
  PROVE  IInv'
<1>1. CASE ServerBody
  BY <1>1, BodySizes, BodyKeeps DEF ServerBody, BodyPhases
<1>2. CASE ClientBody
  BY <1>2, BodySizes, BodyKeeps DEF ClientBody, BodyPhases
<1>3. CASE UNCHANGED vars
  <2> USE <1>3 DEF vars, wire, head, block, staging
  <2>1. IntegrationTypeOK'
    BY DEF IInv, IntegrationTypeOK
  <2>2. BuffersHold' /\ BytesAccounted' /\ HeadLengthKnown'
    BY DEF IInv, BuffersHold, Received, ShortHead, BytesAccounted, HeadLengthKnown, HeadPhases,
           BodyPhases, Side, Me, Total
  <2> QED
    BY <2>1, <2>2 DEF IInv
<1> QED
  BY <1>1, <1>2, <1>3, SetupKeeps, ClientSendKeeps, ServerHeadKeeps, ServerHeadersKeeps,
     ServerCarryKeeps, ServerReplyKeeps, ClientHeadKeeps, ClientCarryKeeps DEF Next

LEMMA IntegrationInvariant == Spec => []IInv
BY InitHolds, NextKeeps, PTL DEF Spec

-----------------------------------------------------------------------------
(* The variables have their types: what the consumer counts of the bytes   *)
(* it buffers and stages never wraps below zero, whatever the parsers      *)
(* answer (run_server and client_read_phase); the size of the block parsed *)
(* once more may, within a size_t.                                         *)
THEOREM IntegrationTypeCorrect == Spec => []IntegrationTypeOK
BY IntegrationInvariant, PTL DEF IInv

(* The consumer writes within its buffers whatever the parsers answer: the *)
(* bounds of its recv, "headlen + body_skip > have" and the test before    *)
(* each append to the decoded body.  What it has parsed once more was      *)
(* received, unless a defective parser found a head that ends within the   *)
(* first line.                                                             *)
THEOREM BuffersNeverOverrun == Spec => []BuffersHold
BY IntegrationInvariant, PTL DEF IInv

(* Carried over or received, every byte past the head and the body is      *)
(* handed to the decoder once and in order, wherever recv cut the stream.  *)
THEOREM EachByteOnce == Spec => HandedOnce
<1>1. ASSUME IInv, [Next]_vars
      PROVE  [(phase \in BodyPhases /\ handed' # handed) => from' = handed]_vars
  <2>1. SUFFICES ASSUME Next, phase \in BodyPhases, handed' # handed
                 PROVE  from' = handed
    BY <1>1 DEF vars, staging
  <2>2. PICK size \in Nat, leftovers \in {Nat, {0}}, next \in {"server_reply", "done"} :
          Body(size, leftovers, next)
    BY <1>1, <2>1, BodySizes DEF Next, Setup, ClientSend, ServerHead, ServerHeaders,
       ServerCarry, ServerBody, ServerReply, ClientHead, ClientCarry, ClientBody, BodyPhases
  <2>3. \E n \in Nat : DecodeTurn(handed, n, leftovers, next)
    BY <1>1, <2>1, <2>2, BodyHandsNext DEF staging
  <2> QED
    BY <2>3 DEF DecodeTurn
<1> QED
  BY <1>1, IntegrationInvariant, PTL DEF Spec, HandedOnce, BodyPhases

-----------------------------------------------------------------------------
(***************************************************************************)
(* The offsets at which reads that return all there is stop: k for the     *)
(* head, j more past it, or the end of the traffic.                        *)
(***************************************************************************)
AtStop(e, total, o) ==
  \E k, j \in Nat : Completes(e, k) /\ o = Smaller(k * e.read + j * e.bodyread, total)

Start == Me.head + Me.skip

(***************************************************************************)
(* The run of correct parsers on traffic laid out for it: every loop is    *)
(* between two stops, with bytes to come.                                  *)
(***************************************************************************)
OnCourse ==
  /\ correct \in fx.correct
  /\ correct /\ whole =>
       /\ phase # "done" => rc = 0
       /\ phase \notin {"server_reply", "done"} => ~unread
       /\ phase \in {"server_head", "client_head"} =>
            prev = have /\ have < Me.head /\ \E k \in Nat : have = k * Me.read
       /\ phase \in {"server_headers", "server_carry", "client_carry"} =>
            AtStop(Me, Total(Side), have) /\ Start <= have
       /\ phase = "server_headers" => num_headers = Me.headers
       /\ phase \in BodyPhases =>
            /\ AtStop(Me, Total(Side), handed + have2) /\ dec = "ready"
            /\ handed = Start \/ handed < Start + Me.ends
            /\ dlen = Me.data[handed - Start] - Me.data[0]
       /\ phase = "server_reply" => inflight = 0

LEMMA LayoutFacts ==
  ASSUME IInv, OnCourse, correct, NEW s \in Sides
  PROVE  /\ Fits(fx, fx[s]) /\ LaidOut(fx[s]) /\ fx["client"].ends = fx["client"].coding
         /\ fx["server"].headers > 0
BY LayoutAssumption DEF IInv, IntegrationTypeOK, OnCourse

LEMMA Products ==
  ASSUME NEW k \in Nat, NEW m \in Nat
  PROVE  /\ k * m \in Nat /\ (k + 1) * m = k * m + m /\ ((k + 1) - 1) * m = k * m
         /\ m > 0 => k <= k * m
OBVIOUS

(* A stop before the end of the traffic is before the end of the coding.   *)
LEMMA StopsBeforeEnd ==
  ASSUME NEW e, e.head \in Nat, e.skip \in Nat, e.coding \in Nat, e.ends \in Nat,
         e.read \in Nat, e.bodyread \in Nat, e.head > 0, e.read > 0, e.bodyread > 0,
         LaidOut(e), NEW k \in Nat, NEW j \in Nat, Completes(e, k)
  PROVE  /\ e.head + e.skip <= k * e.read
         /\ k * e.read + j * e.bodyread < e.head + e.skip + e.coding
              => k * e.read + j * e.bodyread < e.head + e.skip + e.ends
<1>1. k \in 1 .. e.head
  <2>1. k # 0
    <3>1. 0 * e.read = 0
      OBVIOUS
    <3> QED BY <3>1 DEF Completes
  <2>2. k - 1 \in Nat
    BY <2>1
  <2>3. k - 1 <= (k - 1) * e.read /\ (k - 1) * e.read \in Nat
    BY <2>2, Products
  <2>4. k - 1 < e.head
    BY <2>2, <2>3 DEF Completes
  <2> QED BY <2>1, <2>4
<1>2. /\ e.head + e.skip <= k * e.read
      /\ \A i \in 0 .. e.coding, o \in e.ends .. e.coding - 1 :
           k * e.read + i * e.bodyread # e.head + e.skip + o
  BY <1>1 DEF LaidOut
<1> DEFINE a == k * e.read
           b == j * e.bodyread
<1>3. a \in Nat /\ b \in Nat /\ j <= b
  BY Products
<1>4. ASSUME a + b < e.head + e.skip + e.coding, ~(a + b < e.head + e.skip + e.ends)
      PROVE  FALSE
  <2>1. j \in 0 .. e.coding
    <3>1. e.head + e.skip <= a
      BY <1>2
    <3> HIDE DEF a, b
    <3> QED BY <1>3, <1>4, <3>1
  <2> DEFINE o == a + b - (e.head + e.skip)
  <2>2. o \in e.ends .. e.coding - 1 /\ a + b = e.head + e.skip + o
    <3> HIDE DEF a, b
    <3> QED BY <1>3, <1>4
  <2> HIDE DEF o
  <2> QED BY <1>2, <2>1, <2>2
<1> QED BY <1>2, <1>4

(* What is said of a run that has not failed. *)
Passed == phase' = "done" => rc' = 0

-----------------------------------------------------------------------------
(* One end begins, with its traffic in flight. *)
LEMMA EndOnCourse ==
  ASSUME IInv, OnCourse, NEW s \in Sides, UNCHANGED <<fx, correct, whole>>,
         correct /\ whole => ~unread' /\ rc' = 0,
         Entered, phase' = IF s = "server" THEN "server_head" ELSE "client_head"
  PROVE  OnCourse'
<1> SUFFICES ASSUME correct, whole PROVE OnCourse'
  BY DEF OnCourse
<1>1. Side' = s /\ Me' = fx[s] /\ phase' \in {"server_head", "client_head"}
  BY DEF Side, Sides, Me
<1>2. fx[s].head > 0 /\ fx[s].head \in Nat /\ fx[s].read \in Nat
  BY LayoutFacts, FixtureFacts DEF Fits, IInv, IntegrationTypeOK
<1>3. have' = 0 /\ prev' = 0 /\ have' < fx[s].head /\ ~unread' /\ rc' = 0
  BY <1>2 DEF Entered
<1>4. \E k \in Nat : have' = k * fx[s].read
  <2>1. 0 \in Nat /\ 0 = 0 * fx[s].read
    BY <1>2
  <2> QED BY <1>3, <2>1
<1> QED BY <1>1, <1>3, <1>4 DEF OnCourse, BodyPhases

(* recv of what is there: all of it, up to its size. *)
LEMMA WholeReads ==
  ASSUME whole, ~unread, inflight \in Nat, inflight > 0, NEW size \in Nat, size > 0,
         NEW r \in Recvd(size)
  PROVE  r = Smaller(size, inflight) /\ r \in Nat /\ r # 0
BY DEF Recvd, Smaller

LEMMA HeadTurnOnCourse ==
  ASSUME IInv, OnCourse, correct, whole, phase \in {"server_head", "client_head"},
         NEW r, r = Smaller(Me.read, inflight), UNCHANGED <<fx, correct, whole>>,
         NEW next, next = (IF phase = "server_head" THEN "server_headers" ELSE "client_carry"),
         HeadTurn(r, next)
  PROVE  OnCourse' /\ Passed
<1>1. PICK a \in HeadAnswers(have + r, prev, Capacity) :
        /\ inflight' = inflight - r
        /\ have' = have + r /\ prev' = have + r
        /\ num_headers' = a.count /\ headlen' = a.ret
        /\ CASE a.ret = -2 -> Go(phase)
             [] a.ret = -1 -> Fail
             [] a.ret >= 0 -> Go(next)
        /\ UNCHANGED <<fx, correct, whole, unread, block, staging>>
  BY DEF HeadTurn
<1> DEFINE total == Total(Side)
<1>2. /\ Me.head \in Nat /\ Me.skip \in Nat /\ Me.coding \in Nat /\ Me.ends \in Nat
      /\ Me.headers \in 0 .. fx.headers_max /\ fx.headers_max \in Nat
      /\ Me.read \in Nat /\ Me.bodyread \in Nat
      /\ total = Me.head + Me.skip + Me.coding
  BY FixtureFacts, SideFacts DEF IInv, IntegrationTypeOK, Me
<1>3. Fits(fx, Me) /\ LaidOut(Me)
  BY LayoutFacts, SideFacts DEF Me
<1>4. /\ have \in Nat /\ inflight \in Nat /\ have + inflight = total
      /\ prev = have /\ have < Me.head /\ rc = 0 /\ ~unread
  BY DEF IInv, IntegrationTypeOK, BytesAccounted, OnCourse, HeadPhases
<1>5. PICK k \in Nat : have = k * Me.read
  BY DEF OnCourse
<1>6. have + r = Smaller((k + 1) * Me.read, total) /\ k + 1 \in Nat
  <2>1. (k + 1) * Me.read = have + Me.read
    BY <1>2, <1>5, Products
  <2> DEFINE m == (k + 1) * Me.read
  <2>2. m = have + Me.read
    BY <2>1
  <2> HIDE DEF m
  <2>3. have + r = Smaller(m, total)
    BY <1>2, <1>4, <2>2 DEF Smaller
  <2> QED BY <2>3 DEF m
<1>7. \/ Side' = Side /\ Me' = Me /\ Total(Side)' = Total(Side)
      \/ phase' \notin HeadPhases
  <2>1. phase' \in {phase, next, "done"}
    <3>1. a.ret = -2 \/ a.ret = -1 \/ (a.ret = Me.head /\ a.ret >= 0)
      BY <1>2 DEF HeadAnswers
    <3>2. CASE a.ret = -2
      BY <1>1, <3>2 DEF Go
    <3>3. CASE a.ret = -1
      BY <1>1, <3>3 DEF Fail
    <3>4. CASE a.ret = Me.head
      <4>1. a.ret # -2 /\ a.ret # -1 /\ a.ret >= 0
        BY <1>2, <3>4
      <4> QED BY <1>1, <4>1 DEF Go
    <3> QED BY <3>1, <3>2, <3>3, <3>4
  <2>2. CASE phase = "server_head"
    BY <1>1, <2>1, <2>2 DEF Side, Me, Total, HeadPhases
  <2>3. CASE phase = "client_head"
    BY <1>1, <2>1, <2>3 DEF Side, Me, Total, HeadPhases
  <2> QED BY <2>2, <2>3
<1> HIDE DEF total
<1>8. CASE have + r < Me.head
  <2>1. a.ret = -2
    BY <1>8 DEF HeadAnswers
  <2>2. phase' = phase /\ rc' = rc
    BY <1>1, <2>1 DEF Go
  <2>3. have' = (k + 1) * Me.read
    <3> DEFINE m == (k + 1) * Me.read
    <3>1. m \in Nat
      BY <1>2, <1>6, Products
    <3> HIDE DEF m
    <3>2. have + r = Smaller(m, total)
      BY <1>6 DEF m
    <3>3. have + r = m
      BY <1>2, <1>8, <3>1, <3>2 DEF Smaller
    <3> QED BY <1>1, <3>3 DEF m
  <2>4. Me' = Me
    BY <1>7, <2>2 DEF HeadPhases
  <2>5. \E i \in Nat : have' = i * Me'.read
    BY <1>6, <2>3, <2>4
  <2>6. prev' = have' /\ have' < Me'.head /\ rc' = 0 /\ unread' = unread
    BY <1>1, <1>4, <1>8, <2>2, <2>4
  <2>7. /\ phase' \in {"server_head", "client_head"} /\ phase' \notin BodyPhases
        /\ UNCHANGED <<fx, correct, whole>>
    BY <1>1, <2>2 DEF BodyPhases
  <2>8. Passed
    BY <2>7 DEF Passed
  <2>9. correct' \in fx'.correct
    BY <2>7 DEF OnCourse
  <2> QED BY <1>4, <2>5, <2>6, <2>7, <2>8, <2>9 DEF OnCourse
<1>9. CASE ~(have + r < Me.head)
  <2>1. a.ret = Me.head
    BY <1>2, <1>4, <1>9 DEF HeadAnswers, Capacity
  <2>2. phase' = next /\ rc' = rc
    <3>1. a.ret # -2 /\ a.ret # -1 /\ a.ret >= 0
      BY <1>2, <2>1
    <3> QED BY <1>1, <3>1 DEF Go
  <2>3. Me' = Me /\ Total(Side)' = Total(Side)
    BY <1>7, <2>2 DEF HeadPhases
  <2>4. Completes(Me, k + 1)
    <3> DEFINE m == (k + 1) * Me.read
    <3>1. m \in Nat /\ ((k + 1) - 1) * Me.read = have
      BY <1>2, <1>5, <1>6, Products
    <3>2. have + r = Smaller(m, total)
      BY <1>6
    <3> HIDE DEF m
    <3>3. Me.head <= m
      BY <1>2, <1>4, <1>9, <3>1, <3>2 DEF Smaller
    <3> QED BY <1>4, <3>1, <3>3 DEF Completes, m
  <2>5. AtStop(Me, total, have')
    <3>1. (k + 1) * Me.read + 0 * Me.bodyread = (k + 1) * Me.read
      BY <1>2, <1>6, Products
    <3>2. have' = Smaller((k + 1) * Me.read + 0 * Me.bodyread, total)
      BY <1>1, <1>6, <3>1
    <3> QED BY <1>6, <2>4, <3>2 DEF AtStop
  <2>6. Start <= have'
    <3> DEFINE m == (k + 1) * Me.read
    <3>1. Me.head + Me.skip <= m
      BY <1>2, <1>3, <1>6, <2>4, StopsBeforeEnd DEF Fits
    <3>2. have + r = Smaller(m, total) /\ m \in Nat
      BY <1>2, <1>6, Products
    <3> HIDE DEF m
    <3> QED BY <1>1, <1>2, <3>1, <3>2 DEF Smaller, Start
  <2>7. Start' = Start
    BY <2>3 DEF Start
  <2>8. phase' = "server_headers" => num_headers' = Me'.headers
    <3>1. a.count = Me.headers
      BY <1>2, <1>4, <1>9 DEF HeadAnswers, Capacity
    <3> QED BY <1>1, <2>3, <3>1
  <2>9. phase' \in {"server_headers", "client_carry"} /\ phase' # "done"
    BY <2>2
  <2>10. rc' = 0 /\ ~unread' /\ correct' \in fx'.correct /\ Passed
    BY <1>1, <1>4, <2>2, <2>9 DEF Passed, OnCourse
  <2>11. AtStop(Me, Total(Side), have)' /\ Start' <= have'
    BY <2>3, <2>5, <2>6, <2>7 DEF total
  <2> QED BY <2>8, <2>9, <2>10, <2>11 DEF OnCourse, BodyPhases
<1> QED BY <1>8, <1>9

LEMMA ServerHeadOnCourse ==
  ASSUME IInv, OnCourse, correct, whole, ServerHead
  PROVE  OnCourse' /\ Passed
<1>1. PICK r \in Recvd(Smaller(Me.read, fx.buf - have)) :
        IF r = 0 THEN RecvFails ELSE HeadTurn(r, "server_headers")
  BY DEF ServerHead
<1>2. phase = "server_head"
  BY DEF ServerHead
<1>3. /\ Me.head \in Nat /\ Me.skip \in Nat /\ Me.coding \in Nat /\ Me.read \in Nat
      /\ fx.buf \in Nat /\ Total(Side) = Me.head + Me.skip + Me.coding
  BY FixtureFacts, SideFacts DEF IInv, IntegrationTypeOK, Me
<1>4. Me.read > 0 /\ Me.head + Me.read <= fx.buf
  BY LayoutFacts, SideFacts DEF Fits, Me
<1>5. /\ have \in Nat /\ inflight \in Nat /\ have + inflight = Total(Side)
      /\ have < Me.head /\ ~unread
  BY <1>2 DEF IInv, IntegrationTypeOK, BytesAccounted, OnCourse, HeadPhases
<1>6. Smaller(Me.read, fx.buf - have) = Me.read /\ inflight > 0
  BY <1>3, <1>4, <1>5 DEF Smaller
<1>7. r = Smaller(Me.read, inflight) /\ r # 0
  BY <1>3, <1>4, <1>5, <1>6, WholeReads
<1>8. HeadTurn(r, "server_headers") /\ UNCHANGED <<fx, correct, whole>>
  BY <1>1, <1>7 DEF HeadTurn
<1> QED BY <1>2, <1>7, <1>8, HeadTurnOnCourse

LEMMA ClientHeadOnCourse ==
  ASSUME IInv, OnCourse, correct, whole, ClientHead
  PROVE  OnCourse' /\ Passed
<1>1. PICK r \in Recvd(Me.read) :
        IF r = 0 \/ Overflows(r) THEN RecvFails ELSE HeadTurn(r, "client_carry")
  BY DEF ClientHead
<1>2. phase = "client_head"
  BY DEF ClientHead
<1>3. /\ Me.head \in Nat /\ Me.skip \in Nat /\ Me.coding \in Nat /\ Me.read \in Nat
      /\ fx.buf \in Nat /\ Total(Side) = Me.head + Me.skip + Me.coding
  BY FixtureFacts, SideFacts DEF IInv, IntegrationTypeOK, Me
<1>4. Me.read > 0 /\ Me.head + Me.read <= fx.buf
  BY LayoutFacts, SideFacts DEF Fits, Me
<1>5. /\ have \in Nat /\ inflight \in Nat /\ have + inflight = Total(Side)
      /\ have < Me.head /\ ~unread
  BY <1>2 DEF IInv, IntegrationTypeOK, BytesAccounted, OnCourse, HeadPhases
<1>6. inflight > 0
  BY <1>3, <1>5
<1>7. r = Smaller(Me.read, inflight) /\ r # 0 /\ r \in Nat
  BY <1>3, <1>4, <1>5, <1>6, WholeReads
<1>8. ~Overflows(r)
  BY <1>3, <1>4, <1>5, <1>7 DEF Overflows, Smaller
<1>9. HeadTurn(r, "client_carry") /\ UNCHANGED <<fx, correct, whole>>
  BY <1>1, <1>7, <1>8 DEF HeadTurn
<1> QED BY <1>2, <1>7, <1>9, HeadTurnOnCourse

(* The stage begins at the start of the coding. *)
LEMMA StageOnCourse ==
  ASSUME IInv, OnCourse, correct, whole, phase \in {"server_carry", "client_carry"},
         UNCHANGED <<fx, correct, whole, wire>>,
         NEW next, next = (IF phase = "server_carry" THEN "server_body" ELSE "client_body"),
         Stage(Me.skip, next)
  PROVE  OnCourse' /\ Passed
<1>1. /\ have2' = have - (headlen + Me.skip) /\ handed' = headlen + Me.skip
      /\ dec' = "ready" /\ dlen' = 0 /\ phase' = next /\ rc' = rc
      /\ UNCHANGED <<have, headlen, inflight, unread>>
  BY DEF Stage, Carried, Go, wire
<1>2. /\ Me.head \in Nat /\ Me.skip \in Nat /\ Me.coding \in Nat
      /\ Me.data \in [0 .. Me.coding -> Nat]
  BY FixtureFacts, SideFacts DEF IInv, IntegrationTypeOK, Me
<1>3. /\ have \in Nat /\ headlen = Me.head /\ AtStop(Me, Total(Side), have) /\ Start <= have
      /\ rc = 0 /\ ~unread
  BY DEF IInv, IntegrationTypeOK, HeadLengthKnown, OnCourse, HeadPhases
<1>4. /\ Side' = Side /\ Me' = Me /\ Total(Side)' = Total(Side) /\ Start' = Start
      /\ phase' \in BodyPhases
  <2>1. Side' = Side /\ phase' \in BodyPhases
    BY <1>1 DEF Side, BodyPhases
  <2> QED BY <2>1 DEF Total, Me, Start
<1>5. handed' = Start /\ handed' + have2' = have /\ handed' - Start = 0
  BY <1>1, <1>2, <1>3 DEF Start
<1>6. dlen' = Me.data[handed' - Start] - Me.data[0]
  BY <1>1, <1>2, <1>5
<1>7. AtStop(Me, Total(Side), handed' + have2')
  BY <1>3, <1>5
<1>8. Passed /\ phase' \notin HeadPhases /\ phase' # "server_reply"
  BY <1>4 DEF Passed, BodyPhases, HeadPhases
<1>9. correct' \in fx'.correct /\ rc' = 0 /\ ~unread'
  BY <1>1, <1>3 DEF OnCourse
<1>10. phase' \notin {"server_head", "client_head", "server_carry", "client_carry"}
  BY <1>4 DEF BodyPhases
<1> QED BY <1>1, <1>4, <1>5, <1>6, <1>7, <1>8, <1>9, <1>10 DEF OnCourse

(* The block of a correct head is received, and the second parse agrees.   *)
LEMMA HeadersOnCourse ==
  ASSUME IInv, OnCourse, correct, whole, ServerHeaders
  PROVE  OnCourse' /\ Passed
<1>1. /\ phase = "server_headers" /\ hs' = PastFirstLine /\ hlen' = BlockSize
      /\ UNCHANGED <<fx, correct, whole, inflight, unread, have, prev, num_headers, headlen,
                     have2, from, handed, dec, dlen>>
  BY DEF ServerHeaders, wire, staging
<1>2. /\ hs' = BufAt + Me.first /\ hlen' = Me.head - Me.first /\ AsInt(hlen') = hlen'
      /\ Received(hs', hlen')
  BY <1>1, BlockFacts
<1>3. Me.headers = num_headers /\ num_headers > 0
  <2>1. Me = fx["server"]
    BY <1>1 DEF Me, Side
  <2>2. "server" \in Sides
    BY DEF Sides
  <2> QED BY <1>1, <2>1, <2>2, LayoutFacts DEF OnCourse
<1>4. phase' = "server_carry" /\ rc' = rc
  <2>1. \A a \in HeadersAnswers(hs', hlen') :
          a.ret = AsInt(hlen') /\ a.count = num_headers /\ a.count > 0 /\ a.same
    BY <1>2, <1>3 DEF HeadersAnswers
  <2> QED BY <1>2, <2>1 DEF ServerHeaders, Go
<1>5. Side' = Side /\ Me' = Me /\ Total(Side)' = Total(Side) /\ Start' = Start
  <2>1. Side' = Side
    BY <1>1, <1>4 DEF Side
  <2> QED BY <1>1, <2>1 DEF Me, Total, Start
<1>6. AtStop(Me, Total(Side), have) /\ Start <= have /\ rc = 0 /\ ~unread
      /\ correct \in fx.correct
  BY <1>1 DEF OnCourse
<1> QED BY <1>1, <1>4, <1>5, <1>6 DEF OnCourse, Passed, BodyPhases

LEMMA CarryOnCourse ==
  ASSUME IInv, OnCourse, correct, whole, ServerCarry \/ ClientCarry
  PROVE  OnCourse' /\ Passed
<1>1. headlen = Me.head /\ Start <= have
  BY DEF IInv, HeadLengthKnown, OnCourse, ServerCarry, ClientCarry
<1>2. CASE ServerCarry
  <2>1. WithinBuffered(Me.skip)
    BY <1>1 DEF WithinBuffered, Start
  <2>2. Stage(Me.skip, "server_body")
    BY <1>2, <2>1 DEF ServerCarry
  <2> QED BY <1>2, <2>2, StageOnCourse DEF ServerCarry
<1>3. CASE ClientCarry
  <2>1. Side = "client"
    BY <1>3 DEF ClientCarry, Side
  <2>2. Me.skip = 0
    BY <2>1, SideFacts, FixtureFacts DEF IInv, IntegrationTypeOK, Me
  <2>3. Stage(Me.skip, "client_body")
    BY <1>3, <2>2 DEF ClientCarry
  <2> QED BY <1>3, <2>3, StageOnCourse DEF ClientCarry
<1> QED BY <1>2, <1>3

(***************************************************************************)
(* A turn of a body loop ends at the next stop: before the end of the      *)
(* coding it goes on, at the end of the traffic it is over.                *)
(***************************************************************************)
LEMMA DecodeTurnOnCourse ==
  ASSUME IInv, OnCourse, correct, whole, phase \in BodyPhases,
         UNCHANGED <<fx, correct, whole, unread>>,
         NEW n \in Nat, n > 0, AtStop(Me, Total(Side), handed + n),
         inflight' \in Nat, handed + n + inflight' = Total(Side),
         NEW leftovers, leftovers = (IF phase = "server_body" THEN Nat ELSE {0}),
         NEW next, next = (IF phase = "server_body" THEN "server_reply" ELSE "done"),
         DecodeTurn(handed, n, leftovers, next)
  PROVE  OnCourse' /\ Passed
<1> DEFINE total == Total(Side)
           end == Start + Me.ends
           p == handed + n
<1>1. PICK a \in DecodeAnswers(handed, n) :
        /\ have2' = 0
        /\ handed' = handed + n
        /\ dlen' = IF NoRoom(a.out) THEN dlen ELSE dlen + a.out
        /\ \/ ~NoRoom(a.out) /\ a.ret = -2 /\ Go(phase)
           \/ ~NoRoom(a.out) /\ a.ret >= 0 /\ a.intact /\ a.ret \in leftovers /\ Go(next)
           \/ /\ \/ NoRoom(a.out) \/ a.ret = -1
                 \/ a.ret >= 0 /\ ~(a.intact /\ a.ret \in leftovers)
              /\ Fail
        /\ UNCHANGED <<head, dec>>
  BY DEF DecodeTurn
<1>2. /\ Me.head \in Nat /\ Me.skip \in Nat /\ Me.coding \in Nat /\ Me.ends \in Nat
      /\ Me.read \in Nat /\ Me.bodyread \in Nat /\ fx.decoded \in Nat
      /\ Me.data \in [0 .. Me.coding -> Nat]
      /\ \A o, q \in 0 .. Me.coding : o <= q => Me.data[o] <= Me.data[q]
      /\ total = Start + Me.coding
  BY FixtureFacts, SideFacts DEF IInv, IntegrationTypeOK, Me, Start
<1>3. Fits(fx, Me) /\ LaidOut(Me) /\ fx["client"].ends = fx["client"].coding
  BY LayoutFacts, SideFacts DEF Me
<1>4. /\ dec = "ready" /\ rc = 0 /\ ~unread /\ handed \in Nat
      /\ handed = Start \/ handed < end
      /\ dlen = Me.data[handed - Start] - Me.data[0]
      /\ handed >= Start
  <2>1. dec = "ready" /\ (handed = Start \/ handed < end)
        /\ dlen = Me.data[handed - Start] - Me.data[0] /\ rc = 0
    BY DEF OnCourse, BodyPhases
  <2>2. ~unread
    BY DEF OnCourse, BodyPhases
  <2>3. handed \in Nat /\ handed >= Start
    BY DEF IInv, IntegrationTypeOK, HeadLengthKnown, Start
  <2> QED BY <2>1, <2>2, <2>3
<1>5. Start \in Nat /\ p \in Nat /\ Start <= p /\ p <= total
  <2>1. Start \in Nat
    BY <1>2 DEF Start
  <2> HIDE DEF total
  <2>2. p \in Nat /\ Start <= p /\ p <= total
    <3>1. handed + n + inflight' = total
      BY DEF total
    <3> QED BY <1>4, <2>1, <3>1
  <2> QED BY <2>1, <2>2
<1>6. /\ a.ret = IF p < end THEN -2 ELSE p - end
      /\ a.out = Me.data[p - Start] - Me.data[handed - Start]
      /\ a.intact
  <2> DEFINE c == Me.head + Me.skip
             R == IF handed + n < c + Me.ends THEN -2 ELSE handed + n - (c + Me.ends)
             O == Me.data[handed + n - c] - Me.data[handed - c]
  <2>1. a \in [ret : {R}, out : {O}, intact : {TRUE}]
    BY <1>4 DEF DecodeAnswers
  <2>2. c = Start
    BY DEF Start
  <2> HIDE DEF c
  <2>3. R = (IF p < end THEN -2 ELSE p - end) /\ O = Me.data[p - Start] - Me.data[handed - Start]
    BY <1>2, <1>4, <1>5, <2>2
  <2> HIDE DEF R, O
  <2>4. a.ret = R /\ a.out = O /\ a.intact = TRUE
    BY <2>1
  <2> QED BY <2>3, <2>4
<1>7. ~NoRoom(a.out) /\ dlen' = Me.data[p - Start] - Me.data[0]
  <2>1. /\ p - Start \in 0 .. Me.coding /\ handed - Start \in 0 .. Me.coding
        /\ 0 \in 0 .. Me.coding /\ Me.coding \in 0 .. Me.coding /\ p - Start <= Me.coding
    <3>1. handed <= p
      BY <1>4
    <3>2. Me.coding \in Nat /\ total = Start + Me.coding
      BY <1>2
    <3> HIDE DEF p, total
    <3> QED BY <1>4, <1>5, <3>1, <3>2
  <2>2. /\ Me.data[p - Start] \in Nat /\ Me.data[handed - Start] \in Nat /\ Me.data[0] \in Nat
        /\ Me.data[Me.coding] \in Nat /\ Me.data[p - Start] <= Me.data[Me.coding]
        /\ Me.data[Me.coding] - Me.data[0] < fx.decoded
    BY <1>2, <1>3, <2>1 DEF Fits
  <2>3. dlen + a.out = Me.data[p - Start] - Me.data[0]
    BY <1>4, <1>6, <2>2
  <2>4. ~NoRoom(a.out)
    BY <1>2, <2>2, <2>3 DEF NoRoom
  <2> QED BY <1>1, <2>3, <2>4
<1>8. p < total => p < end
  <2>1. PICK k \in Nat, j \in Nat :
           Completes(Me, k) /\ p = Smaller(k * Me.read + j * Me.bodyread, total)
    BY DEF AtStop
  <2> DEFINE m == k * Me.read + j * Me.bodyread
  <2>2. m \in Nat
    <3>1. k * Me.read \in Nat
      BY <1>2, Products
    <3>2. j * Me.bodyread \in Nat
      BY <1>2, Products
    <3> QED BY <3>1, <3>2
  <2>3. m < Me.head + Me.skip + Me.coding => m < Me.head + Me.skip + Me.ends
    BY <1>2, <1>3, <2>1, StopsBeforeEnd DEF Fits
  <2>4. p = Smaller(m, total)
    BY <2>1
  <2> HIDE DEF m, p
  <2> QED BY <1>2, <2>2, <2>3, <2>4 DEF Smaller, Start
<1>9. correct' \in fx'.correct /\ correct' = correct /\ whole' = whole /\ ~unread'
  BY <1>4 DEF OnCourse
<1> HIDE DEF p, end, total
<1>10. CASE p < end
  <2>1. a.ret = -2
    BY <1>6, <1>10
  <2>2. phase' = phase /\ rc' = 0
    BY <1>1, <1>4, <1>7, <2>1 DEF Go
  <2>3. Side' = Side /\ Me' = Me /\ Total(Side)' = total /\ Start' = Start
    BY <2>2 DEF Side, Me, Total, Start, total
  <2>4. handed' = p /\ handed' + have2' = p /\ dec' = "ready"
    BY <1>1, <1>4, <1>5 DEF p, staging
  <2>5. AtStop(Me, total, p)
    BY DEF p, total
  <2>6. Passed /\ phase' \notin HeadPhases /\ phase' # "server_reply"
    BY <2>2 DEF Passed, BodyPhases, HeadPhases
  <2>7. handed' < Start + Me.ends
    BY <1>10, <2>4 DEF end
  <2>8. dlen' = Me.data[handed' - Start] - Me.data[0]
    BY <1>7, <2>4
  <2>9. phase' \notin {"server_head", "client_head", "server_headers", "server_carry",
                       "client_carry", "done"}
    BY <2>2 DEF BodyPhases
  <2> QED BY <1>9, <2>2, <2>3, <2>4, <2>5, <2>6, <2>7, <2>8, <2>9 DEF OnCourse
<1>11. CASE ~(p < end)
  <2>1. p = total /\ inflight' = 0
    BY <1>2, <1>5, <1>8, <1>11 DEF p, total
  <2>2. a.ret = total - end /\ a.ret \in Nat
    <3>1. a.ret = total - end
      BY <1>6, <1>11, <2>1
    <3>2. Me.ends <= Me.coding
      BY <1>3 DEF Fits
    <3> QED BY <1>2, <1>5, <3>1, <3>2 DEF end
  <2>3. a.ret \in leftovers
    <3>1. CASE phase = "server_body"
      BY <2>2, <3>1
    <3>2. CASE phase = "client_body"
      <4>1. Side = "client" /\ phase # "server_body"
        BY <3>2 DEF Side
      <4>2. Me.ends = Me.coding
        BY <1>3, <4>1 DEF Me
      <4> QED BY <1>2, <1>5, <2>2, <4>1, <4>2 DEF end
    <3> QED BY <3>1, <3>2 DEF BodyPhases
  <2>4. phase' = next /\ rc' = 0
    BY <1>1, <1>4, <1>6, <1>7, <2>2, <2>3 DEF Go
  <2>5. phase' \in {"server_reply", "done"} /\ phase' \notin HeadPhases \cup BodyPhases
    BY <2>4 DEF HeadPhases, BodyPhases
  <2>6. phase' \notin {"server_head", "client_head", "server_carry", "client_carry"}
    BY <2>5
  <2> QED BY <1>9, <2>1, <2>4, <2>5, <2>6 DEF OnCourse, Passed
<1> QED BY <1>10, <1>11

LEMMA BodyOnCourse ==
  ASSUME IInv, OnCourse, correct, whole, phase \in BodyPhases,
         NEW leftovers, leftovers = (IF phase = "server_body" THEN Nat ELSE {0}),
         NEW next, next = (IF phase = "server_body" THEN "server_reply" ELSE "done"),
         Body(Me.bodyread, leftovers, next)
  PROVE  OnCourse' /\ Passed
<1> DEFINE total == Total(Side)
<1>1. /\ inflight \in Nat /\ have2 \in Nat /\ handed \in Nat
      /\ handed + have2 + inflight = total
      /\ have2 > 0 => from = handed
  BY DEF IInv, IntegrationTypeOK, BytesAccounted
<1>2. AtStop(Me, total, handed + have2) /\ ~unread
      /\ (handed = Start \/ handed < Start + Me.ends)
  BY DEF OnCourse, BodyPhases
<1>3. UNCHANGED <<fx, correct, whole, unread>>
  BY DEF Body
<1>4. CASE have2 > 0
  <2>1. DecodeTurn(handed, have2, leftovers, next) /\ inflight' = inflight
    BY <1>1, <1>4 DEF Body
  <2> QED BY <1>1, <1>2, <1>3, <1>4, <2>1, DecodeTurnOnCourse
<1>5. CASE ~(have2 > 0)
  <2>1. PICK r \in Recvd(Me.bodyread) :
          /\ inflight' = inflight - r
          /\ IF r = 0 THEN Fail /\ UNCHANGED <<head, staging>>
             ELSE DecodeTurn(total - inflight, r, leftovers, next)
    BY <1>5 DEF Body
  <2>2. /\ Me.head \in Nat /\ Me.skip \in Nat /\ Me.coding \in Nat /\ Me.ends \in Nat
        /\ Me.read \in Nat /\ Me.bodyread \in Nat /\ total = Start + Me.coding
        /\ Start \in Nat
    BY FixtureFacts, SideFacts DEF IInv, IntegrationTypeOK, Me, Start
  <2>3. Me.bodyread > 0 /\ Me.coding > 0 /\ Me.ends <= Me.coding
    BY LayoutFacts, SideFacts DEF Fits, Me
  <2>4. have2 = 0 /\ handed < total /\ inflight > 0 /\ total - inflight = handed
    <3> HIDE DEF total
    <3> QED BY <1>1, <1>2, <1>5, <2>2, <2>3
  <2>5. r = Smaller(Me.bodyread, inflight) /\ r \in Nat /\ r # 0
    BY <1>1, <1>2, <2>2, <2>3, <2>4, WholeReads
  <2>6. AtStop(Me, total, handed + r)
    <3>1. PICK k \in Nat, j \in Nat :
             Completes(Me, k) /\ handed + have2 = Smaller(k * Me.read + j * Me.bodyread, total)
      BY <1>2 DEF AtStop
    <3> DEFINE x == k * Me.read
               y == j * Me.bodyread
               z == (j + 1) * Me.bodyread
    <3>2. x \in Nat /\ y \in Nat /\ z = y + Me.bodyread /\ j + 1 \in Nat
      BY <2>2, Products
    <3>3. handed = Smaller(x + y, total)
      BY <1>1, <2>4, <3>1
    <3> HIDE DEF x, y, z, total
    <3>4. handed + r = Smaller(x + z, total)
      BY <1>1, <2>2, <2>4, <2>5, <3>2, <3>3 DEF Smaller
    <3> QED BY <3>1, <3>2, <3>4 DEF AtStop, x, z
  <2>7. DecodeTurn(handed, r, leftovers, next)
    BY <2>1, <2>4, <2>5
  <2>8. inflight' \in Nat /\ handed + r + inflight' = total
    <3> HIDE DEF total
    <3> QED BY <1>1, <2>1, <2>2, <2>4, <2>5 DEF Smaller
  <2> QED BY <1>3, <2>5, <2>6, <2>7, <2>8, DecodeTurnOnCourse
<1> QED BY <1>4, <1>5

-----------------------------------------------------------------------------
(* Failures outside the loops end a run; it stays on course all the same.  *)
LEMMA FailOnCourse ==
  ASSUME OnCourse, Fail, UNCHANGED <<fx, correct, whole>>
  PROVE  OnCourse'
BY DEF OnCourse, Fail, HeadPhases, BodyPhases

LEMMA OnCourseInitially == Init => OnCourse
BY DEF Init, OnCourse, HeadPhases, BodyPhases

LEMMA OtherwiseOnCourse ==
  ASSUME IInv, OnCourse, ~(correct /\ whole), Next
  PROVE  OnCourse'
<1>1. UNCHANGED <<fx, correct, whole>>
  BY DEF Next, Setup, ClientSend, ServerHead, ServerHeaders, ServerCarry, ServerBody, ServerReply,
         ClientHead, ClientCarry, ClientBody, Body, RecvFails, HeadTurn
<1> QED BY <1>1 DEF OnCourse

LEMMA StepsOnCourse ==
  ASSUME IInv, OnCourse, [Next]_vars
  PROVE  OnCourse' /\ (correct /\ whole /\ Exchanging => rc' = 0 \/ UNCHANGED vars)
<1>1. CASE UNCHANGED vars
  <2>1. UNCHANGED <<fx, correct, whole, phase, inflight, unread, have, prev, num_headers, have2,
                    handed, dec, dlen, rc>>
    BY <1>1 DEF vars, wire, head, staging
  <2>2. Side' = Side /\ Me' = Me /\ Start' = Start /\ Total(Side)' = Total(Side)
    BY <2>1 DEF Side, Me, Start, Total
  <2> QED BY <1>1, <2>1, <2>2 DEF OnCourse
<1>2. CASE Next /\ ~(correct /\ whole)
  BY <1>2, OtherwiseOnCourse
<1>3. CASE Next /\ correct /\ whole
  <2> USE <1>3
  <2>1. ASSUME OnCourse', Passed PROVE rc' = 0
    <3>1. UNCHANGED <<correct, whole>>
      BY DEF Next, Setup, ClientSend, ServerHead, ServerHeaders, ServerCarry, ServerBody,
             ServerReply, ClientHead, ClientCarry, ClientBody, Body, RecvFails, HeadTurn
    <3> QED BY <2>1, <3>1 DEF OnCourse, Passed
  <2>2. CASE ServerHead
    BY <2>1, <2>2, ServerHeadOnCourse
  <2>3. CASE ClientHead
    BY <2>1, <2>3, ClientHeadOnCourse
  <2>10. CASE ServerHeaders
    BY <2>1, <2>10, HeadersOnCourse
  <2>4. CASE ServerCarry \/ ClientCarry
    BY <2>1, <2>4, CarryOnCourse
  <2>5. CASE ServerBody
    BY <2>1, <2>5, BodyOnCourse DEF ServerBody, BodyPhases
  <2>6. CASE ClientBody
    BY <2>1, <2>6, BodyOnCourse DEF ClientBody, BodyPhases
  <2>7. CASE Setup
    <3>1. ~Exchanging
      BY <2>7 DEF Setup, Exchanging
    <3>2. CASE Fail
      BY <2>7, <3>1, <3>2, FailOnCourse DEF Setup
    <3>3. CASE Go("client_send")
      <4>1. /\ phase' = "client_send" /\ phase = "setup" /\ rc' = rc
            /\ UNCHANGED <<fx, correct, whole, unread>>
        BY <2>7, <3>3 DEF Setup, Go, wire
      <4>2. rc = 0 /\ ~unread /\ correct \in fx.correct
        BY <4>1 DEF OnCourse
      <4>3. phase' \notin {"server_reply", "done", "server_head", "client_head",
                           "server_carry", "client_carry"} \cup BodyPhases
        BY <4>1 DEF BodyPhases
      <4>4. OnCourse'
        BY <4>1, <4>2, <4>3 DEF OnCourse
      <4> QED BY <3>1, <4>4
    <3> QED BY <2>7, <3>2, <3>3 DEF Setup
  <2>8. CASE ClientSend
    <3>1. ~Exchanging
      BY <2>8 DEF ClientSend, Exchanging
    <3>2. CASE Fail
      BY <2>8, <3>1, <3>2, FailOnCourse DEF ClientSend
    <3>3. CASE SendAll(Total("server")) /\ Entered /\ Go("server_head")
      <4>1. rc' = 0 /\ ~unread' /\ "server" \in Sides
        BY <2>8, <3>3 DEF ClientSend, Go, SendAll, OnCourse, Sides
      <4> QED BY <2>8, <3>1, <3>3, <4>1, EndOnCourse DEF ClientSend, Go
    <3> QED BY <2>8, <3>2, <3>3 DEF ClientSend
  <2>9. CASE ServerReply
    <3>1. ~Exchanging
      BY <2>9 DEF ServerReply, Exchanging
    <3>2. CASE Fail
      BY <2>9, <3>1, <3>2, FailOnCourse DEF ServerReply
    <3>3. CASE unread' = (inflight > 0) /\ Entered /\ Go("client_head")
      <4>1. rc' = 0 /\ ~unread' /\ "client" \in Sides /\ "client" # "server"
        <5>1. inflight = 0 /\ rc = 0 /\ rc' = rc
          BY <2>9, <3>3 DEF ServerReply, Go, OnCourse
        <5>2. ~(inflight > 0)
          BY <5>1
        <5>3. ~unread'
          BY <3>3, <5>2
        <5> QED BY <5>1, <5>3 DEF Sides
      <4> QED BY <2>9, <3>1, <3>3, <4>1, EndOnCourse DEF ServerReply, Go
    <3> QED BY <2>9, <3>2, <3>3 DEF ServerReply
  <2> QED BY <2>2, <2>3, <2>4, <2>5, <2>6, <2>7, <2>8, <2>9, <2>10 DEF Next
<1> QED BY <1>1, <1>2, <1>3

(***************************************************************************)
(* Correct parsers pass: the consumer's own arithmetic, its hints, its     *)
(* capacity and its fresh decoders never fail an exchange whose traffic is *)
(* laid out for its reads.                                                 *)
(***************************************************************************)
THEOREM CorrectParsersPass == Spec => CorrectRunPasses
<1>1. Spec => []OnCourse
  BY IntegrationInvariant, OnCourseInitially, StepsOnCourse, PTL DEF Spec
<1>2. ASSUME IInv, OnCourse, [Next]_vars
      PROVE  [correct /\ whole /\ Exchanging => rc' = 0]_vars
  BY <1>2, StepsOnCourse
<1> QED BY <1>1, <1>2, IntegrationInvariant, PTL DEF Spec, CorrectRunPasses
=============================================================================
