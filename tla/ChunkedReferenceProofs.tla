----------------------- MODULE ChunkedReferenceProofs -----------------------
(***************************************************************************)
(* The decoder reads the chunked coding: for every stream, however it is   *)
(* cut into calls, what the caller has is what the grammar of              *)
(* ChunkedReference reads off the bytes at once.  The invariant Reads says *)
(* where in the grammar the decoder stands, and what the bytes so far say  *)
(* of every way the stream may go on.                                      *)
(***************************************************************************)
EXTENDS ChunkedReference, ChunkedSessionProofs, WellFoundedInduction

-----------------------------------------------------------------------------
(* Naturals are well founded: an argument by the least counterexample. *)
LEMMA Least ==
  ASSUME NEW T, T \subseteq Nat, T # {}
  PROVE  \E x \in T : \A y \in T : x <= y
  <1>1. IsWellFoundedOn(OpToRel(<, Nat), Nat)
    BY NatLessThanWellFounded
  <1>2. PICK x \in T : \A y \in T : ~ (<<y, x>> \in OpToRel(<, Nat))
    BY <1>1, WFMin
  <1>3. \A y \in T : y \in Nat /\ ~(y < x) /\ x \in Nat
    BY <1>2 DEF OpToRel
  <1>. QED
    BY <1>3

LEMMA MinIs ==
  ASSUME NEW T \in SUBSET Nat, NEW e \in T, \A y \in T : e <= y
  PROVE  Min(T) = e
  <1>1. \A x \in T : (\A y \in T : x <= y) => x = e
    OBVIOUS
  <1>. QED
    BY <1>1 DEF Min

(* The first byte of a class, where there is one and where not. *)
LEMMA FirstIs ==
  ASSUME NEW f \in Seq(Byte), NEW at \in Nat \ {0}, NEW S,
         NEW e \in at .. Len(f) + 1, \A i \in at .. e - 1 : f[i] \notin S,
         e <= Len(f) => f[e] \in S
  PROVE  First(f, at, S) = e
  <1>. DEFINE T == {i \in at .. Len(f) : f[i] \in S} \cup {Len(f) + 1}
  <1>1. Len(f) \in Nat
    OBVIOUS
  <1>2. T \in SUBSET Nat /\ e \in T
    BY <1>1
  <1>3. \A y \in T : e <= y
    BY <1>1
  <1>. QED
    BY <1>2, <1>3, MinIs DEF First

LEMMA FirstThere ==
  ASSUME NEW f \in Seq(Byte), NEW at \in Nat \ {0}, NEW S, at <= Len(f) + 1
  PROVE  /\ First(f, at, S) \in at .. Len(f) + 1
         /\ \A i \in at .. First(f, at, S) - 1 : f[i] \notin S
         /\ First(f, at, S) <= Len(f) => f[First(f, at, S)] \in S
  <1>. DEFINE T == {i \in at .. Len(f) : f[i] \in S} \cup {Len(f) + 1}
  <1>1. Len(f) \in Nat
    OBVIOUS
  <1>2. T \subseteq Nat /\ T # {}
    BY <1>1
  <1>3. PICK e \in T : \A y \in T : e <= y
    BY <1>2, Least
  <1>4. First(f, at, S) = e
    BY <1>2, <1>3, MinIs DEF First
  <1>5. e \in at .. Len(f) + 1
    BY <1>1
  <1>6. \A i \in at .. e - 1 : f[i] \notin S
    BY <1>1, <1>3, <1>5
  <1>7. e <= Len(f) => f[e] \in S
    BY <1>1
  <1>. QED
    BY <1>4, <1>5, <1>6, <1>7

-----------------------------------------------------------------------------
(* The line break that may stand at an index. *)
LEMMA Breaks ==
  ASSUME NEW f \in Seq(Byte), NEW at \in Nat \ {0}
  PROVE  /\ at < Len(f) /\ f[at] = CR /\ f[at + 1] = LF => BreakAt(f, at) = "there"
         /\ at < Len(f) /\ f[at + 1] # LF => BreakAt(f, at) = "wrong"
         /\ at <= Len(f) /\ f[at] # CR => BreakAt(f, at) = "wrong"
         /\ at > Len(f) => BreakAt(f, at) = "unknown"
         /\ at = Len(f) /\ f[at] = CR => BreakAt(f, at) = "unknown"
         /\ BreakAt(f, at) = "there" => at < Len(f)
  <1>1. Len(f) \in Nat /\ CRLF[1] = CR /\ CRLF[2] = LF
    BY DEF CRLF
  <1>2. /\ 1 \in 1 .. 2 /\ 2 \in 1 .. 2 /\ at + 1 - 1 = at /\ at + 2 - 1 = at + 1
        /\ \A i \in 1 .. 2 : i = 1 \/ i = 2
    OBVIOUS
  <1>3. (\E i \in 1 .. 2 : at + i - 1 <= Len(f) /\ f[at + i - 1] # CRLF[i])
          <=> \/ at <= Len(f) /\ f[at] # CR
              \/ at < Len(f) /\ f[at + 1] # LF
    BY <1>1, <1>2
  <1>. QED
    BY <1>1, <1>3 DEF BreakAt

-----------------------------------------------------------------------------
(***************************************************************************)
(* Numbers.  v[i] is what the first i of the digits s denote.              *)
(***************************************************************************)
Values(v, s) ==
  /\ v \in [0 .. Len(s) -> Nat] /\ v[0] = 0
  /\ \A i \in 1 .. Len(s) : v[i] = 16 * v[i - 1] + hex_val(s[i])

LEMMA NumberIs ==
  ASSUME NEW s \in Seq(Byte), NEW v, Values(v, s)
  PROVE  Number(s) = v[Len(s)]
  <1>. DEFINE Recursive(f) ==
                f = [i \in 0 .. Len(s) |->
                       IF i = 0 THEN 0 ELSE 16 * f[i - 1] + hex_val(s[i])]
              f == CHOOSE h : Recursive(h)
              Bad == {i \in 0 .. Len(s) : f[i] # v[i]}
  <1>1. Len(s) \in Nat
    OBVIOUS
  <1>2. Recursive(v)
    <2>1. \A i \in 0 .. Len(s) : i = 0 \/ i \in 1 .. Len(s)
      BY <1>1
    <2>. QED
      BY <2>1 DEF Values
  <1>3. Recursive(f)
    BY <1>2
  <1>4. Number(s) = f[Len(s)]
    BY DEF Number
  <1>. HIDE DEF f
  <1>5. \A i \in 0 .. Len(s) : f[i] = IF i = 0 THEN 0 ELSE 16 * f[i - 1] + hex_val(s[i])
    BY <1>3
  <1>6. Bad = {}
    <2>1. SUFFICES ASSUME Bad # {} PROVE FALSE
      OBVIOUS
    <2>2. Bad \subseteq Nat
      BY <1>1
    <2>3. PICK i \in Bad : \A j \in Bad : i <= j
      BY <2>1, <2>2, Least
    <2>4. i # 0
      BY <1>5, <2>3, <1>1 DEF Values
    <2>5. i \in 1 .. Len(s) /\ i - 1 \in 0 .. Len(s) /\ i - 1 \notin Bad
      BY <2>3, <2>4, <1>1
    <2>6. f[i] = v[i]
      BY <1>5, <2>4, <2>5 DEF Values
    <2>. QED
      BY <2>3, <2>6
  <1>. QED
    BY <1>1, <1>4, <1>6

(* Values of one digit more. *)
LEMMA ValuesExtend ==
  ASSUME NEW s \in Seq(Byte), NEW v, Values(v, s),
         NEW t \in Seq(Byte), Len(t) = Len(s) + 1,
         \A i \in 1 .. Len(s) : t[i] = s[i], t[Len(t)] \in HexDigits
  PROVE  \E w : Values(w, t) /\ w[Len(t)] = 16 * v[Len(s)] + hex_val(t[Len(t)])
  <1>. DEFINE x == 16 * v[Len(s)] + hex_val(t[Len(t)])
              w == [i \in 0 .. Len(t) |-> IF i <= Len(s) THEN v[i] ELSE x]
  <1>1. Len(s) \in Nat /\ Len(t) \in Nat
    OBVIOUS
  <1>2. v[Len(s)] \in Nat /\ hex_val(t[Len(t)]) \in 0 .. 15
    BY <1>1, HexDigitValue DEF Values
  <1>3. x \in Nat
    <2>1. \A p \in Nat, q \in 0 .. 15 : 16 * p + q \in Nat
      OBVIOUS
    <2>. QED
      BY <1>2, <2>1
  <1>. HIDE DEF x
  <1>4. w \in [0 .. Len(t) -> Nat] /\ w[0] = 0
    <2>1. \A i \in 0 .. Len(t) : i <= Len(s) => i \in 0 .. Len(s)
      BY <1>1
    <2>2. \A i \in 0 .. Len(s) : v[i] \in Nat
      BY DEF Values
    <2>3. w \in [0 .. Len(t) -> Nat]
      BY <1>3, <2>1, <2>2
    <2>4. 0 \in 0 .. Len(t) /\ 0 <= Len(s)
      BY <1>1
    <2>5. w[0] = 0
      BY <2>4 DEF Values
    <2>. QED
      BY <2>3, <2>5
  <1>5. w[Len(t)] = x
    BY <1>1
  <1>6. ASSUME NEW i \in 1 .. Len(t)
        PROVE  w[i] = 16 * w[i - 1] + hex_val(t[i])
    <2>1. i - 1 \in 0 .. Len(t) /\ i \in 0 .. Len(t) /\ i - 1 <= Len(s)
      BY <1>1
    <2>2. w[i - 1] = v[i - 1]
      BY <2>1
    <2>3. CASE i <= Len(s)
      <3>1. i \in 1 .. Len(s)
        BY <2>3, <1>1
      <3>2. w[i] = v[i]
        BY <2>1, <2>3
      <3>. QED
        BY <2>2, <3>1, <3>2 DEF Values
    <2>4. CASE i = Len(t)
      <3>1. i - 1 = Len(s)
        BY <2>4, <1>1
      <3>. QED
        BY <2>2, <2>4, <3>1, <1>5 DEF x
    <2>. QED
      BY <2>3, <2>4, <1>1
  <1>7. Values(w, t)
    BY <1>4, <1>6 DEF Values
  <1>. QED
    BY <1>5, <1>7 DEF x

LEMMA ValuesExist ==
  ASSUME NEW s \in Seq(HexDigits)
  PROVE  \E v : Values(v, s)
  <1>. DEFINE Bad == {k \in 0 .. Len(s) : ~ \E v : Values(v, SubSeq(s, 1, k))}
  <1>1. Len(s) \in Nat /\ s \in Seq(Byte)
    BY SeqMonotonic DEF HexDigits, Byte
  <1>2. Bad = {}
    <2>. SUFFICES ASSUME Bad # {} PROVE FALSE
      OBVIOUS
    <2>1. Bad \subseteq Nat
      BY <1>1
    <2>2. PICK k \in Bad : \A j \in Bad : k <= j
      BY <2>1, Least
    <2>3. CASE k = 0
      <3>1. SubSeq(s, 1, k) = << >>
        BY <2>3, SubSeqEmpty
      <3>. DEFINE v == [i \in 0 .. 0 |-> 0]
      <3>2. Values(v, << >>)
        BY DEF Values
      <3>. QED
        BY <2>2, <3>1, <3>2
    <2>4. CASE k # 0
      <3>. DEFINE a == SubSeq(s, 1, k - 1)
                  b == SubSeq(s, 1, k)
      <3>1. k \in 1 .. Len(s) /\ k - 1 \in 0 .. Len(s) /\ k - 1 \notin Bad
        BY <2>2, <2>4, <1>1
      <3>2. PICK v : Values(v, a)
        BY <3>1
      <3>3. /\ a \in Seq(Byte) /\ Len(a) = k - 1
            /\ \A i \in 1 .. k - 1 : a[i] = s[i]
        BY <1>1, <3>1
      <3>4. /\ b \in Seq(Byte) /\ Len(b) = k
            /\ \A i \in 1 .. k : b[i] = s[i]
        BY <1>1, <3>1
      <3>5. b[k] \in HexDigits
        BY <3>1, <3>4
      <3>6. \A i \in 1 .. Len(a) : b[i] = a[i]
        BY <3>1, <3>3, <3>4
      <3>. HIDE DEF a, b
      <3>7. \E w : Values(w, b)
        <4>1. Len(b) = Len(a) + 1 /\ b[Len(b)] \in HexDigits
          BY <3>1, <3>3, <3>4, <3>5
        <4>. QED
          BY <3>2, <3>3, <3>4, <3>6, <4>1, ValuesExtend
      <3>. QED
        BY <2>2, <3>7 DEF b
    <2>. QED
      BY <2>3, <2>4
  <1>3. SubSeq(s, 1, Len(s)) = s
    BY SubSeqFull
  <1>4. Len(s) \in 0 .. Len(s) /\ Len(s) \notin Bad
    BY <1>1, <1>2
  <1>. QED
    BY <1>3, <1>4

(* What hexadecimal digits denote, and what one more makes of it. *)
LEMMA NumberNat ==
  ASSUME NEW s \in Seq(HexDigits)
  PROVE  Number(s) \in Nat
  <1>1. s \in Seq(Byte) /\ Len(s) \in Nat
    BY SeqMonotonic DEF HexDigits, Byte
  <1>2. PICK v : Values(v, s)
    BY ValuesExist
  <1>. QED
    BY <1>1, <1>2, NumberIs DEF Values

LEMMA NumberEmpty == Number(<< >>) = 0
  <1>. DEFINE v == [i \in 0 .. 0 |-> 0]
  <1>1. Values(v, << >>)
    BY DEF Values
  <1>2. << >> \in Seq(Byte) /\ Len(<< >>) = 0 /\ v[0] = 0
    OBVIOUS
  <1>. QED
    BY <1>1, <1>2, NumberIs

LEMMA NumberNext ==
  ASSUME NEW s \in Seq(Byte), NEW at \in Nat \ {0}, NEW to \in Nat,
         at <= to, to <= Len(s), \A i \in at .. to : s[i] \in HexDigits
  PROVE  Number(SubSeq(s, at, to))
           = 16 * Number(SubSeq(s, at, to - 1)) + hex_val(s[to])
  <1>. DEFINE a == SubSeq(s, at, to - 1)
              b == SubSeq(s, at, to)
  <1>0. Len(s) \in Nat
    OBVIOUS
  <1>1. /\ a \in Seq(HexDigits) /\ Len(a) = to - at
        /\ \A i \in 1 .. to - at : a[i] = s[at + i - 1]
    BY SubSeqProperties
  <1>2. /\ b \in Seq(HexDigits) /\ Len(b) = to - at + 1
        /\ \A i \in 1 .. to - at + 1 : b[i] = s[at + i - 1]
    BY SubSeqProperties
  <1>. HIDE DEF a, b
  <1>3. a \in Seq(Byte) /\ b \in Seq(Byte)
    <2>1. HexDigits \subseteq Byte
      BY DEF HexDigits, Byte
    <2>. QED
      BY <1>1, <1>2, <2>1, SeqMonotonic
  <1>4. Len(b) = Len(a) + 1 /\ b[Len(b)] = s[to] /\ s[to] \in HexDigits
    BY <1>1, <1>2
  <1>5. \A i \in 1 .. Len(a) : b[i] = a[i]
    <2>1. to - at \in Nat /\ 1 .. to - at \subseteq 1 .. to - at + 1
      OBVIOUS
    <2>. QED
      BY <1>1, <1>2, <2>1
  <1>6. PICK v : Values(v, a)
    BY <1>1, ValuesExist
  <1>7. PICK w : Values(w, b) /\ w[Len(b)] = 16 * v[Len(a)] + hex_val(b[Len(b)])
    BY <1>3, <1>4, <1>5, <1>6, ValuesExtend
  <1>8. Number(a) = v[Len(a)] /\ Number(b) = w[Len(b)]
    BY <1>3, <1>6, <1>7, NumberIs
  <1>9. Number(b) = 16 * Number(a) + hex_val(s[to])
    BY <1>4, <1>7, <1>8
  <1>. QED
    BY <1>9 DEF a, b

-----------------------------------------------------------------------------
(***************************************************************************)
(* The chunk that begins at an index: where its parts lie.                 *)
(***************************************************************************)
LEMMA ChunkParts ==
  ASSUME NEW f \in Seq(Byte), NEW at \in 1 .. Len(f) + 1
  PROVE  /\ DigitsEnd(f, at) \in at .. Len(f) + 1
         /\ SizeDigits(f, at) \in Seq(HexDigits)
         /\ Len(SizeDigits(f, at)) = DigitsEnd(f, at) - at
         /\ LineEnd(f, at) \in DigitsEnd(f, at) .. Len(f) + 1
         /\ Number(SizeDigits(f, at)) \in Nat
  <1>. DEFINE d == DigitsEnd(f, at)
  <1>1. Len(f) \in Nat /\ at \in Nat \ {0} /\ at <= Len(f) + 1
    OBVIOUS
  <1>2. d \in at .. Len(f) + 1 /\ \A i \in at .. d - 1 : f[i] \notin Byte \ HexDigits
    BY <1>1, FirstThere DEF DigitsEnd
  <1>. HIDE DEF d
  <1>3. d \in Nat \ {0} /\ d <= Len(f) + 1 /\ at <= d
    BY <1>1, <1>2
  <1>4. LineEnd(f, at) \in d .. Len(f) + 1
    BY <1>3, FirstThere DEF LineEnd, d
  <1>5. \A i \in at .. d - 1 : f[i] \in HexDigits
    <2>1. \A i \in at .. d - 1 : i \in 1 .. Len(f)
      BY <1>1, <1>3
    <2>2. \A i \in at .. d - 1 : f[i] \in Byte
      BY <2>1
    <2>. QED
      BY <1>2, <2>2
  <1>6. /\ SubSeq(f, at, d - 1) \in Seq(HexDigits)
        /\ Len(SubSeq(f, at, d - 1)) = d - at
    BY <1>1, <1>3, <1>5, SubSeqProperties
  <1>7. SizeDigits(f, at) = SubSeq(f, at, d - 1)
    BY DEF SizeDigits, d
  <1>. QED
    BY <1>2, <1>4, <1>6, <1>7, NumberNat DEF d

(* The data there is of a chunk whose line ends at index l. *)
LEMMA DataThere ==
  ASSUME NEW f \in Seq(Byte), NEW l \in Nat, NEW size \in Nat, l + 1 <= Len(f)
  PROVE  LET data == SubSeq(f, l + 2, Min({(l + 2 + size) - 1, Len(f)})) IN
         /\ data \in Seq(Byte)
         /\ l + 1 + size <= Len(f) =>
              data = SubSeq(f, l + 2, l + 1 + size) /\ Len(data) = size
         /\ Len(f) < l + 1 + size =>
              data = SubSeq(f, l + 2, Len(f)) /\ Len(data) = Len(f) - (l + 1)
  <1>. DEFINE m == Min({(l + 2 + size) - 1, Len(f)})
              data == SubSeq(f, l + 2, m)
  <1>1. Len(f) \in Nat /\ (l + 2 + size) - 1 = l + 1 + size
    OBVIOUS
  <1>2. {(l + 2 + size) - 1, Len(f)} \in SUBSET Nat
    BY <1>1
  <1>3. l + 1 + size <= Len(f) => m = l + 1 + size
    BY <1>1, <1>2, MinIs
  <1>4. Len(f) < l + 1 + size => m = Len(f)
    BY <1>1, <1>2, MinIs
  <1>5. m \in l + 1 .. Len(f)
    BY <1>1, <1>3, <1>4
  <1>. HIDE DEF m
  <1>6. \A i \in l + 2 .. m : f[i] \in Byte
    <2>1. \A i \in l + 2 .. m : i \in 1 .. Len(f)
      BY <1>1, <1>5
    <2>. QED
      BY <2>1
  <1>7. data \in Seq(Byte) /\ Len(data) = m - (l + 1)
    BY <1>1, <1>5, <1>6, SubSeqProperties
  <1>8. l + 1 + size <= Len(f) =>
          data = SubSeq(f, l + 2, l + 1 + size) /\ Len(data) = size
    BY <1>1, <1>3, <1>7
  <1>9. Len(f) < l + 1 + size =>
          data = SubSeq(f, l + 2, Len(f)) /\ Len(data) = Len(f) - (l + 1)
    BY <1>1, <1>4, <1>7
  <1>. QED
    BY <1>7, <1>8, <1>9 DEF m

BreakKinds == {"there", "wrong", "unknown"}

LEMMA BreakKind == \A f, at : BreakAt(f, at) \in BreakKinds
  BY DEF BreakAt, BreakKinds

(* What a chunk says, c, from its parts. *)
Outcome(f, bad, l, size, data, trailers, next, c) ==
  /\ bad \/ BreakAt(f, l) = "wrong" => c = Failed(<< >>)
  /\ ~bad /\ BreakAt(f, l) = "unknown" => c = More(<< >>)
  /\ ~bad /\ BreakAt(f, l) = "there" =>
       /\ size = 0 =>
            c = IF trailers THEN Trailers(f, l + 2)
                ELSE Says("complete", << >>, l + 1, 0)
       /\ size # 0 /\ Len(data) < size =>
            c = Says("more", data, 0, size - Len(data))
       /\ size # 0 /\ ~(Len(data) < size) =>
            /\ BreakAt(f, l + 2 + size) = "wrong" => c = Failed(data)
            /\ BreakAt(f, l + 2 + size) = "unknown" => c = More(data)
            /\ BreakAt(f, l + 2 + size) = "there" =>
                 c = Then(data, next[l + 2 + size + 2])

LEMMA ChunkIs ==
  ASSUME NEW f \in Seq(Byte), NEW at \in 1 .. Len(f) + 1
  PROVE  \E l \in Nat \ {0}, size \in Nat : \E data :
           /\ l = LineEnd(f, at) /\ at <= l /\ l <= Len(f) + 1
           /\ size = Number(SizeDigits(f, at))
           /\ l + 1 <= Len(f) =>
                /\ data \in Seq(Byte)
                /\ l + 1 + size <= Len(f) =>
                     data = SubSeq(f, l + 2, l + 1 + size) /\ Len(data) = size
                /\ Len(f) < l + 1 + size =>
                     data = SubSeq(f, l + 2, Len(f)) /\ Len(data) = Len(f) - (l + 1)
           /\ \A trailers, next :
                Outcome(f, BadSize(f, at), l, size, data, trailers, next,
                        Chunk(f, at, trailers, next))
  <1>. DEFINE l == LineEnd(f, at)
              size == Number(SizeDigits(f, at))
              data == SubSeq(f, l + 2, Min({(l + 2 + size) - 1, Len(f)}))
              bad == BadSize(f, at)
  <1>1. DigitsEnd(f, at) \in at .. Len(f) + 1 /\ l \in DigitsEnd(f, at) .. Len(f) + 1
        /\ size \in Nat /\ Len(f) \in Nat
    BY ChunkParts
  <1>2. ASSUME NEW trailers, NEW next
        PROVE  Outcome(f, bad, l, size, data, trailers, next, Chunk(f, at, trailers, next))
    <2>. DEFINE after == l + 2 + size
                b1 == BreakAt(f, l)
                b2 == BreakAt(f, after)
                stop == IF trailers THEN Trailers(f, l + 2)
                        ELSE Says("complete", << >>, l + 1, 0)
                short == Says("more", data, 0, size - Len(data))
                rest == Then(data, next[after + 2])
                less == Len(data) < size
                c == Chunk(f, at, trailers, next)
    <2>1. c = IF bad \/ b1 = "wrong" THEN Failed(<< >>)
              ELSE IF b1 = "unknown" THEN More(<< >>)
              ELSE IF size = 0 THEN stop
              ELSE IF less THEN short
              ELSE CASE b2 = "wrong"   -> Failed(data)
                     [] b2 = "unknown" -> More(data)
                     [] b2 = "there"   -> rest
      BY DEF Chunk
    <2>. HIDE DEF bad, b1, b2, stop, short, rest, less, c
    <2>2. /\ bad \/ b1 = "wrong" => c = Failed(<< >>)
          /\ ~bad /\ b1 = "unknown" => c = More(<< >>)
      BY <2>1
    <2>3. ASSUME ~bad, b1 = "there"
          PROVE  /\ size = 0 => c = stop
                 /\ size # 0 /\ less => c = short
                 /\ size # 0 /\ ~less =>
                      /\ b2 = "wrong" => c = Failed(data)
                      /\ b2 = "unknown" => c = More(data)
                      /\ b2 = "there" => c = rest
      <3>1. c = IF size = 0 THEN stop
                ELSE IF less THEN short
                ELSE CASE b2 = "wrong"   -> Failed(data)
                       [] b2 = "unknown" -> More(data)
                       [] b2 = "there"   -> rest
        BY <2>1, <2>3
      <3>. QED
        BY <3>1
    <2>4. Outcome(f, bad, l, size, data, trailers, next, c)
      BY <2>2, <2>3 DEF Outcome, b1, b2, stop, short, rest, less
    <2>. QED
      BY <2>4 DEF c
  <1>3. l + 1 <= Len(f) =>
          /\ data \in Seq(Byte)
          /\ l + 1 + size <= Len(f) =>
               data = SubSeq(f, l + 2, l + 1 + size) /\ Len(data) = size
          /\ Len(f) < l + 1 + size =>
               data = SubSeq(f, l + 2, Len(f)) /\ Len(data) = Len(f) - (l + 1)
    <2>1. l \in Nat
      BY <1>1
    <2>. HIDE DEF l, size
    <2>. QED
      BY <1>1, <2>1, DataThere
  <1>4. l \in Nat \ {0} /\ at <= l /\ l <= Len(f) + 1
    BY <1>1
  <1>5. l = LineEnd(f, at) /\ size = Number(SizeDigits(f, at)) /\ size \in Nat
    BY <1>1
  <1>. HIDE DEF l, size, data, bad
  <1>. QED
    BY <1>2, <1>3, <1>4, <1>5 DEF bad

(***************************************************************************)
(* What a chunk says depends on what follows it only through what is said  *)
(* of a later index, and its body is bytes if that one's is.               *)
(***************************************************************************)
LEMMA ChunkLocal ==
  ASSUME NEW f \in Seq(Byte), NEW at \in 1 .. Len(f) + 1, NEW trailers,
         NEW g, NEW h, \A i \in at + 1 .. Len(f) + 1 : g[i] = h[i]
  PROVE  Chunk(f, at, trailers, g) = Chunk(f, at, trailers, h)
  <1>. DEFINE c == Chunk(f, at, trailers, g)
              d == Chunk(f, at, trailers, h)
              bad == BadSize(f, at)
  <1>parts. PICK l \in Nat \ {0}, size \in Nat : \E data :
          /\ at <= l
          /\ Outcome(f, bad, l, size, data, trailers, g, c)
          /\ Outcome(f, bad, l, size, data, trailers, h, d)
    BY ChunkIs
  <1>1. PICK data :
          /\ at <= l
          /\ Outcome(f, bad, l, size, data, trailers, g, c)
          /\ Outcome(f, bad, l, size, data, trailers, h, d)
    BY <1>parts
  <1>. DEFINE after == l + 2 + size
  <1>2. BreakAt(f, after) = "there" => g[after + 2] = h[after + 2]
    <2>1. after \in Nat \ {0} /\ Len(f) \in Nat
      OBVIOUS
    <2>2. BreakAt(f, after) = "there" => after < Len(f)
      BY <2>1, Breaks
    <2>3. after < Len(f) => after + 2 \in at + 1 .. Len(f) + 1
      BY <1>1, <2>1
    <2>. QED
      BY <2>2, <2>3
  <1>3. BreakAt(f, l) \in BreakKinds /\ BreakAt(f, after) \in BreakKinds
    BY BreakKind
  <1>. HIDE DEF c, d, bad
  <1>4. c = d
    <2>1. CASE bad \/ BreakAt(f, l) = "wrong"
      BY <1>1, <2>1 DEF Outcome
    <2>2. CASE ~bad /\ BreakAt(f, l) = "unknown"
      BY <1>1, <2>2 DEF Outcome
    <2>3. CASE ~bad /\ BreakAt(f, l) = "there"
      <3>1. CASE size = 0
        BY <1>1, <2>3, <3>1 DEF Outcome
      <3>2. CASE size # 0 /\ Len(data) < size
        BY <1>1, <2>3, <3>2 DEF Outcome
      <3>3. CASE size # 0 /\ ~(Len(data) < size)
        BY <1>1, <1>2, <1>3, <2>3, <3>3 DEF Outcome, BreakKinds
      <3>. QED
        BY <3>1, <3>2, <3>3
    <2>. QED
      BY <2>1, <2>2, <2>3, <1>3 DEF BreakKinds
  <1>. QED
    BY <1>4 DEF c, d

LEMMA TrailersBody ==
  ASSUME NEW f, NEW at
  PROVE  Trailers(f, at).body = << >>
  BY DEF Trailers, Says, More

LEMMA ChunkBody ==
  ASSUME NEW f \in Seq(Byte), NEW at \in 1 .. Len(f) + 1, NEW trailers,
         NEW g, \A i \in at + 1 .. Len(f) + 1 : g[i].body \in Seq(Byte)
  PROVE  Chunk(f, at, trailers, g).body \in Seq(Byte)
  <1>. DEFINE c == Chunk(f, at, trailers, g)
              bad == BadSize(f, at)
  <1>0. << >> \in Seq(Byte) /\ Len(f) \in Nat
    OBVIOUS
  <1>parts. PICK l \in Nat \ {0}, size \in Nat : \E data :
          /\ at <= l
          /\ l + 1 <= Len(f) => data \in Seq(Byte)
          /\ Outcome(f, bad, l, size, data, trailers, g, c)
    BY ChunkIs
  <1>1. PICK data :
          /\ at <= l
          /\ l + 1 <= Len(f) => data \in Seq(Byte)
          /\ Outcome(f, bad, l, size, data, trailers, g, c)
    BY <1>parts
  <1>. DEFINE after == l + 2 + size
              r == g[after + 2]
  <1>2. BreakAt(f, l) = "there" => data \in Seq(Byte)
    BY <1>0, <1>1, Breaks
  <1>3. BreakAt(f, after) = "there" => r.body \in Seq(Byte)
    <2>1. after \in Nat \ {0}
      OBVIOUS
    <2>2. BreakAt(f, after) = "there" => after < Len(f)
      BY <2>1, Breaks
    <2>3. after < Len(f) => after + 2 \in at + 1 .. Len(f) + 1
      BY <1>0, <1>1, <2>1
    <2>. QED
      BY <2>2, <2>3
  <1>4. BreakAt(f, l) \in BreakKinds /\ BreakAt(f, after) \in BreakKinds
    BY BreakKind
  <1>. HIDE DEF c, bad, after, r
  <1>5. c.body \in Seq(Byte)
    <2>1. CASE bad \/ BreakAt(f, l) = "wrong"
      <3>1. c = Failed(<< >>)
        BY <1>1, <2>1 DEF Outcome
      <3>. QED
        BY <3>1, <1>0 DEF Failed, Says
    <2>2. CASE ~bad /\ BreakAt(f, l) = "unknown"
      <3>1. c = More(<< >>)
        BY <1>1, <2>2 DEF Outcome
      <3>. QED
        BY <3>1, <1>0 DEF More, Says
    <2>3. CASE ~bad /\ BreakAt(f, l) = "there"
      <3>1. CASE size = 0
        <4>1. c = IF trailers THEN Trailers(f, l + 2)
                  ELSE Says("complete", << >>, l + 1, 0)
          BY <1>1, <2>3, <3>1 DEF Outcome
        <4>2. Says("complete", << >>, l + 1, 0).body = << >>
          BY DEF Says
        <4>3. c.body = << >>
          BY <4>1, <4>2, TrailersBody
        <4>. QED
          BY <4>3, <1>0
      <3>2. CASE size # 0 /\ Len(data) < size
        <4>1. c = Says("more", data, 0, size - Len(data))
          BY <1>1, <2>3, <3>2 DEF Outcome
        <4>. QED
          BY <4>1, <1>2, <2>3 DEF Says
      <3>3. CASE size # 0 /\ ~(Len(data) < size)
        <4>1. CASE BreakAt(f, after) = "wrong"
          <5>1. c = Failed(data)
            BY <1>1, <2>3, <3>3, <4>1 DEF Outcome, after
          <5>. QED
            BY <5>1, <1>2, <2>3 DEF Failed, Says
        <4>2. CASE BreakAt(f, after) = "unknown"
          <5>1. c = More(data)
            BY <1>1, <2>3, <3>3, <4>2 DEF Outcome, after
          <5>. QED
            BY <5>1, <1>2, <2>3 DEF More, Says
        <4>3. CASE BreakAt(f, after) = "there"
          <5>1. c = Then(data, r)
            BY <1>1, <2>3, <3>3, <4>3 DEF Outcome, after, r
          <5>2. c.body = data \o r.body
            BY <5>1 DEF Then, Says
          <5>3. data \o r.body \in Seq(Byte)
            BY <1>2, <1>3, <2>3, <4>3, ConcatProperties
          <5>. QED
            BY <5>2, <5>3
        <4>. QED
          BY <4>1, <4>2, <4>3, <1>4 DEF BreakKinds
      <3>. QED
        BY <3>1, <3>2, <3>3
    <2>. QED
      BY <2>1, <2>2, <2>3, <1>4 DEF BreakKinds
  <1>. QED
    BY <1>5 DEF c

-----------------------------------------------------------------------------
(***************************************************************************)
(* The recursion of Reading is well founded, from the end of the bytes:    *)
(* there is a function that satisfies it, from any index on.               *)
(***************************************************************************)
ReadsFrom(g, f, trailers, from) ==
  g = [at \in from .. Len(f) + 1 |-> Chunk(f, at, trailers, g)]

LEMMA ReadingExists ==
  ASSUME NEW f \in Seq(Byte), NEW trailers
  PROVE  \E g : ReadsFrom(g, f, trailers, 1)
  <1>. DEFINE From(m) == Len(f) + 2 - m
              Bad == {m \in 0 .. Len(f) + 1 : ~ \E g : ReadsFrom(g, f, trailers, From(m))}
  <1>1. Len(f) \in Nat
    OBVIOUS
  <1>2. Bad = {}
    <2>. SUFFICES ASSUME Bad # {} PROVE FALSE
      OBVIOUS
    <2>1. Bad \subseteq Nat
      BY <1>1
    <2>2. PICK m \in Bad : \A j \in Bad : m <= j
      BY <2>1, Least
    <2>3. CASE m = 0
      <3>. DEFINE g == [at \in From(m) .. Len(f) + 1 |-> 0]
      <3>1. From(m) .. Len(f) + 1 = {}
        BY <1>1, <2>3
      <3>2. g = [at \in From(m) .. Len(f) + 1 |-> Chunk(f, at, trailers, g)]
        BY <3>1
      <3>3. ReadsFrom(g, f, trailers, From(m))
        BY <3>2 DEF ReadsFrom
      <3>. QED
        BY <2>2, <3>3
    <2>4. CASE m # 0
      <3>. DEFINE k == From(m)
      <3>1. /\ m - 1 \in 0 .. Len(f) + 1 /\ m - 1 \notin Bad
            /\ From(m - 1) = k + 1 /\ k \in 1 .. Len(f) + 1
        BY <1>1, <2>2, <2>4
      <3>2. PICK g : ReadsFrom(g, f, trailers, From(m - 1))
        BY <3>1
      <3>. HIDE DEF k, From
      <3>3. g = [at \in k + 1 .. Len(f) + 1 |-> Chunk(f, at, trailers, g)]
        BY <3>1, <3>2 DEF ReadsFrom
      <3>. DEFINE first == Chunk(f, k, trailers, g)
                  h == [at \in k .. Len(f) + 1 |-> IF at = k THEN first ELSE g[at]]
      <3>. HIDE DEF first
      <3>4. \A i \in k + 1 .. Len(f) + 1 : g[i] = h[i]
        BY <1>1, <3>1
      <3>5. ASSUME NEW at \in k .. Len(f) + 1
            PROVE  h[at] = Chunk(f, at, trailers, h)
        <4>1. at \in 1 .. Len(f) + 1
          BY <1>1, <3>1
        <4>2. \A i \in at + 1 .. Len(f) + 1 : g[i] = h[i]
          <5>1. \A i \in at + 1 .. Len(f) + 1 : i \in k + 1 .. Len(f) + 1
            BY <1>1, <3>1
          <5>. QED
            BY <3>4, <5>1
        <4>. HIDE DEF h
        <4>3. Chunk(f, at, trailers, g) = Chunk(f, at, trailers, h)
          BY <4>1, <4>2, ChunkLocal
        <4>4. h[at] = Chunk(f, at, trailers, g)
          <5>1. CASE at = k
            BY <5>1 DEF h, first
          <5>2. CASE at # k
            <6>1. at \in k + 1 .. Len(f) + 1
              BY <1>1, <3>1, <5>2
            <6>2. g[at] = Chunk(f, at, trailers, g)
              BY <3>3, <6>1
            <6>. QED
              BY <6>1, <6>2, <3>4
          <5>. QED
            BY <5>1, <5>2
        <4>. QED
          BY <4>3, <4>4
      <3>6. h = [at \in k .. Len(f) + 1 |-> h[at]]
        OBVIOUS
      <3>. HIDE DEF h
      <3>7. h = [at \in k .. Len(f) + 1 |-> Chunk(f, at, trailers, h)]
        BY <3>5, <3>6
      <3>8. ReadsFrom(h, f, trailers, k)
        BY <3>7 DEF ReadsFrom
      <3>. QED
        BY <2>2, <3>8 DEF k
    <2>. QED
      BY <2>3, <2>4
  <1>3. Len(f) + 1 \in 0 .. Len(f) + 1 /\ From(Len(f) + 1) = 1
    BY <1>1
  <1>. QED
    BY <1>2, <1>3

(* Each index says what its chunk says. *)
LEMMA ReadingUnfolds ==
  ASSUME NEW f \in Seq(Byte), NEW trailers, NEW at \in 1 .. Len(f) + 1
  PROVE  Reading(f, trailers)[at] = Chunk(f, at, trailers, Reading(f, trailers))
  <1>. DEFINE R == CHOOSE g : ReadsFrom(g, f, trailers, 1)
  <1>1. Reading(f, trailers) = R
    BY DEF Reading, ReadsFrom
  <1>2. ReadsFrom(R, f, trailers, 1)
    BY ReadingExists
  <1>. HIDE DEF R
  <1>3. R[at] = Chunk(f, at, trailers, R)
    BY <1>2 DEF ReadsFrom
  <1>. QED
    BY <1>1, <1>3

LEMMA ReadingBody ==
  ASSUME NEW f \in Seq(Byte), NEW trailers, NEW at \in 1 .. Len(f) + 1
  PROVE  Reading(f, trailers)[at].body \in Seq(Byte)
  <1>. DEFINE R == Reading(f, trailers)
              From(m) == Len(f) + 1 - m
              Bad == {m \in 0 .. Len(f) : R[From(m)].body \notin Seq(Byte)}
  <1>1. Len(f) \in Nat
    OBVIOUS
  <1>2. Bad = {}
    <2>. SUFFICES ASSUME Bad # {} PROVE FALSE
      OBVIOUS
    <2>1. Bad \subseteq Nat
      BY <1>1
    <2>2. PICK m \in Bad : \A j \in Bad : m <= j
      BY <2>1, Least
    <2>. DEFINE k == From(m)
    <2>3. k \in 1 .. Len(f) + 1 /\ m \in 0 .. Len(f) /\ m + k = Len(f) + 1
      BY <1>1, <2>2
    <2>4. ASSUME NEW i \in k + 1 .. Len(f) + 1
          PROVE  R[i].body \in Seq(Byte)
      <3>. DEFINE j == Len(f) + 1 - i
      <3>1. j \in 0 .. Len(f) /\ j < m /\ From(j) = i
        BY <1>1, <2>3
      <3>2. j \notin Bad
        BY <2>2, <3>1
      <3>. HIDE DEF R, j, From
      <3>. QED
        BY <3>1, <3>2
    <2>. HIDE DEF R, k
    <2>5. Chunk(f, k, trailers, R).body \in Seq(Byte)
      BY <2>3, <2>4, ChunkBody
    <2>6. R[k] = Chunk(f, k, trailers, R)
      BY <2>3, ReadingUnfolds DEF R
    <2>. QED
      BY <2>2, <2>5, <2>6 DEF k
  <1>3. Len(f) + 1 - at \in 0 .. Len(f) /\ From(Len(f) + 1 - at) = at
    BY <1>1
  <1>. HIDE DEF R, From
  <1>4. R[at].body \in Seq(Byte)
    BY <1>2, <1>3
  <1>. QED
    BY <1>4 DEF R

-----------------------------------------------------------------------------
(***************************************************************************)
(* What a chunk says, read off the bytes: the line is not all there, or    *)
(* wrong; it is there, and the data is not, or is, with its line break.    *)
(***************************************************************************)
AllDigits(f, at, to) == \A i \in at .. to : f[i] \in HexDigits
Unbroken(f, at, to)  == \A i \in at .. to : f[i] \notin {CR, LF}

(* From at to e - 1 the digits of a size, at e the byte that ends them. *)
Sized(f, at, e) ==
  /\ at < e /\ e - at <= HexMax
  /\ AllDigits(f, at, e - 1) /\ f[e] \in SizeTerminators

Value(f, at, e) == Number(SubSeq(f, at, e - 1))

LEMMA TerminatorIsNoDigit == SizeTerminators \cap HexDigits = {}
  BY DEF SizeTerminators, HexDigits, SP, HT, SEMI, LF, CR

LEMMA DigitsEndIs ==
  ASSUME NEW f \in Seq(Byte), NEW at \in 1 .. Len(f) + 1,
         NEW e \in at .. Len(f) + 1, AllDigits(f, at, e - 1),
         e <= Len(f) => f[e] \notin HexDigits
  PROVE  /\ DigitsEnd(f, at) = e
         /\ SizeDigits(f, at) = SubSeq(f, at, e - 1)
         /\ Len(SizeDigits(f, at)) = e - at
  <1>1. Len(f) \in Nat /\ at \in Nat \ {0} /\ e \in Nat
    OBVIOUS
  <1>2. \A i \in at .. e - 1 : f[i] \notin Byte \ HexDigits
    BY DEF AllDigits
  <1>3. e <= Len(f) => f[e] \in Byte \ HexDigits
    <2>1. e <= Len(f) => e \in 1 .. Len(f)
      BY <1>1
    <2>. QED
      BY <2>1
  <1>4. DigitsEnd(f, at) = e
    BY <1>1, <1>2, <1>3, FirstIs DEF DigitsEnd
  <1>. QED
    BY <1>4, ChunkParts DEF SizeDigits

(* The digits go on to the end of the bytes. *)
LEMMA DigitsOpen ==
  ASSUME NEW f \in Seq(Byte), NEW at \in 1 .. Len(f) + 1, NEW t, NEW next,
         AllDigits(f, at, Len(f)), Len(f) + 1 - at <= HexMax
  PROVE  Chunk(f, at, t, next) = More(<< >>)
  <1>1. Len(f) \in Nat /\ HexMax \in Nat
    BY SizeAssumption
  <1>2. /\ DigitsEnd(f, at) = Len(f) + 1
        /\ Len(SizeDigits(f, at)) = Len(f) + 1 - at
    BY <1>1, DigitsEndIs
  <1>3. ~BadSize(f, at)
    BY <1>1, <1>2 DEF BadSize
  <1>4. LineEnd(f, at) = Len(f) + 1
    BY <1>1, <1>2, ChunkParts
  <1>5. BreakAt(f, Len(f) + 1) = "unknown"
    BY <1>1, Breaks
  <1>. QED
    BY <1>3, <1>4, <1>5, ChunkIs DEF Outcome

LEMMA BadSizeFails ==
  ASSUME NEW f \in Seq(Byte), NEW at \in 1 .. Len(f) + 1, NEW t, NEW next,
         BadSize(f, at)
  PROVE  Chunk(f, at, t, next) = Failed(<< >>)
  BY ChunkIs DEF Outcome

(* One digit too many. *)
LEMMA DigitsTooMany ==
  ASSUME NEW f \in Seq(Byte), NEW at \in 1 .. Len(f) + 1, NEW t, NEW next,
         at + HexMax <= Len(f), AllDigits(f, at, at + HexMax)
  PROVE  Chunk(f, at, t, next) = Failed(<< >>)
  <1>0. HexMax \in Nat
    BY SizeAssumption
  <1>1. Len(f) \in Nat /\ HexMax \in Nat /\ at \in Nat \ {0} /\ at <= Len(f) + 1
    BY <1>0
  <1>. DEFINE d == DigitsEnd(f, at)
  <1>2. d \in at .. Len(f) + 1 /\ (d <= Len(f) => f[d] \in Byte \ HexDigits)
    BY <1>1, FirstThere DEF DigitsEnd
  <1>. HIDE DEF d
  <1>3. d > at + HexMax
    BY <1>1, <1>2 DEF AllDigits
  <1>4. Len(SizeDigits(f, at)) > HexMax
    BY <1>1, <1>2, <1>3, ChunkParts DEF d
  <1>. QED
    BY <1>4, BadSizeFails DEF BadSize

(* No digit, or a byte that may not follow one. *)
LEMMA SizeEndsBadly ==
  ASSUME NEW f \in Seq(Byte), NEW at \in 1 .. Len(f), NEW t, NEW next,
         NEW e \in at .. Len(f), AllDigits(f, at, e - 1), f[e] \notin HexDigits,
         e = at \/ f[e] \notin SizeTerminators
  PROVE  Chunk(f, at, t, next) = Failed(<< >>)
  <1>1. Len(f) \in Nat /\ at \in 1 .. Len(f) + 1 /\ e \in at .. Len(f) + 1
        /\ at \in Nat /\ e \in Nat /\ e <= Len(f)
    OBVIOUS
  <1>2. /\ DigitsEnd(f, at) = e
        /\ SizeDigits(f, at) = SubSeq(f, at, e - 1)
    BY <1>1, DigitsEndIs
  <1>3. e = at => SizeDigits(f, at) = << >>
    BY <1>1, <1>2, SubSeqEmpty
  <1>4. BadSize(f, at)
    BY <1>1, <1>2, <1>3 DEF BadSize
  <1>. QED
    BY <1>1, <1>4, BadSizeFails

LEMMA SizedIsGood ==
  ASSUME NEW f \in Seq(Byte), NEW at \in 1 .. Len(f), NEW e \in 1 .. Len(f),
         Sized(f, at, e)
  PROVE  /\ at \in 1 .. Len(f) + 1
         /\ ~BadSize(f, at) /\ DigitsEnd(f, at) = e
         /\ Number(SizeDigits(f, at)) = Value(f, at, e)
         /\ Value(f, at, e) \in Nat
  <1>1. Len(f) \in Nat /\ at \in 1 .. Len(f) + 1 /\ e \in at .. Len(f) + 1
        /\ at \in Nat /\ e \in Nat /\ e <= Len(f) /\ HexMax \in Nat
    BY SizeAssumption DEF Sized
  <1>2. f[e] \notin HexDigits
    BY TerminatorIsNoDigit DEF Sized
  <1>3. /\ DigitsEnd(f, at) = e
        /\ SizeDigits(f, at) = SubSeq(f, at, e - 1)
        /\ Len(SizeDigits(f, at)) = e - at
    BY <1>1, <1>2, DigitsEndIs DEF Sized
  <1>4. SizeDigits(f, at) # << >>
    BY <1>1, <1>3 DEF Sized
  <1>5. ~BadSize(f, at)
    BY <1>1, <1>3, <1>4 DEF BadSize, Sized
  <1>. QED
    BY <1>1, <1>3, <1>5, ChunkParts DEF Value

(* The rest of the line has no break yet. *)
LEMMA LineOpen ==
  ASSUME NEW f \in Seq(Byte), NEW at \in 1 .. Len(f), NEW e \in 1 .. Len(f),
         NEW t, NEW next, Sized(f, at, e), Unbroken(f, e, Len(f))
  PROVE  Chunk(f, at, t, next) = More(<< >>)
  <1>1. Len(f) \in Nat
    OBVIOUS
  <1>2. LineEnd(f, at) = Len(f) + 1
    <2>1. e \in Nat \ {0} /\ Len(f) + 1 \in e .. Len(f) + 1
      BY <1>1
    <2>2. \A i \in e .. (Len(f) + 1) - 1 : f[i] \notin {CR, LF}
      BY <1>1, <2>1 DEF Unbroken
    <2>3. ~(Len(f) + 1 <= Len(f))
      BY <1>1
    <2>4. First(f, e, {CR, LF}) = Len(f) + 1
      BY <2>1, <2>2, <2>3, FirstIs
    <2>. QED
      BY <2>4, SizedIsGood DEF LineEnd
  <1>3. BreakAt(f, Len(f) + 1) = "unknown"
    BY <1>1, Breaks
  <1>. QED
    BY <1>2, <1>3, SizedIsGood, ChunkIs DEF Outcome

(* The line has a break, or what would be one. *)
LEMMA LineBreaks ==
  ASSUME NEW f \in Seq(Byte), NEW at \in 1 .. Len(f), NEW e \in 1 .. Len(f),
         Sized(f, at, e), NEW l \in e .. Len(f), Unbroken(f, e, l - 1),
         f[l] \in {CR, LF}
  PROVE  LineEnd(f, at) = l
  <1>1. e \in Nat \ {0} /\ l \in e .. Len(f) + 1 /\ Len(f) \in Nat
    OBVIOUS
  <1>2. First(f, e, {CR, LF}) = l
    BY <1>1, FirstIs DEF Unbroken
  <1>. QED
    BY <1>2, SizedIsGood DEF LineEnd

LEMMA LineUndecided ==
  ASSUME NEW f \in Seq(Byte), NEW at \in 1 .. Len(f), NEW e \in 1 .. Len(f),
         NEW t, NEW next, Sized(f, at, e), e <= Len(f),
         Unbroken(f, e, Len(f) - 1), f[Len(f)] = CR
  PROVE  Chunk(f, at, t, next) = More(<< >>)
  <1>1. Len(f) \in Nat \ {0} /\ Len(f) \in e .. Len(f)
    OBVIOUS
  <1>2. LineEnd(f, at) = Len(f)
    BY <1>1, LineBreaks
  <1>3. BreakAt(f, Len(f)) = "unknown"
    BY <1>1, Breaks
  <1>. QED
    BY <1>2, <1>3, SizedIsGood, ChunkIs DEF Outcome

LEMMA LineFails ==
  ASSUME NEW f \in Seq(Byte), NEW at \in 1 .. Len(f), NEW e \in 1 .. Len(f),
         NEW t, NEW next, Sized(f, at, e), NEW l \in e .. Len(f),
         Unbroken(f, e, l - 1),
         f[l] = LF \/ (f[l] = CR /\ l < Len(f) /\ f[l + 1] # LF)
  PROVE  Chunk(f, at, t, next) = Failed(<< >>)
  <1>1. Len(f) \in Nat \ {0} /\ l \in Nat \ {0} /\ l <= Len(f)
    OBVIOUS
  <1>2. LineEnd(f, at) = l
    BY LineBreaks
  <1>3. BreakAt(f, l) = "wrong"
    <2>1. LF # CR
      BY DEF LF, CR
    <2>. QED
      BY <1>1, <2>1, Breaks
  <1>. QED
    BY <1>2, <1>3, SizedIsGood, ChunkIs DEF Outcome

(* A whole line, with its break at l. *)
Opened(f, at, e, l) ==
  /\ Sized(f, at, e) /\ e <= l /\ Unbroken(f, e, l - 1)
  /\ f[l] = CR /\ f[l + 1] = LF

LEMMA OpenedIs ==
  ASSUME NEW f \in Seq(Byte), NEW at \in 1 .. Len(f), NEW e \in 1 .. Len(f),
         NEW t, NEW next, NEW l \in 1 .. Len(f) - 1, Opened(f, at, e, l)
  PROVE  LET size == Value(f, at, e)
             data == SubSeq(f, l + 2, l + 1 + size)
             c    == Chunk(f, at, t, next)
         IN /\ size \in Nat
            /\ size = 0 => c = IF t THEN Trailers(f, l + 2)
                               ELSE Says("complete", << >>, l + 1, 0)
            /\ size # 0 /\ Len(f) < l + 1 + size =>
                 c = Says("more", SubSeq(f, l + 2, Len(f)), 0,
                          size - (Len(f) - (l + 1)))
            /\ size # 0 /\ l + 1 + size <= Len(f) =>
                 /\ BreakAt(f, l + 2 + size) = "wrong" => c = Failed(data)
                 /\ BreakAt(f, l + 2 + size) = "unknown" => c = More(data)
                 /\ BreakAt(f, l + 2 + size) = "there" =>
                      c = Then(data, next[l + 2 + size + 2])
  <1>. DEFINE z == Value(f, at, e)
              c == Chunk(f, at, t, next)
              bad == BadSize(f, at)
  <1>1. Len(f) \in Nat \ {0} /\ l \in Nat \ {0} /\ l < Len(f) /\ l \in e .. Len(f)
    BY DEF Opened
  <1>2. LineEnd(f, at) = l
    BY <1>1, LineBreaks DEF Opened
  <1>3. BreakAt(f, l) = "there"
    BY <1>1, Breaks DEF Opened
  <1>4. /\ ~bad /\ at \in 1 .. Len(f) + 1
        /\ Number(SizeDigits(f, at)) = z /\ z \in Nat
    BY SizedIsGood DEF Opened
  <1>5. PICK data :
          /\ l + 1 <= Len(f) =>
               /\ l + 1 + z <= Len(f) =>
                    data = SubSeq(f, l + 2, l + 1 + z) /\ Len(data) = z
               /\ Len(f) < l + 1 + z =>
                    data = SubSeq(f, l + 2, Len(f)) /\ Len(data) = Len(f) - (l + 1)
          /\ Outcome(f, bad, l, z, data, t, next, c)
    <2>parts. PICK k \in Nat \ {0}, size \in Nat : \E data :
            /\ k = LineEnd(f, at) /\ size = Number(SizeDigits(f, at))
            /\ k + 1 <= Len(f) =>
                 /\ data \in Seq(Byte)
                 /\ k + 1 + size <= Len(f) =>
                      data = SubSeq(f, k + 2, k + 1 + size) /\ Len(data) = size
                 /\ Len(f) < k + 1 + size =>
                      data = SubSeq(f, k + 2, Len(f)) /\ Len(data) = Len(f) - (k + 1)
            /\ Outcome(f, bad, k, size, data, t, next, c)
      BY <1>4, ChunkIs
    <2>1. PICK data :
            /\ k = LineEnd(f, at) /\ size = Number(SizeDigits(f, at))
            /\ k + 1 <= Len(f) =>
                 /\ data \in Seq(Byte)
                 /\ k + 1 + size <= Len(f) =>
                      data = SubSeq(f, k + 2, k + 1 + size) /\ Len(data) = size
                 /\ Len(f) < k + 1 + size =>
                      data = SubSeq(f, k + 2, Len(f)) /\ Len(data) = Len(f) - (k + 1)
            /\ Outcome(f, bad, k, size, data, t, next, c)
      BY <2>parts
    <2>2. k = l /\ size = z
      BY <1>2, <1>4, <2>1
    <2>. HIDE DEF z, c, bad
    <2>. QED
      BY <2>1, <2>2
  <1>. HIDE DEF z, c, bad
  <1>6. l + 1 <= Len(f)
    BY <1>1
  <1>7. z = 0 => c = IF t THEN Trailers(f, l + 2)
                     ELSE Says("complete", << >>, l + 1, 0)
    BY <1>3, <1>4, <1>5 DEF Outcome
  <1>8. ASSUME z # 0, Len(f) < l + 1 + z
        PROVE  c = Says("more", SubSeq(f, l + 2, Len(f)), 0, z - (Len(f) - (l + 1)))
    <2>1. /\ data = SubSeq(f, l + 2, Len(f)) /\ Len(data) = Len(f) - (l + 1)
          /\ Len(data) < z
      BY <1>1, <1>4, <1>5, <1>6, <1>8
    <2>2. c = Says("more", data, 0, z - Len(data))
      BY <2>1, <1>3, <1>4, <1>5, <1>8 DEF Outcome
    <2>. QED
      BY <2>1, <2>2
  <1>9. ASSUME z # 0, l + 1 + z <= Len(f)
        PROVE  LET d == SubSeq(f, l + 2, l + 1 + z) IN
               /\ BreakAt(f, l + 2 + z) = "wrong" => c = Failed(d)
               /\ BreakAt(f, l + 2 + z) = "unknown" => c = More(d)
               /\ BreakAt(f, l + 2 + z) = "there" => c = Then(d, next[l + 2 + z + 2])
    <2>1. data = SubSeq(f, l + 2, l + 1 + z) /\ ~(Len(data) < z)
      BY <1>4, <1>5, <1>6, <1>9
    <2>2. /\ BreakAt(f, l + 2 + z) = "wrong" => c = Failed(data)
          /\ BreakAt(f, l + 2 + z) = "unknown" => c = More(data)
          /\ BreakAt(f, l + 2 + z) = "there" => c = Then(data, next[l + 2 + z + 2])
      BY <2>1, <1>3, <1>4, <1>5, <1>9 DEF Outcome
    <2>. QED
      BY <2>1, <2>2
  <1>. QED
    BY <1>4, <1>7, <1>8, <1>9 DEF z, c

-----------------------------------------------------------------------------
(***************************************************************************)
(* The trailer lines: their end is not there yet, or is at e.              *)
(***************************************************************************)
LEMMA TrailersOpen ==
  ASSUME NEW f \in Seq(Byte), NEW at \in Nat \ {0},
         \A i \in at .. Len(f) : ~EndsTrailers(f, at, i)
  PROVE  Trailers(f, at) = More(<< >>)
  <1>1. {e \in at .. Len(f) : EndsTrailers(f, at, e)} = {}
    OBVIOUS
  <1>. QED
    BY <1>1 DEF Trailers

LEMMA TrailersEnd ==
  ASSUME NEW f \in Seq(Byte), NEW at \in Nat \ {0}, NEW e \in at .. Len(f),
         EndsTrailers(f, at, e), \A i \in at .. e - 1 : ~EndsTrailers(f, at, i)
  PROVE  Trailers(f, at) = Says("complete", << >>, e, 0)
  <1>. DEFINE ends == {i \in at .. Len(f) : EndsTrailers(f, at, i)}
  <1>1. Len(f) \in Nat
    OBVIOUS
  <1>2. ends \in SUBSET Nat /\ e \in ends
    BY <1>1
  <1>3. \A y \in ends : e <= y
    BY <1>1
  <1>4. Min(ends) = e
    BY <1>2, <1>3, MinIs
  <1>. QED
    BY <1>2, <1>4 DEF Trailers

-----------------------------------------------------------------------------
(***************************************************************************)
(* The first n bytes of a stream.                                          *)
(***************************************************************************)
Pre(s, n) == SubSeq(s, 1, n)

LEMMA PreIs ==
  ASSUME NEW s \in Seq(Byte), NEW n \in 0 .. Len(s)
  PROVE  /\ Pre(s, n) \in Seq(Byte) /\ Len(Pre(s, n)) = n
         /\ \A i \in 1 .. n : Pre(s, n)[i] = s[i]
  BY DEF Pre

LEMMA PreSlice ==
  ASSUME NEW s \in Seq(Byte), NEW n \in 0 .. Len(s), NEW a \in Nat \ {0}, NEW b \in Int,
         b <= n
  PROVE  SubSeq(Pre(s, n), a, b) = SubSeq(s, a, b)
  <1>. DEFINE p == Pre(s, n)
  <1>1. p \in Seq(Byte) /\ Len(p) = n /\ n \in Nat /\ Len(s) \in Nat
        /\ \A i \in 1 .. n : p[i] = s[i] /\ s[i] \in Byte
    BY PreIs
  <1>. HIDE DEF p
  <1>2. CASE b < a
    BY <1>2, SubSeqEmpty DEF p
  <1>3. CASE a <= b
    <2>1. \A i \in a .. b : p[i] \in Byte /\ s[i] \in Byte
      BY <1>1
    <2>2. /\ SubSeq(p, a, b) \in Seq(Byte) /\ Len(SubSeq(p, a, b)) = b - a + 1
          /\ \A i \in 1 .. b - a + 1 : SubSeq(p, a, b)[i] = p[a + i - 1]
      BY <1>3, <2>1, SubSeqProperties
    <2>3. /\ SubSeq(s, a, b) \in Seq(Byte) /\ Len(SubSeq(s, a, b)) = b - a + 1
          /\ \A i \in 1 .. b - a + 1 : SubSeq(s, a, b)[i] = s[a + i - 1]
      BY <1>3, <2>1, SubSeqProperties
    <2>4. \A i \in 1 .. b - a + 1 : a + i - 1 \in 1 .. n
      BY <1>1, <1>3
    <2>5. \A i \in 1 .. Len(SubSeq(p, a, b)) : SubSeq(p, a, b)[i] = SubSeq(s, a, b)[i]
      BY <1>1, <2>2, <2>3, <2>4
    <2>. HIDE DEF p
    <2>6. SubSeq(p, a, b) = SubSeq(s, a, b)
      BY <2>2, <2>3, <2>5, SeqEqual
    <2>. QED
      BY <2>6 DEF p
  <1>. QED
    BY <1>1, <1>2, <1>3

(* What is known of the first bytes of a stream is known of the stream's.  *)
LEMMA PreKeeps ==
  ASSUME NEW s \in Seq(Byte), NEW n \in 0 .. Len(s), NEW at \in Nat \ {0}
  PROVE  /\ \A to \in Int : to <= n /\ AllDigits(s, at, to) => AllDigits(Pre(s, n), at, to)
         /\ \A to \in Int : to <= n /\ Unbroken(s, at, to) => Unbroken(Pre(s, n), at, to)
         /\ \A e \in Nat : e <= n /\ Sized(s, at, e) =>
              Sized(Pre(s, n), at, e) /\ Value(Pre(s, n), at, e) = Value(s, at, e)
         /\ \A e, l \in Nat : l < n /\ Opened(s, at, e, l) =>
              /\ Opened(Pre(s, n), at, e, l) /\ Sized(s, at, e)
              /\ Value(Pre(s, n), at, e) = Value(s, at, e)
         /\ \A e \in Nat : e <= n =>
              (EndsTrailers(Pre(s, n), at, e) <=> EndsTrailers(s, at, e))
  <1>. DEFINE p == Pre(s, n)
  <1>1. Len(s) \in Nat /\ n \in Nat /\ \A i \in 1 .. n : p[i] = s[i]
    BY PreIs
  <1>2. \A b \in Int : b <= n => SubSeq(p, at, b) = SubSeq(s, at, b)
    BY PreSlice
  <1>. HIDE DEF p
  <1>3. ASSUME NEW to \in Int, to <= n
        PROVE  \A i \in at .. to : p[i] = s[i]
    <2>1. \A i \in at .. to : i \in 1 .. n
      BY <1>1, <1>3
    <2>. QED
      BY <1>1, <2>1
  <1>4. ASSUME NEW to \in Int, to <= n, AllDigits(s, at, to)
        PROVE  AllDigits(p, at, to)
    BY <1>3, <1>4 DEF AllDigits
  <1>5. ASSUME NEW b \in Nat \ {0}, NEW to \in Int, to <= n, Unbroken(s, b, to)
        PROVE  Unbroken(p, b, to)
    <2>1. \A i \in b .. to : i \in 1 .. n
      BY <1>1, <1>5
    <2>. QED
      BY <1>1, <1>5, <2>1 DEF Unbroken
  <1>6. ASSUME NEW e \in Nat, e <= n, Sized(s, at, e)
        PROVE  Sized(p, at, e) /\ Value(p, at, e) = Value(s, at, e)
    <2>1. e \in 1 .. n /\ e - 1 \in Int /\ e - 1 <= n
      BY <1>1, <1>6 DEF Sized
    <2>2. p[e] = s[e] /\ AllDigits(p, at, e - 1)
      BY <1>1, <1>4, <1>6, <2>1 DEF Sized
    <2>3. SubSeq(p, at, e - 1) = SubSeq(s, at, e - 1)
      BY <1>2, <2>1
    <2>. QED
      BY <1>6, <2>2, <2>3 DEF Sized, Value
  <1>7. ASSUME NEW e \in Nat, NEW l \in Nat, l < n, Opened(s, at, e, l)
        PROVE  /\ Opened(p, at, e, l) /\ Sized(s, at, e)
               /\ Value(p, at, e) = Value(s, at, e)
    <2>1. Sized(s, at, e) /\ at < e /\ e <= l /\ Unbroken(s, e, l - 1)
      BY <1>7 DEF Opened, Sized
    <2>2. l \in 1 .. n /\ l + 1 \in 1 .. n /\ e <= n /\ l - 1 \in Int /\ l - 1 <= n
          /\ e \in Nat \ {0}
      BY <1>1, <1>7, <2>1
    <2>3. Unbroken(p, e, l - 1)
      BY <1>5, <2>1, <2>2
    <2>4. p[l] = s[l] /\ p[l + 1] = s[l + 1]
      BY <1>1, <2>2
    <2>5. Sized(p, at, e) /\ Value(p, at, e) = Value(s, at, e)
      BY <1>6, <2>1, <2>2
    <2>. QED
      BY <1>7, <2>1, <2>3, <2>4, <2>5 DEF Opened
  <1>8. ASSUME NEW e \in Nat, e <= n
        PROVE  EndsTrailers(p, at, e) <=> EndsTrailers(s, at, e)
    <2>1. CASE e < at
      <3>1. \A b \in at .. e : FALSE
        BY <2>1
      <3>. QED
        BY <3>1 DEF EndsTrailers
    <2>2. CASE at <= e
      <3>1. p[e] = s[e]
        BY <1>3, <1>8, <2>2
      <3>2. ASSUME NEW b \in at .. e
            PROVE  /\ b # at => p[b - 1] = s[b - 1]
                   /\ \A i \in b .. e - 1 : p[i] = s[i]
        <4>1. b # at => b - 1 \in 1 .. n
          BY <1>1, <1>8
        <4>2. \A i \in b .. e - 1 : i \in 1 .. n
          BY <1>1, <1>8
        <4>. QED
          BY <1>1, <4>1, <4>2
      <3>. QED
        BY <3>1, <3>2 DEF EndsTrailers
    <2>. QED
      BY <2>1, <2>2
  <1>. QED
    BY <1>4, <1>5, <1>6, <1>7, <1>8 DEF p

(* What is said of a piece and what follows. *)
LEMMA ThenSays ==
  ASSUME NEW got, NEW v, NEW d, NEW e, NEW o
  PROVE  Then(got, Says(v, d, e, o)) = Says(v, got \o d, e, o)
  BY DEF Then, Says

LEMMA ThenThen ==
  ASSUME NEW got \in Seq(Byte), NEW d \in Seq(Byte), NEW r, r.body \in Seq(Byte)
  PROVE  Then(got, Then(d, r)) = Then(got \o d, r)
  <1>. DEFINE b == r.body
  <1>1. Then(got, Then(d, r)) = Says(r.verdict, got \o (d \o b), r.end, r.owed)
    BY DEF Then, Says
  <1>2. Then(got \o d, r) = Says(r.verdict, (got \o d) \o b, r.end, r.owed)
    BY DEF Then
  <1>3. b \in Seq(Byte)
    OBVIOUS
  <1>. HIDE DEF b
  <1>4. got \o (d \o b) = (got \o d) \o b
    BY <1>3, Appended
  <1>. QED
    BY <1>1, <1>2, <1>4

-----------------------------------------------------------------------------
(***************************************************************************)
(* What the first n bytes of a stream say from index at on, by what is     *)
(* known of the stream.                                                    *)
(***************************************************************************)
Rd(s, n, t, at) == Reading(Pre(s, n), t)[at]

LEMMA RdIs ==
  ASSUME NEW s \in Seq(Byte), NEW n \in 0 .. Len(s), NEW t, NEW at \in 1 .. n + 1
  PROVE  /\ Rd(s, n, t, at) = Chunk(Pre(s, n), at, t, Reading(Pre(s, n), t))
         /\ Rd(s, n, t, at).body \in Seq(Byte)
         /\ Pre(s, n) \in Seq(Byte) /\ Len(Pre(s, n)) = n /\ n \in Nat
         /\ at \in 1 .. Len(Pre(s, n)) + 1 /\ at \in Nat \ {0}
         /\ \A i \in 1 .. n : Pre(s, n)[i] = s[i]
  <1>1. Pre(s, n) \in Seq(Byte) /\ Len(Pre(s, n)) = n /\ n \in Nat
        /\ \A i \in 1 .. n : Pre(s, n)[i] = s[i]
    BY PreIs
  <1>2. at \in 1 .. Len(Pre(s, n)) + 1 /\ at \in Nat \ {0}
    BY <1>1
  <1>. QED
    BY <1>1, <1>2, ReadingUnfolds, ReadingBody DEF Rd

LEMMA RdSizeOpen ==
  ASSUME NEW s \in Seq(Byte), NEW n \in 0 .. Len(s), NEW t, NEW at \in 1 .. n + 1,
         AllDigits(s, at, n), n + 1 - at <= HexMax
  PROVE  Rd(s, n, t, at) = More(<< >>)
  <1>1. /\ Pre(s, n) \in Seq(Byte) /\ Len(Pre(s, n)) = n /\ n \in Nat
        /\ at \in 1 .. Len(Pre(s, n)) + 1 /\ at \in Nat \ {0}
    BY RdIs
  <1>2. AllDigits(Pre(s, n), at, n)
    <2>1. n \in Int /\ n <= n
      BY <1>1
    <2>. QED
      BY <1>1, <2>1, PreKeeps
  <1>3. Chunk(Pre(s, n), at, t, Reading(Pre(s, n), t)) = More(<< >>)
    BY <1>1, <1>2, DigitsOpen
  <1>. QED
    BY <1>3, RdIs

(* The byte at index e ends the digits, or is one too many. *)
LEMMA RdSizeBad ==
  ASSUME NEW s \in Seq(Byte), NEW n \in 0 .. Len(s), NEW t, NEW at \in 1 .. n,
         NEW e \in at .. n, AllDigits(s, at, e - 1),
         \/ s[e] \in HexDigits /\ e = at + HexMax
         \/ s[e] \notin HexDigits /\ (e = at \/ s[e] \notin SizeTerminators)
  PROVE  Rd(s, n, t, at) = Failed(<< >>)
  <1>. DEFINE f == Pre(s, n)
              next == Reading(f, t)
  <1>1. at \in 1 .. n + 1
    OBVIOUS
  <1>2. /\ f \in Seq(Byte) /\ Len(f) = n /\ n \in Nat
        /\ at \in 1 .. Len(f) + 1 /\ at \in Nat \ {0}
        /\ \A i \in 1 .. n : f[i] = s[i]
        /\ Rd(s, n, t, at) = Chunk(f, at, t, next)
    BY <1>1, RdIs
  <1>3. AllDigits(f, at, e - 1)
    <2>1. e - 1 \in Int /\ e - 1 <= n
      BY <1>2
    <2>. QED
      BY <1>2, <2>1, PreKeeps
  <1>. HIDE DEF f, next
  <1>4. e \in Nat /\ f[e] = s[e] /\ e \in at .. Len(f) /\ at \in 1 .. Len(f)
    BY <1>2
  <1>5. CASE s[e] \in HexDigits /\ e = at + HexMax
    <2>1. AllDigits(f, at, at + HexMax)
      BY <1>2, <1>3, <1>4, <1>5 DEF AllDigits
    <2>2. Chunk(f, at, t, next) = Failed(<< >>)
      BY <1>2, <1>4, <1>5, <2>1, DigitsTooMany
    <2>. QED
      BY <1>2, <2>2
  <1>6. CASE s[e] \notin HexDigits /\ (e = at \/ s[e] \notin SizeTerminators)
    <2>1. Chunk(f, at, t, next) = Failed(<< >>)
      BY <1>2, <1>3, <1>4, <1>6, SizeEndsBadly
    <2>. QED
      BY <1>2, <2>1
  <1>. QED
    BY <1>5, <1>6

(* The size line has no end yet, or may have one. *)
LEMMA RdLineOpen ==
  ASSUME NEW s \in Seq(Byte), NEW n \in 0 .. Len(s), NEW t, NEW at \in 1 .. n,
         NEW e \in 1 .. n, Sized(s, at, e),
         \/ Unbroken(s, e, n)
         \/ Unbroken(s, e, n - 1) /\ s[n] = CR
  PROVE  Rd(s, n, t, at) = More(<< >>)
  <1>. DEFINE f == Pre(s, n)
              next == Reading(f, t)
  <1>1. at \in 1 .. n + 1
    OBVIOUS
  <1>2. /\ f \in Seq(Byte) /\ Len(f) = n /\ n \in Nat
        /\ at \in 1 .. Len(f) + 1 /\ at \in Nat \ {0}
        /\ \A i \in 1 .. n : f[i] = s[i]
        /\ Rd(s, n, t, at) = Chunk(f, at, t, next)
    BY <1>1, RdIs
  <1>3. e \in Nat /\ e \in Nat \ {0} /\ e <= n /\ n - 1 \in Int /\ n - 1 <= n /\ n <= n /\ n \in Int
    BY <1>2
  <1>4. Sized(f, at, e)
    BY <1>2, <1>3, PreKeeps
  <1>5. /\ Unbroken(s, e, n) => Unbroken(f, e, n)
        /\ Unbroken(s, e, n - 1) => Unbroken(f, e, n - 1)
    BY <1>2, <1>3, PreKeeps
  <1>. HIDE DEF f, next
  <1>6. at \in 1 .. Len(f) /\ e \in 1 .. Len(f) /\ e <= Len(f)
    BY <1>2, <1>3
  <1>7. CASE Unbroken(s, e, n)
    <2>1. Chunk(f, at, t, next) = More(<< >>)
      BY <1>2, <1>4, <1>5, <1>6, <1>7, LineOpen
    <2>. QED
      BY <1>2, <2>1
  <1>8. CASE Unbroken(s, e, n - 1) /\ s[n] = CR
    <2>1. f[Len(f)] = CR
      BY <1>2, <1>3, <1>8
    <2>2. Chunk(f, at, t, next) = More(<< >>)
      BY <1>2, <1>4, <1>5, <1>6, <1>8, <2>1, LineUndecided
    <2>. QED
      BY <1>2, <2>2
  <1>. QED
    BY <1>7, <1>8

LEMMA RdLineBad ==
  ASSUME NEW s \in Seq(Byte), NEW n \in 0 .. Len(s), NEW t, NEW at \in 1 .. n,
         NEW e \in 1 .. n, Sized(s, at, e), NEW l \in e .. n,
         Unbroken(s, e, l - 1)
  PROVE  s[l] = LF \/ (s[l] = CR /\ l < n /\ s[l + 1] # LF) =>
           Rd(s, n, t, at) = Failed(<< >>)
  <1>. DEFINE f == Pre(s, n)
              next == Reading(f, t)
  <1>1. at \in 1 .. n + 1
    OBVIOUS
  <1>2. /\ f \in Seq(Byte) /\ Len(f) = n /\ n \in Nat
        /\ at \in 1 .. Len(f) + 1 /\ at \in Nat \ {0}
        /\ \A i \in 1 .. n : f[i] = s[i]
        /\ Rd(s, n, t, at) = Chunk(f, at, t, next)
    BY <1>1, RdIs
  <1>3. /\ e \in Nat /\ e \in Nat \ {0} /\ e <= n /\ l - 1 \in Int /\ l - 1 <= n
        /\ l \in 1 .. n /\ (l < n => l + 1 \in 1 .. n)
    BY <1>2
  <1>4. Sized(f, at, e) /\ Unbroken(f, e, l - 1)
    BY <1>2, <1>3, PreKeeps
  <1>. HIDE DEF f, next
  <1>5. at \in 1 .. Len(f) /\ e \in 1 .. Len(f) /\ l \in e .. Len(f)
    BY <1>2, <1>3
  <1>. SUFFICES ASSUME s[l] = LF \/ (s[l] = CR /\ l < n /\ s[l + 1] # LF)
                PROVE  Chunk(f, at, t, next) = Failed(<< >>)
    BY <1>2
  <1>6. f[l] = LF \/ (f[l] = CR /\ l < Len(f) /\ f[l + 1] # LF)
    BY <1>2, <1>3
  <1>. QED
    BY <1>2, <1>4, <1>5, <1>6, LineFails

(* A whole line: what follows is the end of the body, or the chunk's data. *)
LEMMA RdOpened ==
  ASSUME NEW s \in Seq(Byte), NEW n \in 0 .. Len(s), NEW t, NEW at \in 1 .. n,
         NEW e \in 1 .. n, NEW l \in 1 .. n - 1, Opened(s, at, e, l)
  PROVE  LET size == Value(s, at, e)
             data == SubSeq(s, l + 2, l + 1 + size)
             c    == Rd(s, n, t, at)
         IN /\ size \in Nat
            /\ size = 0 => c = IF t THEN Trailers(Pre(s, n), l + 2)
                               ELSE Says("complete", << >>, l + 1, 0)
            /\ size # 0 /\ n < l + 1 + size =>
                 c = Says("more", SubSeq(s, l + 2, n), 0, size - (n - (l + 1)))
            /\ size # 0 /\ l + 1 + size <= n =>
                 /\ BreakAt(Pre(s, n), l + 2 + size) = "wrong" => c = Failed(data)
                 /\ BreakAt(Pre(s, n), l + 2 + size) = "unknown" => c = More(data)
                 /\ BreakAt(Pre(s, n), l + 2 + size) = "there" =>
                      c = Then(data, Rd(s, n, t, l + 2 + size + 2))
  <1>. DEFINE f == Pre(s, n)
              next == Reading(f, t)
              z == Value(s, at, e)
              c == Chunk(f, at, t, next)
  <1>1. at \in 1 .. n + 1
    OBVIOUS
  <1>2. /\ f \in Seq(Byte) /\ Len(f) = n /\ n \in Nat
        /\ at \in 1 .. Len(f) + 1 /\ at \in Nat \ {0}
        /\ Rd(s, n, t, at) = c
    BY <1>1, RdIs
  <1>3. e \in Nat /\ l \in Nat /\ l < n /\ l + 2 \in Nat \ {0} /\ n \in Int /\ n <= n
    BY <1>2
  <1>4. Opened(f, at, e, l) /\ Value(f, at, e) = z
    BY <1>2, <1>3, PreKeeps
  <1>5. \A i : Rd(s, n, t, i) = next[i]
    BY DEF Rd
  <1>6. \A b \in Int : b <= n => SubSeq(f, l + 2, b) = SubSeq(s, l + 2, b)
    BY <1>3, PreSlice
  <1>. HIDE DEF f, next
  <1>7. at \in 1 .. Len(f) /\ e \in 1 .. Len(f) /\ l \in 1 .. Len(f) - 1
    BY <1>2, <1>3
  <1>8. /\ z \in Nat
        /\ z = 0 => c = IF t THEN Trailers(f, l + 2)
                        ELSE Says("complete", << >>, l + 1, 0)
        /\ z # 0 /\ Len(f) < l + 1 + z =>
             c = Says("more", SubSeq(f, l + 2, Len(f)), 0, z - (Len(f) - (l + 1)))
        /\ z # 0 /\ l + 1 + z <= Len(f) =>
             /\ BreakAt(f, l + 2 + z) = "wrong" => c = Failed(SubSeq(f, l + 2, l + 1 + z))
             /\ BreakAt(f, l + 2 + z) = "unknown" => c = More(SubSeq(f, l + 2, l + 1 + z))
             /\ BreakAt(f, l + 2 + z) = "there" =>
                  c = Then(SubSeq(f, l + 2, l + 1 + z), next[l + 2 + z + 2])
    BY <1>2, <1>4, <1>7, OpenedIs
  <1>. HIDE DEF z, c
  <1>9. SubSeq(f, l + 2, n) = SubSeq(s, l + 2, n)
    BY <1>3, <1>6
  <1>10. l + 1 + z <= n => SubSeq(f, l + 2, l + 1 + z) = SubSeq(s, l + 2, l + 1 + z)
    <2>1. l + 1 + z \in Int
      BY <1>3, <1>8
    <2>. QED
      BY <1>6, <2>1
  <1>11. /\ z \in Nat
         /\ z = 0 => c = IF t THEN Trailers(f, l + 2)
                         ELSE Says("complete", << >>, l + 1, 0)
         /\ z # 0 /\ n < l + 1 + z =>
              c = Says("more", SubSeq(s, l + 2, n), 0, z - (n - (l + 1)))
         /\ z # 0 /\ l + 1 + z <= n =>
              /\ BreakAt(f, l + 2 + z) = "wrong" => c = Failed(SubSeq(s, l + 2, l + 1 + z))
              /\ BreakAt(f, l + 2 + z) = "unknown" => c = More(SubSeq(s, l + 2, l + 1 + z))
              /\ BreakAt(f, l + 2 + z) = "there" =>
                   c = Then(SubSeq(s, l + 2, l + 1 + z), Rd(s, n, t, l + 2 + z + 2))
    BY <1>2, <1>5, <1>8, <1>9, <1>10
  <1>. QED
    BY <1>2, <1>11 DEF f, z

(* The last chunk. *)
LEMMA RdLast ==
  ASSUME NEW s \in Seq(Byte), NEW n \in 0 .. Len(s), NEW t, NEW at \in 1 .. n,
         NEW e \in 1 .. n, NEW l \in 1 .. n - 1, Opened(s, at, e, l),
         Value(s, at, e) = 0
  PROVE  Rd(s, n, t, at) = IF t THEN Trailers(Pre(s, n), l + 2)
                           ELSE Says("complete", << >>, l + 1, 0)
  BY RdOpened

(* With trailer lines, whose end is not there yet. *)
LEMMA RdTrailersOpen ==
  ASSUME NEW s \in Seq(Byte), NEW n \in 0 .. Len(s), NEW t, NEW at \in 1 .. n,
         NEW e \in 1 .. n, NEW l \in 1 .. n - 1, Opened(s, at, e, l),
         Value(s, at, e) = 0,
         \A i \in l + 2 .. n : ~EndsTrailers(s, l + 2, i)
  PROVE  Rd(s, n, t, at) = IF t THEN More(<< >>)
                           ELSE Says("complete", << >>, l + 1, 0)
  <1>1. n \in Nat /\ Pre(s, n) \in Seq(Byte) /\ Len(Pre(s, n)) = n
    BY PreIs
  <1>2. l + 2 \in Nat \ {0}
    BY <1>1
  <1>3. \A i \in l + 2 .. n : i \in Nat /\ i <= n
    BY <1>1, <1>2
  <1>4. \A i \in l + 2 .. Len(Pre(s, n)) : ~EndsTrailers(Pre(s, n), l + 2, i)
    BY <1>1, <1>2, <1>3, PreKeeps
  <1>5. Trailers(Pre(s, n), l + 2) = More(<< >>)
    BY <1>1, <1>2, <1>4, TrailersOpen
  <1>. QED
    BY <1>5, RdLast

LEMMA RdTrailersEnd ==
  ASSUME NEW s \in Seq(Byte), NEW n \in 0 .. Len(s), NEW t, NEW at \in 1 .. n,
         NEW e \in 1 .. n, NEW l \in 1 .. n - 1, Opened(s, at, e, l),
         Value(s, at, e) = 0, NEW end \in l + 2 .. n,
         EndsTrailers(s, l + 2, end),
         \A i \in l + 2 .. end - 1 : ~EndsTrailers(s, l + 2, i)
  PROVE  Rd(s, n, t, at) = IF t THEN Says("complete", << >>, end, 0)
                           ELSE Says("complete", << >>, l + 1, 0)
  <1>1. n \in Nat /\ Pre(s, n) \in Seq(Byte) /\ Len(Pre(s, n)) = n
    BY PreIs
  <1>2. l + 2 \in Nat \ {0} /\ end \in Nat /\ end <= n
    BY <1>1
  <1>3. \A i \in l + 2 .. end - 1 : i \in Nat /\ i <= n
    BY <1>1, <1>2
  <1>4. /\ EndsTrailers(Pre(s, n), l + 2, end)
        /\ \A i \in l + 2 .. end - 1 : ~EndsTrailers(Pre(s, n), l + 2, i)
    BY <1>2, <1>3, PreKeeps
  <1>5. end \in l + 2 .. Len(Pre(s, n))
    BY <1>1
  <1>6. Trailers(Pre(s, n), l + 2) = Says("complete", << >>, end, 0)
    BY <1>1, <1>2, <1>4, <1>5, TrailersEnd
  <1>. QED
    BY <1>6, RdLast

(* Data of the chunk is to come. *)
LEMMA RdShort ==
  ASSUME NEW s \in Seq(Byte), NEW n \in 0 .. Len(s), NEW t, NEW at \in 1 .. n,
         NEW e \in 1 .. n, NEW l \in 1 .. n - 1, Opened(s, at, e, l),
         n < l + 1 + Value(s, at, e)
  PROVE  Rd(s, n, t, at)
           = Says("more", SubSeq(s, l + 2, n), 0, Value(s, at, e) - (n - (l + 1)))
  <1>1. Value(s, at, e) # 0 /\ n \in Nat
    BY RdOpened
  <1>. QED
    BY <1>1, RdOpened

(* The data is all there: the line break that follows is open, or wrong,   *)
(* or there.                                                               *)
LEMMA RdData ==
  ASSUME NEW s \in Seq(Byte), NEW n \in 0 .. Len(s), NEW t, NEW at \in 1 .. n,
         NEW e \in 1 .. n, NEW l \in 1 .. n - 1, Opened(s, at, e, l),
         NEW m \in Nat, Value(s, at, e) > 0, m = l + 1 + Value(s, at, e), m <= n
  PROVE  LET data == SubSeq(s, l + 2, m)
             c    == Rd(s, n, t, at)
         IN /\ n = m => c = More(data)
            /\ n = m + 1 /\ s[m + 1] = CR => c = More(data)
            /\ n > m /\ s[m + 1] # CR => c = Failed(data)
            /\ n > m + 1 /\ s[m + 2] # LF => c = Failed(data)
            /\ n > m + 1 /\ s[m + 1] = CR /\ s[m + 2] = LF =>
                 c = Then(data, Rd(s, n, t, m + 3))
  <1>. DEFINE f == Pre(s, n)
              z == Value(s, at, e)
              c == Rd(s, n, t, at)
              data == SubSeq(s, l + 2, m)
              next == Rd(s, n, t, m + 3)
  <1>1. /\ n \in Nat /\ f \in Seq(Byte) /\ Len(f) = n
        /\ \A i \in 1 .. n : f[i] = s[i]
    BY PreIs
  <1>2. z \in Nat
    BY RdOpened
  <1>3. /\ z # 0 /\ l + 1 + z = m /\ l + 2 + z = m + 1
        /\ l + 2 + z + 2 = m + 3 /\ l + 1 + z <= n
        /\ m + 1 \in Nat \ {0}
    <2>. HIDE DEF z
    <2>. QED
      BY <1>1, <1>2 DEF z
  <1>4. /\ BreakAt(f, m + 1) = "wrong" => c = Failed(data)
        /\ BreakAt(f, m + 1) = "unknown" => c = More(data)
        /\ BreakAt(f, m + 1) = "there" => c = Then(data, next)
    BY <1>3, RdOpened
  <1>. HIDE DEF f, z, c, data, next
  <1>5. /\ n > m => f[m + 1] = s[m + 1]
        /\ n > m + 1 => f[m + 2] = s[m + 2]
    <2>1. /\ n > m => m + 1 \in 1 .. n
          /\ n > m + 1 => m + 2 \in 1 .. n
      BY <1>1, <1>3
    <2>. QED
      BY <1>1, <2>1
  <1>. DEFINE k == m + 1
  <1>8. /\ k < Len(f) /\ f[k] = CR /\ f[k + 1] = LF => BreakAt(f, k) = "there"
        /\ k < Len(f) /\ f[k + 1] # LF => BreakAt(f, k) = "wrong"
        /\ k <= Len(f) /\ f[k] # CR => BreakAt(f, k) = "wrong"
        /\ k > Len(f) => BreakAt(f, k) = "unknown"
        /\ k = Len(f) /\ f[k] = CR => BreakAt(f, k) = "unknown"
    <2>1. k \in Nat \ {0}
      BY <1>3
    <2>. HIDE DEF k
    <2>. QED
      BY <1>1, <2>1, Breaks
  <1>9. k + 1 = m + 2
    OBVIOUS
  <1>6. /\ n = m => BreakAt(f, m + 1) = "unknown"
        /\ n = m + 1 /\ s[m + 1] = CR => BreakAt(f, m + 1) = "unknown"
        /\ n > m /\ s[m + 1] # CR => BreakAt(f, m + 1) = "wrong"
        /\ n > m + 1 /\ s[m + 2] # LF => BreakAt(f, m + 1) = "wrong"
        /\ n > m + 1 /\ s[m + 1] = CR /\ s[m + 2] = LF => BreakAt(f, m + 1) = "there"
    BY <1>1, <1>5, <1>8, <1>9
  <1>7. /\ n = m => c = More(data)
        /\ n = m + 1 /\ s[m + 1] = CR => c = More(data)
        /\ n > m /\ s[m + 1] # CR => c = Failed(data)
        /\ n > m + 1 /\ s[m + 2] # LF => c = Failed(data)
        /\ n > m + 1 /\ s[m + 1] = CR /\ s[m + 2] = LF => c = Then(data, next)
    BY <1>4, <1>6
  <1>. QED
    BY <1>7 DEF c, data, next

LEMMA RdDataOpen ==
  ASSUME NEW s \in Seq(Byte), NEW n \in 0 .. Len(s), NEW t, NEW at \in 1 .. n,
         NEW e \in 1 .. n, NEW l \in 1 .. n - 1, Opened(s, at, e, l),
         NEW m \in Nat, Value(s, at, e) > 0, m = l + 1 + Value(s, at, e), m <= n
  PROVE  n = m \/ (n = m + 1 /\ s[m + 1] = CR) =>
           Rd(s, n, t, at) = More(SubSeq(s, l + 2, m))
  BY RdData

LEMMA RdDataBad ==
  ASSUME NEW s \in Seq(Byte), NEW n \in 0 .. Len(s), NEW t, NEW at \in 1 .. n,
         NEW e \in 1 .. n, NEW l \in 1 .. n - 1, Opened(s, at, e, l),
         NEW m \in Nat, Value(s, at, e) > 0, m = l + 1 + Value(s, at, e), m <= n
  PROVE  (n > m /\ s[m + 1] # CR) \/ (n > m + 1 /\ s[m + 2] # LF) =>
           Rd(s, n, t, at) = Failed(SubSeq(s, l + 2, m))
  BY RdData

LEMMA RdDataEnds ==
  ASSUME NEW s \in Seq(Byte), NEW n \in 0 .. Len(s), NEW t, NEW at \in 1 .. n,
         NEW e \in 1 .. n, NEW l \in 1 .. n - 1, Opened(s, at, e, l),
         NEW m \in Nat, Value(s, at, e) > 0, m = l + 1 + Value(s, at, e), m <= n
  PROVE  n > m + 1 /\ s[m + 1] = CR /\ s[m + 2] = LF =>
           Rd(s, n, t, at) = Then(SubSeq(s, l + 2, m), Rd(s, n, t, m + 3))
  BY RdData

-----------------------------------------------------------------------------
(***************************************************************************)
(* Where the decoder stands.  The chunks before index at have been read,   *)
(* and carried got; of the chunk that begins there the size ends at e and  *)
(* the line at l, as far as they have been read.                           *)
(***************************************************************************)
Follows(s, t, at, got) ==
  \A n \in at - 1 .. Len(s) : Rd(s, n, t, 1) = Then(got, Rd(s, n, t, at))

InSize(at, got) ==
  /\ AllDigits(stream, at, Position)
  /\ hex = Position + 1 - at /\ left = Value(stream, at, Position + 1)
  /\ Collected = got

InLine(at, got, e) ==
  /\ Sized(stream, at, e) /\ e <= fed /\ left = Value(stream, at, e)
  /\ Collected = got
  /\ IF st = ST_EXT THEN e <= Position + 1 /\ Unbroken(stream, e, Position)
     ELSE /\ e <= Position /\ Unbroken(stream, e, Position - 1)
          /\ stream[Position] = CR

InData(at, got, e, l) ==
  /\ Value(stream, at, e) = Position - (l + 1) + left
  /\ Collected = got \o SubSeq(stream, l + 2, Position)

AfterData(at, got, e, l) ==
  LET read == l + 1 + Value(stream, at, e) IN
  /\ Value(stream, at, e) > 0
  /\ Collected = got \o SubSeq(stream, l + 2, read)
  /\ IF st = ST_DATA_CR THEN Position = read
     ELSE Position = read + 1 /\ stream[Position] = CR

InTrailers(at, got, e, l) ==
  /\ Value(stream, at, e) = 0 /\ Collected = got
  /\ \A i \in l + 2 .. Position : ~EndsTrailers(stream, l + 2, i)
  /\ st = ST_TRAIL_HEAD =>
       \E b \in l + 2 .. Position + 1 :
         /\ b = l + 2 \/ stream[b - 1] = LF
         /\ \A i \in b .. Position : stream[i] = CR
  /\ st = ST_TRAIL_MID =>
       \E b \in l + 2 .. Position :
         stream[b] # CR /\ \A i \in b .. Position : stream[i] # LF

Within(at, got, e, l) ==
  /\ at \in 1 .. Position + 1 /\ got \in Seq(Byte) /\ e \in Nat /\ l \in Nat
  /\ Follows(stream, dec.consume_trailer, at, got)
  /\ st = ST_SIZE => InSize(at, got)
  /\ st \in {ST_EXT, ST_EXPECT_LF} => InLine(at, got, e)
  /\ st \in {ST_DATA, ST_DATA_CR, ST_DATA_LF} \cup Trailer =>
       Opened(stream, at, e, l) /\ l + 1 <= Position
  /\ st = ST_DATA => InData(at, got, e, l)
  /\ st \in {ST_DATA_CR, ST_DATA_LF} => AfterData(at, got, e, l)
  /\ st \in Trailer => InTrailers(at, got, e, l)

(* What the whole of a stream that begins with the bytes fed says. *)
Decided(m) == \A n \in fed .. Len(stream) : Rd(stream, n, dec.consume_trailer, 1) = m

Reads ==
  /\ err \in {"none", "partial"} => \E at, got, e, l : Within(at, got, e, l)
  /\ err = "malformed" => Decided(Failed(Collected))
  /\ err = "complete" => Decided(Says("complete", Collected, Position, 0))
  /\ verdict = "failed" /\ err = "partial" => dec.total_overhead >= OverheadLimit

(* The byte to be read, and the bytes read, are the stream's. *)
LEMMA CurrentIs ==
  ASSUME SInv, pc = "loop", src < Len(buf)
  PROVE  /\ Current = stream[Position + 1] /\ Current \in Byte
         /\ Position + 1 <= fed /\ Position \in Nat /\ fed \in Nat
         /\ Position + 1 \in 1 .. Len(stream)
  <1>1. /\ buf \in Seq(Byte) /\ Len(buf) \in Nat /\ src \in Nat /\ src < Len(buf)
        /\ Len(buf) = Len(input)
        /\ \A i \in src + 1 .. Len(buf) : buf[i] = input[i]
    BY InLoop DEF SInv, IInv, UnreadIntact, CursorsOrdered
  <1>2. /\ Position \in Nat /\ Position + (Len(buf) - src) = fed
        /\ fed <= Len(stream) /\ fed \in Nat /\ Len(stream) \in Nat
    BY PositionInStream
  <1>3. src + 1 \in src + 1 .. Len(buf) /\ src + 1 \in 1 .. Len(input)
        /\ fed - Len(input) + (src + 1) = Position + 1
    BY <1>1, <1>2
  <1>4. input[src + 1] = stream[fed - Len(input) + (src + 1)]
    BY <1>3 DEF SInv, InputIsStream
  <1>5. Current \in Byte
    BY <1>1, <1>3 DEF Current
  <1>6. Current = stream[Position + 1]
    BY <1>1, <1>3, <1>4 DEF Current
  <1>7. Position + 1 <= fed /\ Position + 1 \in 1 .. Len(stream)
    BY <1>1, <1>2
  <1>. QED
    BY <1>2, <1>5, <1>6, <1>7

(* A byte of framing read. *)
LEMMA ReadByte ==
  ASSUME SInv, Work, pc = "loop", src < Len(buf), src' = src + 1, buf' = buf, dst' = dst
  PROVE  /\ stream' = stream /\ dec' = dec /\ fed' = fed /\ verdict' = "more"
         /\ Position' = Position + 1 /\ Collected' = Collected
         /\ Position \in Nat /\ Position + 1 <= fed /\ fed \in Nat
         /\ fed <= Len(stream) /\ Len(stream) \in Nat
         /\ stream \in Seq(Byte) /\ Collected \in Seq(Byte)
         /\ Current = stream[Position + 1] /\ Current \in Byte
  <1>1. stream' = stream /\ dec' = dec /\ Position' = Position + 1 /\ Collected' = Collected
    BY FramingStep
  <1>2. fed' = fed /\ verdict' = verdict /\ verdict = "more"
    BY ModeInLoop DEF Work, session
  <1>. QED
    BY <1>1, <1>2, CurrentIs, PositionInStream, CollectedIsSeq

(* None read. *)
LEMMA ReadNone ==
  ASSUME SInv, Work, pc = "loop", src' = src, buf' = buf, dst' = dst
  PROVE  /\ stream' = stream /\ dec' = dec /\ fed' = fed /\ verdict' = "more"
         /\ Position' = Position /\ Collected' = Collected
         /\ Position \in Nat /\ fed \in Nat
         /\ fed <= Len(stream) /\ Len(stream) \in Nat
         /\ stream \in Seq(Byte) /\ Collected \in Seq(Byte)
         /\ src < Len(buf) =>
              /\ Position + 1 <= fed
              /\ Current = stream[Position + 1] /\ Current \in Byte
  <1>1. stream' = stream /\ dec' = dec /\ Position' = Position /\ Collected' = Collected
    BY StillStep
  <1>2. fed' = fed /\ verdict' = verdict /\ verdict = "more"
    BY ModeInLoop DEF Work, session
  <1>. QED
    BY <1>1, <1>2, CurrentIs, PositionInStream, CollectedIsSeq

(* Where a step leads to a place in the stream, or decides it. *)
LEMMA GoesOn ==
  ASSUME err' \in {"none", "partial"}, verdict' = "more",
         NEW at, NEW got, NEW e, NEW l, Within(at, got, e, l)'
  PROVE  Reads'
  BY DEF Reads

LEMMA Decides ==
  ASSUME err' \in {"malformed", "complete"},
         stream' = stream, fed' = fed, dec' = dec, fed \in Nat,
         NEW at, NEW got, at - 1 <= fed, at - 1 \in Int,
         Follows(stream, dec.consume_trailer, at, got),
         NEW rest,
         \A n \in fed .. Len(stream) : Rd(stream, n, dec.consume_trailer, at) = rest,
         err' = "malformed" => Then(got, rest) = Failed(Collected'),
         err' = "complete" => Then(got, rest) = Says("complete", Collected', Position', 0)
  PROVE  Reads'
  <1>1. \A n \in fed .. Len(stream) : n \in at - 1 .. Len(stream)
    OBVIOUS
  <1>2. \A n \in fed .. Len(stream) : Rd(stream, n, dec.consume_trailer, 1) = Then(got, rest)
    BY <1>1 DEF Follows
  <1>3. err' = "malformed" => Decided(Failed(Collected))'
    BY <1>2 DEF Decided
  <1>4. err' = "complete" => Decided(Says("complete", Collected, Position, 0))'
    BY <1>2 DEF Decided
  <1>. QED
    BY <1>3, <1>4 DEF Reads

-----------------------------------------------------------------------------
(***************************************************************************)
(* The invariant Reads is kept, action by action.                          *)
(***************************************************************************)
LEMMA Place ==
  ASSUME SInv, Reads, pc = "loop"
  PROVE  \E at, got, e, l : Within(at, got, e, l)
  BY ModeInLoop DEF Reads

LEMMA SamePlace ==
  ASSUME NEW at, NEW got, NEW e, NEW l, Within(at, got, e, l),
         stream' = stream, dec'.consume_trailer = dec.consume_trailer,
         st' = st, left' = left, hex' = hex,
         Position' = Position, Collected' = Collected,
         fed \in Nat, fed' \in Nat, fed <= fed'
  PROVE  Within(at, got, e, l)'
  <1>1. e \in Nat
    BY DEF Within
  <1>2. InSize(at, got) => InSize(at, got)'
    BY DEF InSize
  <1>3. InLine(at, got, e) => InLine(at, got, e)'
    BY <1>1 DEF InLine
  <1>4. InData(at, got, e, l) => InData(at, got, e, l)'
    BY DEF InData
  <1>5. AfterData(at, got, e, l) => AfterData(at, got, e, l)'
    BY DEF AfterData
  <1>6. InTrailers(at, got, e, l) => InTrailers(at, got, e, l)'
    BY DEF InTrailers
  <1>. QED
    BY <1>2, <1>3, <1>4, <1>5, <1>6 DEF Within

LEMMA OutOfBytesReads == ASSUME SInv, Work, OutOfBytes, Reads PROVE Reads'
  <1>1. /\ pc = "loop" /\ src' = src /\ buf' = buf /\ dst' = dst
        /\ st' = st /\ left' = left /\ hex' = hex /\ err' = "partial"
    BY DEF OutOfBytes, Break, Frame
  <1>2. PICK at, got, e, l : Within(at, got, e, l)
    BY <1>1, Place
  <1>3. /\ stream' = stream /\ dec' = dec /\ fed' = fed /\ verdict' = "more"
        /\ Position' = Position /\ Collected' = Collected /\ fed \in Nat
    BY <1>1, ReadNone
  <1>4. Within(at, got, e, l)'
    BY <1>1, <1>2, <1>3, SamePlace
  <1>. QED
    BY <1>1, <1>3, <1>4, GoesOn

LEMMA SizeDigitReads == ASSUME SInv, Work, SizeDigit, Reads PROVE Reads'
  <1>1. /\ pc = "loop" /\ src < Len(buf) /\ src' = src + 1 /\ buf' = buf
        /\ dst' = dst /\ st = ST_SIZE /\ st' = ST_SIZE
        /\ Current \in HexDigits /\ hex' = hex + 1 /\ err' = err
    BY DEF SizeDigit, At, SkipTo, Frame
  <1>2. left' = left * 16 + hex_val(Current)
    BY SizeDigitStep DEF SInv, DigitKeepsSize
  <1>3. PICK at, got, e, l : Within(at, got, e, l)
    BY <1>1, Place
  <1>4. /\ stream' = stream /\ dec' = dec /\ fed' = fed /\ verdict' = "more"
        /\ Position' = Position + 1 /\ Collected' = Collected
        /\ Position \in Nat /\ Position + 1 <= fed /\ fed \in Nat
        /\ fed <= Len(stream) /\ Len(stream) \in Nat /\ stream \in Seq(Byte)
        /\ Current = stream[Position + 1]
    BY <1>1, ReadByte
  <1>5. /\ at \in 1 .. Position + 1 /\ got \in Seq(Byte) /\ e \in Nat /\ l \in Nat
        /\ Follows(stream, dec.consume_trailer, at, got)
        /\ AllDigits(stream, at, Position)
        /\ hex = Position + 1 - at /\ left = Value(stream, at, Position + 1)
        /\ Collected = got
    BY <1>1, <1>3 DEF Within, InSize
  <1>6. AllDigits(stream, at, Position + 1)
    BY <1>1, <1>4, <1>5 DEF AllDigits
  <1>7. Value(stream, at, Position + 2) = 16 * left + hex_val(Current)
    <2>. DEFINE p == Position + 1
    <2>1. /\ p \in Nat /\ at \in Nat \ {0} /\ at <= p /\ p <= Len(stream)
          /\ (Position + 2) - 1 = p /\ (Position + 1) - 1 = p - 1
      BY <1>4, <1>5
    <2>2. \A i \in at .. p : stream[i] \in HexDigits
      BY <1>6 DEF AllDigits
    <2>3. left = Number(SubSeq(stream, at, p - 1)) /\ Current = stream[p]
      BY <1>4, <1>5, <2>1 DEF Value
    <2>4. Value(stream, at, Position + 2) = Number(SubSeq(stream, at, p))
      BY <2>1 DEF Value
    <2>. HIDE DEF p
    <2>. QED
      BY <1>4, <2>1, <2>2, <2>3, <2>4, NumberNext
  <1>8. hex' = (Position + 1) + 1 - at
    BY <1>1, <1>4, <1>5
  <1>9. left' = Value(stream, at, Position + 2)
    <2>1. left \in Nat /\ hex_val(Current) \in 0 .. 15
      BY <1>1, InLoop, HexDigitValue DEF SInv
    <2>. QED
      BY <1>2, <1>7, <2>1
  <1>10. InSize(at, got)'
    <2>1. Position' + 1 = Position + 2
      BY <1>4
    <2>. QED
      BY <1>4, <1>5, <1>6, <1>8, <1>9, <2>1 DEF InSize
  <1>11. Within(at, got, e, l)'
    <2>1. at \in 1 .. Position' + 1
      BY <1>4, <1>5
    <2>2. st' = ST_SIZE
      BY <1>1
    <2>. QED
      BY <1>4, <1>5, <1>10, <2>1, <2>2
      DEF Within, Trailer, ST_SIZE, ST_EXT, ST_EXPECT_LF, ST_DATA, ST_DATA_CR,
          ST_DATA_LF, ST_TRAIL_HEAD, ST_TRAIL_MID
  <1>12. err' = "none"
    BY <1>1, ModeInLoop
  <1>. QED
    BY <1>4, <1>11, <1>12, GoesOn

LEMMA SizeEndReads == ASSUME SInv, Work, SizeEnd, Reads PROVE Reads'
  <1>1. /\ pc = "loop" /\ src < Len(buf) /\ src' = src /\ buf' = buf
        /\ dst' = dst /\ st = ST_SIZE /\ st' = ST_EXT /\ left' = left
        /\ Current \in SizeTerminators /\ hex # 0 /\ err' = err
    BY DEF SizeEnd, At, Frame
  <1>2. PICK at, got, e, l : Within(at, got, e, l)
    BY <1>1, Place
  <1>3. /\ stream' = stream /\ dec' = dec /\ fed' = fed /\ verdict' = "more"
        /\ Position' = Position /\ Collected' = Collected
        /\ Position \in Nat /\ Position + 1 <= fed /\ fed \in Nat
        /\ Current = stream[Position + 1]
    BY <1>1, ReadNone
  <1>4. /\ at \in 1 .. Position + 1 /\ got \in Seq(Byte) /\ l \in Nat
        /\ Follows(stream, dec.consume_trailer, at, got)
        /\ AllDigits(stream, at, Position)
        /\ hex = Position + 1 - at /\ left = Value(stream, at, Position + 1)
        /\ Collected = got
    BY <1>1, <1>2 DEF Within, InSize
  <1>. DEFINE d == Position + 1
  <1>5. d \in Nat /\ d - 1 = Position
    BY <1>3
  <1>6. Sized(stream, at, d)
    <2>1. hex \in 0 .. HexMax
      BY <1>1, InLoop DEF SInv
    <2>2. at < d /\ d - at <= HexMax
      BY <1>1, <1>3, <1>4, <2>1, SizeAssumption
    <2>. QED
      BY <1>1, <1>3, <1>4, <1>5, <2>2 DEF Sized
  <1>7. Unbroken(stream, d, Position)
    BY <1>3 DEF Unbroken
  <1>8. InLine(at, got, d)'
    BY <1>1, <1>3, <1>4, <1>6, <1>7 DEF InLine
  <1>9. Within(at, got, d, l)'
    <2>1. at \in 1 .. Position' + 1
      BY <1>3, <1>4
    <2>. QED
      BY <1>1, <1>3, <1>4, <1>5, <1>8, <2>1
      DEF Within, Trailer, ST_SIZE, ST_EXT, ST_EXPECT_LF, ST_DATA, ST_DATA_CR,
          ST_DATA_LF, ST_TRAIL_HEAD, ST_TRAIL_MID
  <1>10. err' = "none"
    BY <1>1, ModeInLoop
  <1>. QED
    BY <1>3, <1>9, <1>10, GoesOn

(* What is said of a piece and of nothing after it. *)
LEMMA ThenEnds ==
  ASSUME NEW got \in Seq(Byte)
  PROVE  /\ Then(got, Failed(<< >>)) = Failed(got)
         /\ Then(got, More(<< >>)) = Says("more", got, 0, 0)
         /\ \A end : Then(got, Says("complete", << >>, end, 0))
                       = Says("complete", got, end, 0)
         /\ \A d, owed : Then(got, Says("more", d, 0, owed)) = Says("more", got \o d, 0, owed)
         /\ \A d : Then(got, Failed(d)) = Failed(got \o d)
         /\ \A d : Then(got, More(d)) = Says("more", got \o d, 0, 0)
  <1>1. got \o << >> = got
    OBVIOUS
  <1>. QED
    BY <1>1 DEF Then, Says, Failed, More

LEMMA SizeRejectReads == ASSUME SInv, Work, SizeReject, Reads PROVE Reads'
  <1>1. /\ pc = "loop" /\ src < Len(buf) /\ src' = src /\ buf' = buf
        /\ dst' = dst /\ st = ST_SIZE /\ err' = "malformed"
        /\ \/ Current \in HexDigits /\ hex = HexMax
           \/ Current \notin HexDigits /\ (hex = 0 \/ Current \notin SizeTerminators)
    BY DEF SizeReject, At, Frame, Break, DigitFits
  <1>2. PICK at, got, e, l : Within(at, got, e, l)
    BY <1>1, Place
  <1>3. /\ stream' = stream /\ dec' = dec /\ fed' = fed
        /\ Position' = Position /\ Collected' = Collected
        /\ Position \in Nat /\ Position + 1 <= fed /\ fed \in Nat
        /\ fed <= Len(stream) /\ Len(stream) \in Nat /\ stream \in Seq(Byte)
        /\ Current = stream[Position + 1]
    BY <1>1, ReadNone
  <1>4. /\ at \in 1 .. Position + 1 /\ got \in Seq(Byte)
        /\ Follows(stream, dec.consume_trailer, at, got)
        /\ AllDigits(stream, at, Position)
        /\ hex = Position + 1 - at /\ Collected = got
    BY <1>1, <1>2 DEF Within, InSize
  <1>5. ASSUME NEW n \in fed .. Len(stream)
        PROVE  Rd(stream, n, dec.consume_trailer, at) = Failed(<< >>)
    <2>. DEFINE d == Position + 1
    <2>1. n \in 0 .. Len(stream) /\ at \in 1 .. n /\ d \in at .. n /\ d - 1 = Position
      BY <1>3, <1>4
    <2>2. HexMax \in Nat
      BY SizeAssumption
    <2>3. \/ stream[d] \in HexDigits /\ d = at + HexMax
          \/ stream[d] \notin HexDigits /\ (d = at \/ stream[d] \notin SizeTerminators)
      BY <1>1, <1>3, <1>4, <2>2
    <2>4. AllDigits(stream, at, d - 1)
      BY <1>4, <2>1
    <2>. HIDE DEF d
    <2>. QED
      BY <1>3, <2>1, <2>3, <2>4, RdSizeBad
  <1>6. Then(got, Failed(<< >>)) = Failed(Collected')
    BY <1>3, <1>4, ThenEnds
  <1>7. at - 1 <= fed /\ at - 1 \in Int
    BY <1>3, <1>4
  <1>8. err' # "complete" /\ err' \in {"malformed", "complete"}
    BY <1>1
  <1>. QED
    BY <1>3, <1>4, <1>5, <1>6, <1>7, <1>8, Decides

LEMMA ExtByteReads == ASSUME SInv, Work, ExtByte, Reads PROVE Reads'
  <1>1. /\ pc = "loop" /\ src < Len(buf) /\ src' = src + 1 /\ buf' = buf
        /\ dst' = dst /\ st = ST_EXT /\ left' = left
        /\ st' = IF Current = CR THEN ST_EXPECT_LF ELSE ST_EXT
        /\ Current # LF /\ err' = err
    BY DEF ExtByte, At, SkipTo, Frame
  <1>2. PICK at, got, e, l : Within(at, got, e, l)
    BY <1>1, Place
  <1>3. /\ stream' = stream /\ dec' = dec /\ fed' = fed /\ verdict' = "more"
        /\ Position' = Position + 1 /\ Collected' = Collected
        /\ Position \in Nat /\ Position + 1 <= fed /\ fed \in Nat
        /\ Current = stream[Position + 1]
    BY <1>1, ReadByte
  <1>4. /\ at \in 1 .. Position + 1 /\ got \in Seq(Byte) /\ e \in Nat /\ l \in Nat
        /\ Follows(stream, dec.consume_trailer, at, got)
        /\ Sized(stream, at, e) /\ e <= fed /\ left = Value(stream, at, e)
        /\ Collected = got
        /\ e <= Position + 1 /\ Unbroken(stream, e, Position)
    BY <1>1, <1>2 DEF Within, InLine
  <1>5. (Position + 1) - 1 = Position /\ e <= (Position + 1) + 1
        /\ at \in 1 .. (Position + 1) + 1
    BY <1>3, <1>4
  <1>6. Current # CR => Unbroken(stream, e, Position + 1)
    BY <1>1, <1>3, <1>4 DEF Unbroken
  <1>7. InLine(at, got, e)'
    <2>1. CASE Current = CR
      <3>1. st' # ST_EXT
        BY <1>1, <2>1 DEF ST_EXT, ST_EXPECT_LF
      <3>. QED
        BY <1>1, <1>3, <1>4, <1>5, <2>1, <3>1 DEF InLine
    <2>2. CASE Current # CR
      BY <1>1, <1>3, <1>4, <1>5, <1>6, <2>2 DEF InLine
    <2>. QED
      BY <2>1, <2>2
  <1>8. Within(at, got, e, l)'
    <2>1. st' \in {ST_EXT, ST_EXPECT_LF} /\ at \in 1 .. Position' + 1
      BY <1>1, <1>3, <1>5
    <2>. QED
      BY <1>3, <1>4, <1>7, <2>1
      DEF Within, Trailer, ST_SIZE, ST_EXT, ST_EXPECT_LF, ST_DATA, ST_DATA_CR,
          ST_DATA_LF, ST_TRAIL_HEAD, ST_TRAIL_MID
  <1>9. err' = "none"
    BY <1>1, ModeInLoop
  <1>. QED
    BY <1>3, <1>8, <1>9, GoesOn

(* The line break of a size line: the chunk is open, or it was the last. *)
LEMMA HeaderLFReads == ASSUME SInv, Work, HeaderLF, Reads PROVE Reads'
  <1>1. /\ pc = "loop" /\ src < Len(buf) /\ src' = src + 1 /\ buf' = buf
        /\ dst' = dst /\ st = ST_EXPECT_LF /\ left' = left /\ Current = LF
        /\ \/ left # 0 /\ st' = ST_DATA /\ err' = err
           \/ left = 0 /\ dec.consume_trailer /\ st' = ST_TRAIL_HEAD /\ err' = err
           \/ left = 0 /\ ~dec.consume_trailer /\ err' = "complete"
    BY DEF HeaderLF, At, Break, Frame
  <1>2. PICK at, got, e, k : Within(at, got, e, k)
    BY <1>1, Place
  <1>3. /\ stream' = stream /\ dec' = dec /\ fed' = fed /\ verdict' = "more"
        /\ Position' = Position + 1 /\ Collected' = Collected
        /\ Position \in Nat /\ Position + 1 <= fed /\ fed \in Nat
        /\ fed <= Len(stream) /\ Len(stream) \in Nat /\ stream \in Seq(Byte)
        /\ Current = stream[Position + 1]
    BY <1>1, ReadByte
  <1>4. /\ at \in 1 .. Position + 1 /\ got \in Seq(Byte) /\ e \in Nat
        /\ Follows(stream, dec.consume_trailer, at, got)
        /\ Sized(stream, at, e) /\ e <= fed /\ left = Value(stream, at, e)
        /\ Collected = got
        /\ e <= Position /\ Unbroken(stream, e, Position - 1)
        /\ stream[Position] = CR
    BY <1>1, <1>2 DEF Within, InLine, ST_EXT, ST_EXPECT_LF
  <1>0. PICK p \in Nat : p = Position
    BY <1>3
  <1>5. Opened(stream, at, e, p)
    BY <1>0, <1>1, <1>3, <1>4 DEF Opened
  <1>6. at \in Nat \ {0} /\ at < e /\ e \in Nat \ {0} /\ left \in Nat
    BY <1>1, <1>4, InLoop DEF Sized, SInv
  <1>7. at \in 1 .. Position' + 1 /\ p + 1 <= Position'
    BY <1>0, <1>3, <1>4
  <1>8. CASE left # 0 /\ st' = ST_DATA /\ err' = err
    <2>1. SubSeq(stream, p + 2, p + 1) = << >>
      <3>1. p + 1 < p + 2 /\ p + 1 \in Int /\ p + 2 \in Int
        BY <1>0, <1>3
      <3>. QED
        BY <3>1, SubSeqEmpty
    <2>2. got \o << >> = got
      BY <1>4
    <2>3. InData(at, got, e, p)'
      <3>1. left = (p + 1) - (p + 1) + left
        BY <1>0, <1>3, <1>6
      <3>. QED
        BY <1>1, <1>0, <1>3, <1>4, <2>1, <2>2, <3>1 DEF InData
    <2>4. Within(at, got, e, p)'
      BY <1>0, <1>3, <1>4, <1>5, <1>7, <1>8, <2>3
      DEF Within, Trailer, ST_SIZE, ST_EXT, ST_EXPECT_LF, ST_DATA, ST_DATA_CR,
          ST_DATA_LF, ST_TRAIL_HEAD, ST_TRAIL_MID
    <2>5. err' = "none"
      BY <1>1, <1>8, ModeInLoop
    <2>. QED
      BY <1>0, <1>3, <2>4, <2>5, GoesOn
  <1>9. CASE left = 0 /\ st' = ST_TRAIL_HEAD /\ err' = err
    <2>1. \A i \in p + 2 .. p + 1 : FALSE
      BY <1>0, <1>3
    <2>2. p + 2 \in p + 2 .. (p + 1) + 1
      BY <1>0, <1>3
    <2>3. \E b \in p + 2 .. (p + 1) + 1 :
            /\ b = p + 2 \/ stream[b - 1] = LF
            /\ \A i \in b .. p + 1 : stream[i] = CR
      BY <2>1, <2>2
    <2>4. InTrailers(at, got, e, p)'
      BY <1>0, <1>3, <1>4, <1>9, <2>1, <2>3
      DEF InTrailers, ST_TRAIL_HEAD, ST_TRAIL_MID
    <2>5. Within(at, got, e, p)'
      BY <1>0, <1>3, <1>4, <1>5, <1>7, <1>9, <2>4
      DEF Within, Trailer, ST_SIZE, ST_EXT, ST_EXPECT_LF, ST_DATA, ST_DATA_CR,
          ST_DATA_LF, ST_TRAIL_HEAD, ST_TRAIL_MID
    <2>6. err' = "none"
      BY <1>1, <1>9, ModeInLoop
    <2>. QED
      BY <1>0, <1>3, <2>5, <2>6, GoesOn
  <1>10. CASE left = 0 /\ ~dec.consume_trailer /\ err' = "complete"
    <2>. DEFINE t == dec.consume_trailer
                end == Says("complete", << >>, Position + 1, 0)
    <2>1. ASSUME NEW n \in fed .. Len(stream)
          PROVE  Rd(stream, n, t, at) = end
      <3>1. /\ n \in 0 .. Len(stream) /\ at \in 1 .. n /\ e \in 1 .. n
            /\ Position \in 1 .. n - 1
        BY <1>3, <1>4, <1>6
      <3>2. Rd(stream, n, t, at)
              = IF t THEN Trailers(Pre(stream, n), Position + 2) ELSE end
        BY <1>0, <1>3, <1>4, <1>5, <1>10, <3>1, RdLast
      <3>. QED
        BY <1>10, <3>2
    <2>2. Then(got, end) = Says("complete", Collected', Position', 0)
      BY <1>3, <1>4, ThenEnds
    <2>3. at - 1 <= fed /\ at - 1 \in Int
      BY <1>3, <1>4
    <2>4. err' # "malformed" /\ err' \in {"malformed", "complete"}
      BY <1>10
    <2>. HIDE DEF end
    <2>. QED
      BY <1>3, <1>4, <2>1, <2>2, <2>3, <2>4, Decides
  <1>. QED
    BY <1>1, <1>8, <1>9, <1>10

(* The indices of a chunk whose line has been read. *)
LEMMA OpenedAt ==
  ASSUME NEW s, NEW at \in Nat \ {0}, NEW e \in Nat, NEW l \in Nat,
         NEW n \in Nat, Opened(s, at, e, l), l + 1 <= n
  PROVE  at \in 1 .. n /\ e \in 1 .. n /\ l \in 1 .. n - 1 /\ l \in Nat \ {0}
  BY DEF Opened, Sized

(* A line break that is not one: in the line of a chunk, and after its data. *)
LEMMA BadLineReads ==
  ASSUME SInv, Work, BadLineBreak, Reads, st \in {ST_EXT, ST_EXPECT_LF}
  PROVE  Reads'
  <1>1. /\ pc = "loop" /\ src < Len(buf) /\ src' = src /\ buf' = buf
        /\ dst' = dst /\ err' = "malformed"
        /\ st = ST_EXT => Current = LF
        /\ st = ST_EXPECT_LF => Current # LF
    BY DEF BadLineBreak, At, Frame, Break, ST_EXT, ST_EXPECT_LF, ST_DATA_CR, ST_DATA_LF
  <1>2. PICK at, got, e, k : Within(at, got, e, k)
    BY <1>1, Place
  <1>3. /\ stream' = stream /\ dec' = dec /\ fed' = fed
        /\ Position' = Position /\ Collected' = Collected
        /\ Position \in Nat /\ Position + 1 <= fed /\ fed \in Nat
        /\ fed <= Len(stream) /\ Len(stream) \in Nat /\ stream \in Seq(Byte)
        /\ Current = stream[Position + 1]
    BY <1>1, ReadNone
  <1>4. /\ at \in 1 .. Position + 1 /\ got \in Seq(Byte) /\ e \in Nat
        /\ Follows(stream, dec.consume_trailer, at, got)
        /\ Sized(stream, at, e) /\ e <= fed /\ Collected = got
        /\ st = ST_EXT => e <= Position + 1 /\ Unbroken(stream, e, Position)
        /\ st = ST_EXPECT_LF =>
             /\ e <= Position /\ Unbroken(stream, e, Position - 1)
             /\ stream[Position] = CR
    BY <1>2 DEF Within, InLine, ST_EXT, ST_EXPECT_LF
  <1>5. PICK l \in Nat :
          /\ e <= l /\ l <= fed /\ Unbroken(stream, e, l - 1)
          /\ stream[l] = LF \/ (stream[l] = CR /\ l < fed /\ stream[l + 1] # LF)
    <2>1. CASE st = ST_EXT
      <3>1. /\ Position + 1 \in Nat /\ e <= Position + 1 /\ (Position + 1) - 1 = Position
            /\ stream[Position + 1] = LF
        BY <1>1, <1>3, <1>4, <2>1
      <3>2. Unbroken(stream, e, (Position + 1) - 1)
        BY <1>4, <2>1, <3>1
      <3>. QED
        BY <1>3, <3>1, <3>2
    <2>2. CASE st = ST_EXPECT_LF
      BY <1>1, <1>3, <1>4, <2>2
    <2>. QED
      BY <2>1, <2>2
  <1>6. ASSUME NEW n \in fed .. Len(stream)
        PROVE  Rd(stream, n, dec.consume_trailer, at) = Failed(<< >>)
    <2>1. /\ n \in 0 .. Len(stream) /\ at \in 1 .. n /\ e \in 1 .. n /\ l \in e .. n
          /\ fed <= n /\ n \in Nat
      BY <1>3, <1>4, <1>5 DEF Sized
    <2>2. stream[l] = LF \/ (stream[l] = CR /\ l < n /\ stream[l + 1] # LF)
      BY <1>3, <1>5, <2>1
    <2>. QED
      BY <1>3, <1>4, <1>5, <2>1, <2>2, RdLineBad
  <1>7. Then(got, Failed(<< >>)) = Failed(Collected')
    BY <1>3, <1>4, ThenEnds
  <1>8. at - 1 <= fed /\ at - 1 \in Int /\ err' # "complete"
        /\ err' \in {"malformed", "complete"}
    BY <1>1, <1>3, <1>4
  <1>. QED
    BY <1>3, <1>4, <1>6, <1>7, <1>8, Decides

LEMMA BadDataEndReads ==
  ASSUME SInv, Work, BadLineBreak, Reads, st \in {ST_DATA_CR, ST_DATA_LF}
  PROVE  Reads'
  <1>1. /\ pc = "loop" /\ src < Len(buf) /\ src' = src /\ buf' = buf
        /\ dst' = dst /\ err' = "malformed"
        /\ st = ST_DATA_CR => Current # CR
        /\ st = ST_DATA_LF => Current # LF
    BY DEF BadLineBreak, At, Frame, Break, ST_EXT, ST_EXPECT_LF, ST_DATA_CR, ST_DATA_LF
  <1>2. PICK at, got, e, l : Within(at, got, e, l)
    BY <1>1, Place
  <1>3. /\ stream' = stream /\ dec' = dec /\ fed' = fed
        /\ Position' = Position /\ Collected' = Collected
        /\ Position \in Nat /\ Position + 1 <= fed /\ fed \in Nat
        /\ fed <= Len(stream) /\ Len(stream) \in Nat /\ stream \in Seq(Byte)
        /\ Current = stream[Position + 1]
    BY <1>1, ReadNone
  <1>4. /\ at \in 1 .. Position + 1 /\ got \in Seq(Byte) /\ e \in Nat /\ l \in Nat
        /\ Follows(stream, dec.consume_trailer, at, got)
        /\ Opened(stream, at, e, l) /\ l + 1 <= Position
        /\ AfterData(at, got, e, l)
    BY <1>2 DEF Within
  <1>9. /\ Value(stream, at, e) > 0
        /\ Collected = got \o SubSeq(stream, l + 2, l + 1 + Value(stream, at, e))
        /\ st = ST_DATA_CR => Position = l + 1 + Value(stream, at, e)
        /\ st = ST_DATA_LF => Position = l + 1 + Value(stream, at, e) + 1
    BY <1>4 DEF AfterData, ST_DATA_CR, ST_DATA_LF
  <1>10. at \in Nat \ {0} /\ l \in Nat /\ l + 1 <= fed
    BY <1>3, <1>4
  <1>11. Value(stream, at, e) \in Nat
    <2>1. at \in 1 .. fed /\ e \in 1 .. fed /\ l \in 1 .. fed - 1
      BY <1>3, <1>4, <1>10, OpenedAt
    <2>2. fed \in 0 .. Len(stream)
      BY <1>3
    <2>. QED
      BY <1>3, <1>4, <2>1, <2>2, RdOpened
  <1>12. PICK m \in Nat : m = l + 1 + Value(stream, at, e)
    BY <1>4, <1>11
  <1>13. PICK data : data = SubSeq(stream, l + 2, m)
    OBVIOUS
  <1>5. /\ m + 1 <= fed /\ Collected = got \o data
        /\ st = ST_DATA_CR => stream[m + 1] # CR
        /\ st = ST_DATA_LF => stream[m + 2] # LF /\ m + 2 <= fed
    BY <1>1, <1>3, <1>9, <1>12, <1>13
  <1>6. ASSUME NEW n \in fed .. Len(stream)
        PROVE  Rd(stream, n, dec.consume_trailer, at) = Failed(data)
    <2>1. n \in 0 .. Len(stream) /\ n \in Nat /\ l + 1 <= n /\ m <= n /\ m + 1 <= n
          /\ fed <= n
      BY <1>3, <1>5, <1>10
    <2>2. at \in 1 .. n /\ e \in 1 .. n /\ l \in 1 .. n - 1
      BY <1>4, <1>10, <2>1, OpenedAt
    <2>3. (n > m /\ stream[m + 1] # CR) \/ (n > m + 1 /\ stream[m + 2] # LF)
      BY <1>3, <1>5, <2>1
    <2>4. Rd(stream, n, dec.consume_trailer, at) = Failed(SubSeq(stream, l + 2, m))
      BY <1>3, <1>4, <1>9, <1>12, <2>1, <2>2, <2>3, RdDataBad
    <2>. QED
      BY <1>13, <2>4
  <1>7. Then(got, Failed(data)) = Failed(Collected')
    BY <1>3, <1>4, <1>5, ThenEnds
  <1>8. at - 1 <= fed /\ at - 1 \in Int /\ err' # "complete"
        /\ err' \in {"malformed", "complete"}
    BY <1>1, <1>3, <1>4
  <1>. QED
    BY <1>3, <1>4, <1>6, <1>7, <1>8, Decides

LEMMA BadLineBreakReads == ASSUME SInv, Work, BadLineBreak, Reads PROVE Reads'
  BY BadLineReads, BadDataEndReads DEF BadLineBreak, At

(* Adjacent pieces of a sequence. *)
LEMMA Slices ==
  ASSUME NEW s \in Seq(Byte), NEW a \in Nat, NEW m \in Nat, NEW n \in Nat,
         a + m + n <= Len(s)
  PROVE  /\ SubSeq(s, a + 1, a + m) \o SubSeq(s, a + m + 1, a + m + n)
              = SubSeq(s, a + 1, a + m + n)
         /\ SubSeq(s, a + 1, a + m) \in Seq(Byte)
         /\ SubSeq(s, a + m + 1, a + m + n) \in Seq(Byte)
  <1>. DEFINE b == a + m
              k == m + n
              u == SubSeq(s, a + 1, a + m)
              v == SubSeq(s, b + 1, b + n)
              w == SubSeq(s, a + 1, a + k)
  <1>0. b \in Nat /\ k \in Nat /\ Len(s) \in Nat /\ b + n = a + m + n /\ a + k = a + m + n
    OBVIOUS
  <1>1. /\ \A i \in a + 1 .. a + m : s[i] \in Byte
        /\ \A i \in b + 1 .. b + n : s[i] \in Byte
        /\ \A i \in a + 1 .. a + k : s[i] \in Byte
    BY <1>0
  <1>2. u \in Seq(Byte) /\ Len(u) = m /\ \A i \in 1 .. m : u[i] = s[a + i]
    BY <1>1, SliceOf
  <1>. HIDE DEF b, k
  <1>3. v \in Seq(Byte) /\ Len(v) = n /\ \A i \in 1 .. n : v[i] = s[b + i]
    BY <1>0, <1>1, SliceOf
  <1>4. w \in Seq(Byte) /\ Len(w) = k /\ \A i \in 1 .. k : w[i] = s[a + i]
    BY <1>0, <1>1, SliceOf
  <1>. HIDE DEF u, v, w
  <1>5. /\ Len(w) = Len(u) + Len(v)
        /\ \A i \in 1 .. Len(u) : w[i] = u[i]
        /\ \A i \in 1 .. Len(v) : w[Len(u) + i] = v[i]
    <2>1. k = m + n /\ b = a + m
      BY DEF k, b
    <2>2. \A i \in 1 .. m : i \in 1 .. k
      BY <1>0, <2>1
    <2>3. \A i \in 1 .. n : m + i \in 1 .. k /\ a + (m + i) = b + i
      BY <1>0, <2>1
    <2>4. \A i \in 1 .. n : w[m + i] = s[b + i]
      BY <1>4, <2>3
    <2>. QED
      BY <1>2, <1>3, <1>4, <2>1, <2>2, <2>4
  <1>6. w = u \o v
    BY <1>2, <1>3, <1>4, <1>5, Joined
  <1>7. w = SubSeq(s, a + 1, a + m + n) /\ v = SubSeq(s, a + m + 1, a + m + n)
    BY <1>0 DEF w, v, b
  <1>. QED
    BY <1>2, <1>3, <1>6, <1>7 DEF u

(* Data moved: n more bytes of the chunk have been collected. *)
LEMMA TakesData ==
  ASSUME SInv, Work, Reads, pc = "loop", st = ST_DATA,
         NEW n \in Nat, n <= left, n <= Len(buf) - src, TakeData(n)
  PROVE  \E at, got, e, l :
           /\ at \in 1 .. Position' + 1 /\ got \in Seq(Byte) /\ e \in Nat /\ l \in Nat
           /\ Follows(stream, dec.consume_trailer, at, got)
           /\ Opened(stream, at, e, l) /\ l + 1 <= Position'
           /\ Value(stream, at, e) > 0
           /\ Value(stream, at, e) = Position' - (l + 1) + left'
           /\ Collected' = got \o SubSeq(stream, l + 2, Position')
           /\ stream' = stream /\ dec' = dec /\ verdict' = "more"
           /\ left' = left - n /\ left \in Nat /\ Position' \in Nat
  <1>1. PICK at, got, e, l : Within(at, got, e, l)
    BY Place
  <1>2. /\ stream' = stream /\ dec' = dec
        /\ n <= Len(stream) - Position /\ Position' = Position + n
        /\ Collected' = Collected \o SubSeq(stream, Position + 1, Position + n)
    BY PayloadMoves
  <1>3. /\ Position \in Nat /\ Len(stream) \in Nat /\ stream \in Seq(Byte)
        /\ verdict' = "more"
    BY PositionInStream, ModeInLoop DEF Work, session
  <1>4. left \in Nat /\ left > 0 /\ left' = left - n
    BY InLoop DEF SInv, TakeData, SizeMatchesState
  <1>5. /\ at \in 1 .. Position + 1 /\ got \in Seq(Byte) /\ e \in Nat /\ l \in Nat
        /\ Follows(stream, dec.consume_trailer, at, got)
        /\ Opened(stream, at, e, l) /\ l + 1 <= Position
        /\ Value(stream, at, e) = Position - (l + 1) + left
        /\ Collected = got \o SubSeq(stream, l + 2, Position)
    BY <1>1 DEF Within, InData
  <1>6. PICK a \in Nat, m \in Nat : a = l + 1 /\ a + m = Position
    <2>1. l + 1 \in Nat /\ Position - (l + 1) \in Nat /\ (l + 1) + (Position - (l + 1)) = Position
      BY <1>3, <1>5
    <2>. QED
      BY <2>1
  <1>7. PICK u, v, w : /\ u = SubSeq(stream, a + 1, a + m)
                       /\ v = SubSeq(stream, a + m + 1, a + m + n)
                       /\ w = SubSeq(stream, a + 1, a + m + n)
    OBVIOUS
  <1>8. u \o v = w /\ u \in Seq(Byte) /\ v \in Seq(Byte)
    <2>1. a + m + n <= Len(stream)
      BY <1>2, <1>3, <1>6
    <2>. QED
      BY <1>3, <1>7, <2>1, Slices
  <1>9. Collected' = (got \o u) \o v
    <2>1. l + 2 = a + 1
      BY <1>5, <1>6
    <2>. QED
      BY <1>2, <1>5, <1>6, <1>7, <2>1
  <1>10. Collected' = got \o w
    <2>1. got \o (u \o v) = (got \o u) \o v
      <3>1. got \in Seq(Byte) /\ u \in Seq(Byte) /\ v \in Seq(Byte)
        BY <1>5, <1>8
      <3>. QED
        BY <3>1, Appended
    <2>. QED
      BY <1>8, <1>9, <2>1
  <1>11. w = SubSeq(stream, l + 2, Position')
    <2>1. l + 2 = a + 1 /\ Position' = a + m + n
      BY <1>2, <1>5, <1>6
    <2>. QED
      BY <1>7, <2>1
  <1>12. /\ Value(stream, at, e) > 0
         /\ Value(stream, at, e) = Position' - (l + 1) + left'
         /\ at \in 1 .. Position' + 1 /\ l + 1 <= Position' /\ Position' \in Nat
    BY <1>2, <1>3, <1>4, <1>5
  <1>. QED
    BY <1>2, <1>3, <1>4, <1>5, <1>10, <1>11, <1>12

LEMMA DataShortReads == ASSUME SInv, Work, DataShort, Reads PROVE Reads'
  <1>1. /\ pc = "loop" /\ st = ST_DATA /\ st' = ST_DATA /\ err' = "partial"
        /\ Len(buf) - src < left /\ TakeData(Len(buf) - src)
    BY InLoop DEF SInv, DataShort, ChunkFits, Break
  <1>2. PICK n \in Nat : n = Len(buf) - src /\ n <= left /\ TakeData(n)
    <2>1. Len(buf) - src \in Nat /\ Len(buf) - src <= left
      BY <1>1, InLoop DEF SInv
    <2>. QED
      BY <1>1, <2>1
  <1>6. n <= Len(buf) - src
    BY <1>2
  <1>3. PICK at, got, e, l :
          /\ at \in 1 .. Position' + 1 /\ got \in Seq(Byte) /\ e \in Nat /\ l \in Nat
          /\ Follows(stream, dec.consume_trailer, at, got)
          /\ Opened(stream, at, e, l) /\ l + 1 <= Position'
          /\ Value(stream, at, e) = Position' - (l + 1) + left'
          /\ Collected' = got \o SubSeq(stream, l + 2, Position')
          /\ stream' = stream /\ dec' = dec /\ verdict' = "more"
    BY <1>1, <1>2, <1>6, TakesData
  <1>4. InData(at, got, e, l)'
    BY <1>3 DEF InData
  <1>5. Within(at, got, e, l)'
    BY <1>1, <1>3, <1>4
    DEF Within, Trailer, ST_SIZE, ST_EXT, ST_EXPECT_LF, ST_DATA, ST_DATA_CR,
        ST_DATA_LF, ST_TRAIL_HEAD, ST_TRAIL_MID
  <1>. QED
    BY <1>1, <1>3, <1>5, GoesOn

LEMMA DataFullReads == ASSUME SInv, Work, DataFull, Reads PROVE Reads'
  <1>1. /\ pc = "loop" /\ st = ST_DATA /\ st' = ST_DATA_CR /\ err' = err
        /\ Len(buf) - src >= left /\ TakeData(left)
    BY DEF DataFull, ChunkFits
  <1>2. left \in Nat /\ left <= Len(buf) - src /\ left <= left /\ err = "none"
    BY <1>1, InLoop DEF SInv
  <1>3. PICK at, got, e, l :
          /\ at \in 1 .. Position' + 1 /\ got \in Seq(Byte) /\ e \in Nat /\ l \in Nat
          /\ Follows(stream, dec.consume_trailer, at, got)
          /\ Opened(stream, at, e, l) /\ l + 1 <= Position'
          /\ Value(stream, at, e) > 0
          /\ Value(stream, at, e) = Position' - (l + 1) + left'
          /\ Collected' = got \o SubSeq(stream, l + 2, Position')
          /\ stream' = stream /\ dec' = dec /\ verdict' = "more"
          /\ left' = left - left /\ Position' \in Nat
    BY <1>1, <1>2, TakesData
  <1>4. Position' = l + 1 + Value(stream, at, e)
    <2>1. left' = 0
      BY <1>2, <1>3
    <2>. QED
      BY <1>3, <2>1
  <1>5. AfterData(at, got, e, l)'
    BY <1>1, <1>3, <1>4 DEF AfterData
  <1>6. Within(at, got, e, l)'
    <2>1. /\ st' = ST_DATA_CR /\ at \in 1 .. Position' + 1 /\ got \in Seq(Byte)
          /\ e \in Nat /\ l \in Nat /\ stream' = stream
          /\ dec'.consume_trailer = dec.consume_trailer
          /\ Follows(stream, dec.consume_trailer, at, got)
          /\ Opened(stream, at, e, l) /\ l + 1 <= Position'
      BY <1>1, <1>3
    <2>. QED
      BY <2>1, <1>5
      DEF Within, Trailer, ST_SIZE, ST_EXT, ST_EXPECT_LF, ST_DATA, ST_DATA_CR,
          ST_DATA_LF, ST_TRAIL_HEAD, ST_TRAIL_MID
  <1>. QED
    BY <1>1, <1>2, <1>3, <1>6, GoesOn

(* The CR after the data, and the LF: the next chunk begins behind it. *)
LEMMA DataCRReads ==
  ASSUME SInv, Work, DataEnd, Reads, st = ST_DATA_CR
  PROVE  Reads'
  <1>1. /\ pc = "loop" /\ src < Len(buf) /\ src' = src + 1 /\ buf' = buf
        /\ dst' = dst /\ st' = ST_DATA_LF /\ err' = err /\ Current = CR
    BY DEF DataEnd, At, SkipTo, Frame, ST_DATA_CR, ST_DATA_LF
  <1>2. PICK at, got, e, l : Within(at, got, e, l)
    BY <1>1, Place
  <1>3. /\ stream' = stream /\ dec' = dec /\ verdict' = "more"
        /\ Position' = Position + 1 /\ Collected' = Collected
        /\ Position \in Nat /\ Current = stream[Position + 1]
    BY <1>1, ReadByte
  <1>4. /\ at \in 1 .. Position + 1 /\ got \in Seq(Byte) /\ e \in Nat /\ l \in Nat
        /\ Follows(stream, dec.consume_trailer, at, got)
        /\ Opened(stream, at, e, l) /\ l + 1 <= Position
        /\ AfterData(at, got, e, l)
    BY <1>2 DEF Within
  <1>5. AfterData(at, got, e, l)'
    BY <1>1, <1>3, <1>4 DEF AfterData, ST_DATA_CR, ST_DATA_LF
  <1>6. Within(at, got, e, l)'
    <2>1. /\ st' = ST_DATA_LF /\ at \in 1 .. Position' + 1 /\ stream' = stream
          /\ dec'.consume_trailer = dec.consume_trailer /\ l + 1 <= Position'
      BY <1>1, <1>3, <1>4
    <2>. QED
      BY <1>4, <1>5, <2>1
      DEF Within, Trailer, ST_SIZE, ST_EXT, ST_EXPECT_LF, ST_DATA, ST_DATA_CR,
          ST_DATA_LF, ST_TRAIL_HEAD, ST_TRAIL_MID
  <1>7. err' = "none"
    BY <1>1, ModeInLoop
  <1>. QED
    BY <1>3, <1>6, <1>7, GoesOn

LEMMA DataLFReads ==
  ASSUME SInv, Work, DataEnd, Reads, st = ST_DATA_LF
  PROVE  Reads'
  <1>1. /\ pc = "loop" /\ src < Len(buf) /\ src' = src + 1 /\ buf' = buf
        /\ dst' = dst /\ st' = ST_SIZE /\ err' = err /\ Current = LF
        /\ left' = left /\ hex' = hex
    BY DEF DataEnd, At, SkipTo, Frame, ST_DATA_CR, ST_DATA_LF
  <1>2. PICK at, got, e, l : Within(at, got, e, l)
    BY <1>1, Place
  <1>3. /\ stream' = stream /\ dec' = dec /\ verdict' = "more"
        /\ Position' = Position + 1 /\ Collected' = Collected
        /\ Position \in Nat /\ Current = stream[Position + 1]
        /\ Position + 1 <= fed /\ fed \in Nat /\ fed <= Len(stream)
        /\ Len(stream) \in Nat
        /\ stream \in Seq(Byte) /\ Collected \in Seq(Byte)
    BY <1>1, ReadByte
  <1>4. /\ at \in 1 .. Position + 1 /\ got \in Seq(Byte) /\ e \in Nat /\ l \in Nat
        /\ Follows(stream, dec.consume_trailer, at, got)
        /\ Opened(stream, at, e, l) /\ l + 1 <= Position
        /\ AfterData(at, got, e, l)
    BY <1>1, <1>2 DEF Within
  <1>5. /\ Value(stream, at, e) > 0
        /\ Collected = got \o SubSeq(stream, l + 2, l + 1 + Value(stream, at, e))
        /\ Position = l + 1 + Value(stream, at, e) + 1 /\ stream[Position] = CR
    BY <1>4 DEF AfterData, ST_DATA_CR, ST_DATA_LF
  <1>6. at \in Nat \ {0} /\ Position \in 0 .. Len(stream)
    BY <1>3, <1>4
  <1>7. Value(stream, at, e) \in Nat
    <2>1. at \in 1 .. Position /\ e \in 1 .. Position /\ l \in 1 .. Position - 1
      BY <1>3, <1>4, <1>6, OpenedAt
    <2>. QED
      BY <1>3, <1>4, <1>6, <2>1, RdOpened
  <1>parts. PICK m \in Nat, next \in Nat :
              m = l + 1 + Value(stream, at, e) /\ next = m + 3
    <2>1. l + 1 + Value(stream, at, e) \in Nat /\ (l + 1 + Value(stream, at, e)) + 3 \in Nat
      BY <1>4, <1>7
    <2>. QED
      BY <2>1
  <1>8. PICK data : /\ m = l + 1 + Value(stream, at, e) /\ next = m + 3
                    /\ data = SubSeq(stream, l + 2, m)
    BY <1>parts
  <1>9. /\ Position = m + 1 /\ m + 2 <= Len(stream) /\ next = Position' + 1 /\ l + 1 <= m
        /\ stream[m + 1] = CR /\ stream[m + 2] = LF /\ Collected = got \o data
    <2>1. PICK size \in Nat : size = Value(stream, at, e)
      BY <1>7
    <2>2. /\ m = l + 1 + size /\ Position = m + 1 /\ Position + 1 = m + 2
          /\ next = m + 3 /\ Position' = m + 2 /\ l + 1 <= m
      <3>1. m = l + 1 + size /\ next = m + 3
        BY <1>8, <2>1
      <3>2. Position = l + 1 + size + 1
        BY <1>5, <2>1
      <3>3. Position' = Position + 1 /\ l \in Nat
        BY <1>3, <1>4
      <3>. QED
        BY <3>1, <3>2, <3>3
    <2>3. m + 2 <= Len(stream) /\ next = Position' + 1 /\ l + 1 <= m
      <3>1. Position + 1 <= fed /\ fed \in Nat /\ fed <= Len(stream) /\ Len(stream) \in Nat
        BY <1>3
      <3>. QED
        BY <2>2, <3>1
    <2>4. stream[m + 1] = CR /\ stream[m + 2] = LF
      BY <1>1, <1>3, <1>5, <2>2
    <2>5. Collected = got \o data
      BY <1>5, <1>8
    <2>. QED
      BY <2>2, <2>3, <2>4, <2>5
  <1>10. data \in Seq(Byte)
    <2>1. \A i \in l + 2 .. m : stream[i] \in Byte
      BY <1>3, <1>4, <1>9
    <2>2. l + 2 \in Int /\ m \in Int
      BY <1>4
    <2>. QED
      BY <1>8, <2>1, <2>2, SubSeqProperties
  <1>11. PICK t : t = dec.consume_trailer
    OBVIOUS
  <1>12. ASSUME NEW n \in next - 1 .. Len(stream)
         PROVE  Rd(stream, n, t, 1) = Then(Collected, Rd(stream, n, t, next))
    <2>1. /\ n \in 0 .. Len(stream) /\ n \in Nat /\ l + 1 <= n /\ m <= n
          /\ n > m + 1 /\ n \in at - 1 .. Len(stream) /\ next \in 1 .. n + 1
      <3>1. next = m + 3 /\ Position = m + 1 /\ l + 1 <= m /\ Len(stream) \in Nat
            /\ at \in 1 .. Position + 1 /\ l \in Nat
        BY <1>3, <1>4, <1>8, <1>9
      <3>2. n \in Nat /\ n <= Len(stream) /\ m + 2 <= n
        BY <3>1
      <3>. QED
        BY <3>1, <3>2
    <2>2. at \in 1 .. n /\ e \in 1 .. n /\ l \in 1 .. n - 1
      BY <1>4, <1>6, <2>1, OpenedAt
    <2>3. Rd(stream, n, t, at) = Then(SubSeq(stream, l + 2, m), Rd(stream, n, t, m + 3))
      <3>1. m = l + 1 + Value(stream, at, e) /\ Value(stream, at, e) > 0
        BY <1>5, <1>8
      <3>2. n > m + 1 /\ stream[m + 1] = CR /\ stream[m + 2] = LF
        BY <1>9, <2>1
      <3>. QED
        <4>1. stream \in Seq(Byte) /\ Opened(stream, at, e, l)
              /\ n \in 0 .. Len(stream) /\ m <= n
          BY <1>3, <1>4, <2>1
        <4>. QED
          BY <2>2, <3>1, <3>2, <4>1, RdDataEnds
    <2>4. Rd(stream, n, t, 1) = Then(got, Rd(stream, n, t, at))
      BY <1>4, <1>11, <2>1 DEF Follows
    <2>5. PICK r : r = Rd(stream, n, t, next)
      OBVIOUS
    <2>6. r.body \in Seq(Byte)
      BY <1>3, <2>1, <2>5, RdIs
    <2>7. Then(got, Then(data, r)) = Then(got \o data, r)
      BY <1>4, <1>10, <2>6, ThenThen
    <2>. QED
      BY <1>8, <1>9, <2>3, <2>4, <2>5, <2>7
  <1>13. PICK c \in Seq(Byte) : c = Collected
    BY <1>3
  <1>14. Follows(stream, t, next, c)
    BY <1>12, <1>13 DEF Follows
  <1>15. left = 0 /\ hex = 0 /\ err = "none"
    <2>1. SizeMatchesState(st, left, hex) /\ err = "none"
      BY <1>1, InLoop DEF SInv
    <2>. QED
      BY <2>1
      DEF SizeMatchesState, Trailer, ST_SIZE, ST_DATA, ST_DATA_CR, ST_DATA_LF,
          ST_TRAIL_HEAD, ST_TRAIL_MID
  <1>16. InSize(next, c)'
    <2>1. AllDigits(stream, next, Position')
      BY <1>3, <1>9 DEF AllDigits
    <2>2. Value(stream, next, Position' + 1) = 0
      <3>1. SubSeq(stream, next, next - 1) = << >>
        <4>1. next - 1 < next /\ next \in Int /\ next - 1 \in Int
          BY <1>8
        <4>. QED
          BY <4>1, SubSeqEmpty
      <3>. QED
        BY <1>9, <3>1, NumberEmpty DEF Value
    <2>3. Position' + 1 - next = 0
      BY <1>3, <1>9
    <2>. QED
      BY <1>1, <1>3, <1>13, <1>15, <2>1, <2>2, <2>3 DEF InSize
  <1>17. Within(next, c, 0, 0)'
    <2>1. st' = ST_SIZE /\ next \in 1 .. Position' + 1
      <3>1. next \in Nat /\ next = m + 3 /\ next = Position' + 1
        BY <1>8, <1>9
      <3>. QED
        BY <1>1, <3>1
    <2>2. Follows(stream, dec.consume_trailer, next, c)'
      BY <1>3, <1>11, <1>14
    <2>. QED
      BY <1>13, <1>16, <2>1, <2>2
      DEF Within, Trailer, ST_SIZE, ST_EXT, ST_EXPECT_LF, ST_DATA, ST_DATA_CR,
          ST_DATA_LF, ST_TRAIL_HEAD, ST_TRAIL_MID
  <1>. QED
    BY <1>1, <1>3, <1>15, <1>17, GoesOn

LEMMA DataEndReads == ASSUME SInv, Work, DataEnd, Reads PROVE Reads'
  BY DataCRReads, DataLFReads DEF DataEnd, At

(* A byte of the trailer lines that does not end them. *)
LEMMA TrailLineReads == ASSUME SInv, Work, TrailLine, Reads PROVE Reads'
  <1>1. /\ pc = "loop" /\ src < Len(buf) /\ src' = src + 1 /\ buf' = buf
        /\ dst' = dst /\ err' = err /\ st \in Trailer /\ st' \in Trailer
        /\ \/ st = ST_TRAIL_HEAD /\ Current = CR /\ st' = ST_TRAIL_HEAD
           \/ st = ST_TRAIL_HEAD /\ Current \notin {CR, LF} /\ st' = ST_TRAIL_MID
           \/ st = ST_TRAIL_MID /\ Current # LF /\ st' = ST_TRAIL_MID
           \/ st = ST_TRAIL_MID /\ Current = LF /\ st' = ST_TRAIL_HEAD
    BY DEF TrailLine, At, SkipTo, Frame, Trailer
  <1>2. PICK at, got, e, l : Within(at, got, e, l)
    BY <1>1, Place
  <1>3. /\ stream' = stream /\ dec' = dec /\ verdict' = "more"
        /\ Position' = Position + 1 /\ Collected' = Collected
        /\ Position \in Nat /\ Current = stream[Position + 1]
    BY <1>1, ReadByte
  <1>4. /\ at \in 1 .. Position + 1 /\ got \in Seq(Byte) /\ e \in Nat /\ l \in Nat
        /\ Follows(stream, dec.consume_trailer, at, got)
        /\ Opened(stream, at, e, l) /\ l + 1 <= Position
        /\ InTrailers(at, got, e, l)
    BY <1>1, <1>2 DEF Within
  <1>5. PICK p \in Nat : p = Position + 1
    BY <1>3
  <1>6. ~EndsTrailers(stream, l + 2, p)
    <2>1. CASE Current # LF
      BY <1>3, <1>5, <2>1 DEF EndsTrailers
    <2>2. CASE Current = LF
      <3>1. st = ST_TRAIL_MID
        BY <1>1, <2>2 DEF CR, LF
      <3>2. PICK b \in l + 2 .. Position :
              stream[b] # CR /\ \A i \in b .. Position : stream[i] # LF
        BY <1>4, <3>1 DEF InTrailers
      <3>3. ASSUME NEW c \in l + 2 .. p, c = l + 2 \/ stream[c - 1] = LF,
                   \A i \in c .. p - 1 : stream[i] = CR
            PROVE  FALSE
        <4>1. c <= b
          <5>1. CASE b < c
            <6>1. c # l + 2 /\ c - 1 \in b .. Position
              BY <1>3, <1>4, <1>5, <5>1
            <6>. QED
              BY <3>2, <3>3, <6>1
          <5>. QED
            BY <1>4, <1>5, <5>1
        <4>2. b \in c .. p - 1
          BY <1>3, <1>4, <1>5, <4>1
        <4>. QED
          BY <3>2, <3>3, <4>2
      <3>. QED
        BY <3>3 DEF EndsTrailers
    <2>. QED
      BY <2>1, <2>2
  <1>7. \A i \in l + 2 .. p : ~EndsTrailers(stream, l + 2, i)
    <2>1. \A i \in l + 2 .. Position : ~EndsTrailers(stream, l + 2, i)
      BY <1>4 DEF InTrailers
    <2>2. \A i \in l + 2 .. p : i = p \/ i \in l + 2 .. Position
      BY <1>3, <1>4, <1>5
    <2>. QED
      BY <1>6, <2>1, <2>2
  <1>8. st' = ST_TRAIL_HEAD =>
          \E b \in l + 2 .. p + 1 :
            /\ b = l + 2 \/ stream[b - 1] = LF
            /\ \A i \in b .. p : stream[i] = CR
    <2>1. CASE st = ST_TRAIL_HEAD /\ Current = CR
      <3>1. PICK b \in l + 2 .. Position + 1 :
              /\ b = l + 2 \/ stream[b - 1] = LF
              /\ \A i \in b .. Position : stream[i] = CR
        BY <1>4, <2>1 DEF InTrailers
      <3>2. \A i \in b .. p : i = p \/ i \in b .. Position
        BY <1>3, <1>4, <1>5, <3>1
      <3>3. \A i \in b .. p : stream[i] = CR
        BY <1>3, <1>5, <2>1, <3>1, <3>2
      <3>4. b \in l + 2 .. p + 1
        BY <1>3, <1>4, <1>5
      <3>. QED
        BY <3>1, <3>3, <3>4
    <2>2. CASE Current = LF
      <3>1. p + 1 \in l + 2 .. p + 1 /\ (p + 1) - 1 = p /\ \A i \in p + 1 .. p : FALSE
        BY <1>3, <1>4, <1>5
      <3>2. stream[(p + 1) - 1] = LF
        BY <1>3, <1>5, <2>2, <3>1
      <3>. QED
        BY <3>1, <3>2
    <2>. QED
      BY <1>1, <2>1, <2>2 DEF ST_TRAIL_HEAD, ST_TRAIL_MID
  <1>9. st' = ST_TRAIL_MID =>
          \E b \in l + 2 .. p : stream[b] # CR /\ \A i \in b .. p : stream[i] # LF
    <2>1. CASE st = ST_TRAIL_HEAD /\ Current \notin {CR, LF}
      <3>1. p \in l + 2 .. p /\ \A i \in p .. p : i = p
        BY <1>3, <1>4, <1>5
      <3>2. stream[p] # CR /\ stream[p] # LF
        BY <1>3, <1>5, <2>1
      <3>. QED
        BY <3>1, <3>2
    <2>2. CASE st = ST_TRAIL_MID /\ Current # LF
      <3>1. PICK b \in l + 2 .. Position :
              stream[b] # CR /\ \A i \in b .. Position : stream[i] # LF
        BY <1>4, <2>2 DEF InTrailers
      <3>2. \A i \in b .. p : i = p \/ i \in b .. Position
        BY <1>3, <1>4, <1>5, <3>1
      <3>3. \A i \in b .. p : stream[i] # LF
        BY <1>3, <1>5, <2>2, <3>1, <3>2
      <3>4. b \in l + 2 .. p
        BY <1>3, <1>4, <1>5
      <3>. QED
        BY <3>1, <3>3, <3>4
    <2>. QED
      BY <1>1, <2>1, <2>2 DEF ST_TRAIL_HEAD, ST_TRAIL_MID
  <1>10. InTrailers(at, got, e, l)'
    <2>1. Value(stream, at, e) = 0 /\ Collected = got /\ Position' = p
      BY <1>3, <1>4, <1>5 DEF InTrailers
    <2>. QED
      BY <1>3, <1>7, <1>8, <1>9, <2>1 DEF InTrailers
  <1>11. Within(at, got, e, l)'
    <2>1. /\ st' \in Trailer /\ at \in 1 .. Position' + 1 /\ stream' = stream
          /\ dec'.consume_trailer = dec.consume_trailer /\ l + 1 <= Position'
      BY <1>1, <1>3, <1>4
    <2>. QED
      BY <1>4, <1>10, <2>1
      DEF Within, Trailer, ST_SIZE, ST_EXT, ST_EXPECT_LF, ST_DATA, ST_DATA_CR,
          ST_DATA_LF, ST_TRAIL_HEAD, ST_TRAIL_MID
  <1>12. err' = "none"
    BY <1>1, ModeInLoop
  <1>. QED
    BY <1>3, <1>11, <1>12, GoesOn

LEMMA TrailEndReads == ASSUME SInv, Work, TrailEnd, Reads PROVE Reads'
  <1>1. /\ pc = "loop" /\ src < Len(buf) /\ src' = src + 1 /\ buf' = buf
        /\ dst' = dst /\ err' = "complete" /\ st = ST_TRAIL_HEAD /\ Current = LF
        /\ st \in Trailer
    BY DEF TrailEnd, At, Break, Frame, Trailer
  <1>2. PICK at, got, e, l : Within(at, got, e, l)
    BY <1>1, Place
  <1>3. /\ stream' = stream /\ dec' = dec /\ fed' = fed
        /\ Position' = Position + 1 /\ Collected' = Collected
        /\ Position \in Nat /\ Current = stream[Position + 1]
        /\ Position + 1 <= fed /\ fed \in Nat /\ fed <= Len(stream)
        /\ Len(stream) \in Nat /\ stream \in Seq(Byte)
    BY <1>1, ReadByte
  <1>4. /\ at \in 1 .. Position + 1 /\ got \in Seq(Byte) /\ e \in Nat /\ l \in Nat
        /\ Follows(stream, dec.consume_trailer, at, got)
        /\ Opened(stream, at, e, l) /\ l + 1 <= Position
        /\ InTrailers(at, got, e, l)
    BY <1>1, <1>2 DEF Within
  <1>from. PICK p \in Nat : p = Position + 1
    BY <1>3
  <1>5. PICK t : p = Position + 1 /\ t = dec.consume_trailer
    BY <1>from
  <1>6. /\ Value(stream, at, e) = 0 /\ Collected = got
        /\ \A i \in l + 2 .. p - 1 : ~EndsTrailers(stream, l + 2, i)
    <2>1. p - 1 = Position
      BY <1>3, <1>5
    <2>. QED
      BY <1>4, <2>1 DEF InTrailers
  <1>7. EndsTrailers(stream, l + 2, p)
    <2>1. PICK b \in l + 2 .. Position + 1 :
            /\ b = l + 2 \/ stream[b - 1] = LF
            /\ \A i \in b .. Position : stream[i] = CR
      BY <1>1, <1>4 DEF InTrailers
    <2>2. b \in l + 2 .. p /\ p - 1 = Position
      BY <1>3, <1>4, <1>5
    <2>3. stream[p] = LF
      BY <1>1, <1>3, <1>5
    <2>4. \A i \in b .. p - 1 : stream[i] = CR
      BY <2>1, <2>2
    <2>. QED
      BY <2>1, <2>2, <2>3, <2>4 DEF EndsTrailers
  <1>8. t = TRUE
    <2>1. SizeMatchesState(st, left, hex) /\ dec.consume_trailer \in BOOLEAN
      BY <1>1, InLoop DEF SInv
    <2>. QED
      BY <1>1, <1>5, <2>1 DEF SizeMatchesState
  <1>9. ASSUME NEW n \in fed .. Len(stream)
        PROVE  Rd(stream, n, t, at) = Says("complete", << >>, p, 0)
    <2>1. n \in 0 .. Len(stream) /\ n \in Nat /\ l + 1 <= n /\ p \in l + 2 .. n
          /\ at \in Nat \ {0}
      BY <1>3, <1>4, <1>5
    <2>2. at \in 1 .. n /\ e \in 1 .. n /\ l \in 1 .. n - 1
      BY <1>4, <2>1, OpenedAt
    <2>3. Rd(stream, n, t, at) = IF t THEN Says("complete", << >>, p, 0)
                                 ELSE Says("complete", << >>, l + 1, 0)
      BY <1>3, <1>4, <1>6, <1>7, <2>1, <2>2, RdTrailersEnd
    <2>. QED
      BY <1>8, <2>3
  <1>10. Then(got, Says("complete", << >>, p, 0)) = Says("complete", Collected', Position', 0)
    BY <1>3, <1>4, <1>5, <1>6, ThenEnds
  <1>11. at - 1 <= fed /\ at - 1 \in Int /\ err' # "malformed"
         /\ err' \in {"malformed", "complete"}
    BY <1>1, <1>3, <1>4
  <1>. QED
    BY <1>3, <1>4, <1>5, <1>9, <1>10, <1>11, Decides

-----------------------------------------------------------------------------
(***************************************************************************)
(* The caller's side of Reads: its first state, a call begun and returned. *)
(***************************************************************************)
LEMMA SaysFields ==
  ASSUME NEW v, NEW b, NEW e, NEW o
  PROVE  LET r == Says(v, b, e, o) IN r = Says(r.verdict, r.body, r.end, r.owed)
  BY DEF Says

LEMMA ChunkSays ==
  ASSUME NEW f \in Seq(Byte), NEW at \in 1 .. Len(f) + 1, NEW trailers, NEW g
  PROVE  \E v, b, e, o : Chunk(f, at, trailers, g) = Says(v, b, e, o)
  <1>. DEFINE c == Chunk(f, at, trailers, g)
              bad == BadSize(f, at)
              Said(r) == \E v, b, e, o : r = Says(v, b, e, o)
  <1>parts. PICK l \in Nat \ {0}, size \in Nat : \E data :
          Outcome(f, bad, l, size, data, trailers, g, c)
    BY ChunkIs
  <1>1. PICK data :
          Outcome(f, bad, l, size, data, trailers, g, c)
    BY <1>parts
  <1>2. BreakAt(f, l) \in BreakKinds /\ BreakAt(f, l + 2 + size) \in BreakKinds
    BY BreakKind
  <1>3. /\ \A d : Said(Failed(d)) /\ Said(More(d))
        /\ \A d, r : Said(Then(d, r))
        /\ \A v, b, e, o : Said(Says(v, b, e, o))
        /\ Said(Trailers(f, l + 2))
    BY DEF Failed, More, Then, Trailers
  <1>. HIDE DEF c, bad, Said
  <1>4. Said(IF trailers THEN Trailers(f, l + 2) ELSE Says("complete", << >>, l + 1, 0))
    BY <1>3
  <1>5. Said(c)
    <2>1. CASE bad \/ BreakAt(f, l) = "wrong"
      BY <1>1, <1>3, <2>1 DEF Outcome
    <2>2. CASE ~bad /\ BreakAt(f, l) = "unknown"
      BY <1>1, <1>3, <2>2 DEF Outcome
    <2>3. CASE ~bad /\ BreakAt(f, l) = "there"
      <3>1. CASE size = 0
        BY <1>1, <1>4, <2>3, <3>1 DEF Outcome
      <3>2. CASE size # 0 /\ Len(data) < size
        BY <1>1, <1>3, <2>3, <3>2 DEF Outcome
      <3>3. CASE size # 0 /\ ~(Len(data) < size)
        BY <1>1, <1>2, <1>3, <2>3, <3>3 DEF Outcome, BreakKinds
      <3>. QED
        BY <3>1, <3>2, <3>3
    <2>. QED
      BY <1>2, <2>1, <2>2, <2>3 DEF BreakKinds
  <1>. QED
    BY <1>5 DEF c, Said

LEMMA NothingThen ==
  ASSUME NEW s \in Seq(Byte), NEW n \in 0 .. Len(s), NEW t, NEW at \in 1 .. n + 1
  PROVE  Rd(s, n, t, at) = Then(<< >>, Rd(s, n, t, at))
  <1>1. PICK r : r = Rd(s, n, t, at)
    OBVIOUS
  <1>2. r.body \in Seq(Byte)
    BY <1>1, RdIs
  <1>3. \E v, b, e, o : r = Says(v, b, e, o)
    BY <1>1, RdIs, ChunkSays
  <1>4. r = Says(r.verdict, r.body, r.end, r.owed)
    BY <1>3, SaysFields
  <1>5. PICK b \in Seq(Byte) : b = r.body
    BY <1>2
  <1>6. << >> \o b = b
    BY <1>5
  <1>. QED
    BY <1>1, <1>4, <1>5, <1>6 DEF Then

LEMMA InitReads == SessionInit => Reads
  <1>. SUFFICES ASSUME SessionInit PROVE Reads
    OBVIOUS
  <1>1. PICK trailer \in BOOLEAN : InitWith(Fresh(trailer))
    BY DEF SessionInit, Init
  <1>2. /\ pc = "idle" /\ buf = << >> /\ src = 0 /\ dst = 0
        /\ st = ST_SIZE /\ left = 0 /\ hex = 0 /\ err = "none"
    BY <1>1 DEF InitWith, Fresh
  <1>3. stream \in Seq(Byte) /\ fed = 0 /\ body = << >> /\ verdict = "more"
    BY StreamAssumption DEF SessionInit
  <1>4. Position = 0 /\ Collected = << >>
    <2>1. Len(buf) = 0
      BY <1>2
    <2>2. Position = 0 - 0 + 0
      <3>1. \A a, b, c : a = 0 /\ b = 0 /\ c = 0 => a - b + c = 0 - 0 + 0
        OBVIOUS
      <3>. QED
        BY <1>2, <1>3, <2>1, <3>1 DEF Position
    <2>3. Collected = << >>
      BY <1>2, <1>3 DEF Collected
    <2>. QED
      BY <2>2, <2>3
  <1>5. Follows(stream, dec.consume_trailer, 1, << >>)
    <2>1. Len(stream) \in Nat
      BY <1>3
    <2>2. \A n \in 1 - 1 .. Len(stream) : n \in 0 .. Len(stream) /\ 1 \in 1 .. n + 1
      BY <2>1
    <2>. QED
      BY <1>3, <2>2, NothingThen DEF Follows
  <1>6. InSize(1, << >>)
    <2>1. AllDigits(stream, 1, 0)
      BY DEF AllDigits
    <2>2. Value(stream, 1, 0 + 1) = 0
      <3>1. SubSeq(stream, 1, 0) = << >> /\ (0 + 1) - 1 = 0
        BY SubSeqEmpty
      <3>2. SubSeq(stream, 1, (0 + 1) - 1) = << >>
        BY <3>1
      <3>. QED
        BY <3>2, NumberEmpty DEF Value
    <2>. QED
      BY <1>2, <1>4, <2>1, <2>2 DEF InSize
  <1>7. Within(1, << >>, 0, 0)
    BY <1>2, <1>4, <1>5, <1>6
    DEF Within, Trailer, ST_SIZE, ST_EXT, ST_EXPECT_LF, ST_DATA, ST_DATA_CR,
        ST_DATA_LF, ST_TRAIL_HEAD, ST_TRAIL_MID
  <1>. QED
    BY <1>2, <1>3, <1>7 DEF Reads

LEMMA DeliverReads ==
  ASSUME SInv, Reads, NEW n \in 1 .. Len(stream) - fed, Deliver(n)
  PROVE  Reads'
  <1>. DEFINE data == SubSeq(stream, fed + 1, fed + n)
  <1>1. /\ stream \in Seq(Byte) /\ Len(stream) \in Nat /\ Position \in Nat
        /\ fed \in Nat /\ fed + n <= Len(stream) /\ n \in Nat
        /\ body \in Seq(Byte)
    BY PositionInStream DEF SInv, SessionTypeOK
  <1>2. data \in Seq(Byte) /\ Len(data) = n
    <2>1. \A i \in fed + 1 .. fed + n : stream[i] \in Byte
      BY <1>1
    <2>. QED
      BY <1>1, <2>1, SliceOf
  <1>. HIDE DEF data
  <1>3. /\ pc = "idle" /\ pc' = "loop" /\ buf' = data /\ err' = "none"
        /\ src' = 0 /\ dst' = 0
        /\ dec' = [dec EXCEPT !.total_read = Counted(data)]
        /\ st' = dec.state /\ left' = dec.bytes_left /\ hex' = dec.hex_count
        /\ verdict = "more" /\ verdict' = "more"
        /\ stream' = stream /\ fed' = fed + n /\ body' = body
    BY DEF Deliver, Enter, data
  <1>4. /\ dec.state = st /\ dec.bytes_left = left /\ dec.hex_count = hex
        /\ err \in {"none", "partial"} /\ src = Len(buf)
    BY <1>3 DEF SInv, VerdictMatchesCall
  <1>5. dec'.consume_trailer = dec.consume_trailer
    BY <1>3 DEF SInv, IInv, TypeOK, Decoders
  <1>6. Position' = Position
    <2>1. Position = fed
      BY <1>1, <1>4, PositionInStream
    <2>2. Position' = (fed + n) - n + 0
      BY <1>2, <1>3 DEF Position
    <2>. QED
      BY <1>1, <2>1, <2>2
  <1>7. Collected' = Collected
    <2>1. SubSeq(data, 1, 0) = << >>
      BY SubSeqEmpty
    <2>2. body \o << >> = body
      BY <1>1
    <2>. QED
      BY <1>3, <2>1, <2>2 DEF Collected
  <1>8. PICK at, got, e, l : Within(at, got, e, l)
    BY <1>4 DEF Reads
  <1>9. Within(at, got, e, l)'
    <2>1. fed' \in Nat /\ fed <= fed'
      BY <1>1, <1>3
    <2>. QED
      BY <1>1, <1>3, <1>4, <1>5, <1>6, <1>7, <1>8, <2>1, SamePlace
  <1>. QED
    BY <1>3, <1>9, GoesOn

LEMMA ReturnReads == ASSUME SInv, Reads, Return PROVE Reads'
  <1>1. /\ pc = "exit" /\ pc' = "idle" /\ st' = st /\ left' = left /\ hex' = hex
        /\ err' = err /\ stream' = stream /\ fed' = fed
        /\ body' = body \o SubSeq(buf', 1, bufsz')
    BY DEF Return, Epilogue, local
  <1>2. IInv /\ Epilogue
    BY DEF SInv, Return
  <1>3. /\ dst' = dst /\ bufsz' = dst /\ src' = src /\ Len(buf') = Len(buf)
        /\ SubSeq(buf', 1, dst) = SubSeq(buf, 1, dst)
    BY <1>2, DecodedSurvive
  <1>4. Position' = Position /\ Collected' = Collected
    BY <1>1, <1>3 DEF Position, Collected
  <1>5. dec'.consume_trailer = dec.consume_trailer
    BY <1>2 DEF Epilogue, IInv, TypeOK, Decoders
  <1>6. ASSUME err' \in {"none", "partial"}
        PROVE  \E at, got, e, l : Within(at, got, e, l)'
    <2>1. PICK at, got, e, l : Within(at, got, e, l)
      BY <1>1, <1>6 DEF Reads
    <2>2. fed \in Nat /\ fed' \in Nat /\ fed <= fed'
      BY <1>1, PositionInStream
    <2>3. Within(at, got, e, l)'
      BY <1>1, <1>4, <1>5, <2>1, <2>2, SamePlace
    <2>. QED
      BY <2>3
  <1>7. ASSUME NEW m, Decided(m)
        PROVE  Decided(m)'
    BY <1>1, <1>5, <1>7 DEF Decided
  <1>8. ASSUME verdict' = "failed", err' = "partial"
        PROVE  dec'.total_overhead >= OverheadLimit
    <2>. DEFINE overhead == (dec.total_overhead + Framing) % U64
    <2>1. ret' = MALFORMED
      BY <1>8 DEF Return
    <2>2. OverheadExceeded(dec.total_read, overhead)
      BY <1>1, <1>2, <1>8, <2>1 DEF Epilogue, MALFORMED, PARTIAL
    <2>3. dec'.total_overhead = overhead
      BY <1>1, <1>2, <1>8, Published DEF IInv, TypeOK
    <2>. QED
      BY <2>2, <2>3 DEF OverheadExceeded
  <1>9. err' = "malformed" => Decided(Failed(Collected))'
    <2>. SUFFICES ASSUME err' = "malformed" PROVE Decided(Failed(Collected))'
      OBVIOUS
    <2>1. PICK m : m = Failed(Collected)
      OBVIOUS
    <2>2. Decided(m) /\ m = Failed(Collected')
      BY <1>1, <1>4, <2>1 DEF Reads
    <2>. QED
      BY <1>7, <2>2 DEF Decided
  <1>10. err' = "complete" => Decided(Says("complete", Collected, Position, 0))'
    <2>. SUFFICES ASSUME err' = "complete"
                  PROVE  Decided(Says("complete", Collected, Position, 0))'
      OBVIOUS
    <2>1. PICK m : m = Says("complete", Collected, Position, 0)
      OBVIOUS
    <2>2. Decided(m) /\ m = Says("complete", Collected', Position', 0)
      BY <1>1, <1>4, <2>1 DEF Reads
    <2>. QED
      BY <1>7, <2>2 DEF Decided
  <1>. QED
    BY <1>6, <1>8, <1>9, <1>10 DEF Reads

LEMMA NextReads == SInv /\ Reads /\ [SessionNext]_allvars => Reads'
  <1>. SUFFICES ASSUME SInv, Reads, [SessionNext]_allvars PROVE Reads'
    OBVIOUS
  <1>1. ASSUME NEW n \in 1 .. Len(stream) - fed, Deliver(n) PROVE Reads'
    BY <1>1, DeliverReads
  <1>2. CASE Work
    <2>1. ~Corrupt
      BY NoCorruptStep DEF SInv
    <2>. QED
      BY <1>2, <2>1, OutOfBytesReads, SizeDigitReads, SizeEndReads, SizeRejectReads,
         ExtByteReads, HeaderLFReads, DataShortReads, DataFullReads, DataEndReads,
         TrailLineReads, TrailEndReads, BadLineBreakReads
      DEF Work, Step
  <1>3. CASE Return
    BY <1>3, ReturnReads
  <1>4. CASE UNCHANGED allvars
    <2>1. /\ stream' = stream /\ fed' = fed /\ body' = body /\ verdict' = verdict
          /\ dec' = dec /\ pc' = pc /\ buf' = buf /\ src' = src /\ dst' = dst
          /\ st' = st /\ left' = left /\ hex' = hex /\ err' = err
      BY <1>4 DEF allvars, session, vars, local
    <2>2. Position' = Position /\ Collected' = Collected
      BY <2>1 DEF Position, Collected
    <2>3. fed \in Nat /\ fed' \in Nat /\ fed <= fed'
      BY <2>1, PositionInStream
    <2>4. ASSUME err' \in {"none", "partial"}
          PROVE  \E at, got, e, l : Within(at, got, e, l)'
      <3>1. PICK at, got, e, l : Within(at, got, e, l)
        BY <2>1, <2>4 DEF Reads
      <3>2. Within(at, got, e, l)'
        BY <2>1, <2>2, <2>3, <3>1, SamePlace
      <3>. QED
        BY <3>2
    <2>5. \A m : Decided(m) => Decided(m)'
      BY <2>1 DEF Decided
    <2>6. err' = "malformed" => Decided(Failed(Collected))'
      BY <2>1, <2>2 DEF Reads, Decided
    <2>7. err' = "complete" => Decided(Says("complete", Collected, Position, 0))'
      BY <2>1, <2>2 DEF Reads, Decided
    <2>. QED
      BY <2>1, <2>4, <2>6, <2>7 DEF Reads
  <1>. QED
    BY <1>1, <1>2, <1>3, <1>4 DEF SessionNext

(***************************************************************************)
(* Every byte the dispatch loop of phr_decode_chunked consumes keeps it at *)
(* a place of the grammar, and a verdict is that of every longer stream.   *)
(***************************************************************************)
THEOREM ReadsTheStream == SessionSpec => [](SInv /\ Reads)
  BY SessionInitInv, InitReads, SessionNextInv, NextReads, PTL DEF SessionSpec

-----------------------------------------------------------------------------
(***************************************************************************)
(* What the bytes fed say, where they are all read and decide nothing.     *)
(***************************************************************************)
OpenAt(at, got) ==
  \E d : /\ Rd(stream, fed, dec.consume_trailer, at)
              = Says("more", d, 0, IF st = ST_DATA THEN left ELSE 0)
         /\ Collected = got \o d

LEMMA OpenSize ==
  ASSUME SInv, Position = fed, st = ST_SIZE,
         NEW at, NEW got, NEW e, NEW l, Within(at, got, e, l)
  PROVE  OpenAt(at, got)
  <1>1. /\ stream \in Seq(Byte) /\ fed \in Nat /\ fed <= Len(stream)
        /\ Len(stream) \in Nat /\ fed \in 0 .. Len(stream)
    BY PositionInStream
  <1>2. /\ at \in 1 .. fed + 1 /\ got \in Seq(Byte)
        /\ AllDigits(stream, at, fed) /\ hex = fed + 1 - at /\ Collected = got
    BY DEF Within, InSize
  <1>3. fed + 1 - at <= HexMax
    BY <1>2 DEF SInv, IInv, TypeOK
  <1>4. Rd(stream, fed, dec.consume_trailer, at) = More(<< >>)
    BY <1>1, <1>2, <1>3, RdSizeOpen
  <1>5. got \o << >> = got
    BY <1>2
  <1>. QED
    BY <1>2, <1>4, <1>5 DEF OpenAt, More, ST_SIZE, ST_DATA

LEMMA OpenLine ==
  ASSUME SInv, Position = fed, st \in {ST_EXT, ST_EXPECT_LF},
         NEW at, NEW got, NEW e, NEW l, Within(at, got, e, l)
  PROVE  OpenAt(at, got)
  <1>1. /\ stream \in Seq(Byte) /\ fed \in Nat /\ fed <= Len(stream)
        /\ Len(stream) \in Nat /\ fed \in 0 .. Len(stream)
    BY PositionInStream
  <1>2. /\ at \in 1 .. fed + 1 /\ got \in Seq(Byte) /\ e \in Nat
        /\ Sized(stream, at, e) /\ e <= fed /\ Collected = got
    BY DEF Within, InLine
  <1>3. Unbroken(stream, e, fed) \/ (Unbroken(stream, e, fed - 1) /\ stream[fed] = CR)
    BY DEF Within, InLine
  <1>4. at < e
    BY <1>2 DEF Sized
  <1>5. at \in 1 .. fed /\ e \in 1 .. fed
    BY <1>1, <1>2, <1>4
  <1>6. Rd(stream, fed, dec.consume_trailer, at) = More(<< >>)
    BY <1>1, <1>2, <1>3, <1>5, RdLineOpen
  <1>7. got \o << >> = got
    BY <1>2
  <1>. QED
    BY <1>2, <1>6, <1>7 DEF OpenAt, More, ST_EXT, ST_EXPECT_LF, ST_DATA

LEMMA OpenData ==
  ASSUME SInv, Position = fed, st = ST_DATA,
         NEW at, NEW got, NEW e, NEW l, Within(at, got, e, l)
  PROVE  OpenAt(at, got)
  <1>1. /\ stream \in Seq(Byte) /\ fed \in Nat /\ fed <= Len(stream)
        /\ Len(stream) \in Nat /\ fed \in 0 .. Len(stream)
    BY PositionInStream
  <1>2. /\ at \in 1 .. fed + 1 /\ got \in Seq(Byte) /\ e \in Nat /\ l \in Nat
        /\ Opened(stream, at, e, l) /\ l + 1 <= fed
        /\ Value(stream, at, e) = fed - (l + 1) + left
        /\ Collected = got \o SubSeq(stream, l + 2, fed)
    BY DEF Within, InData
  <1>3. left > 0 /\ left \in Nat
    BY DEF SInv, IInv, TypeOK, CarriedStateConsistent, SizeMatchesState
  <1>4. at \in 1 .. fed /\ e \in 1 .. fed /\ l \in 1 .. fed - 1
    <2>1. at \in Nat \ {0}
      BY <1>1, <1>2
    <2>. QED
      BY <1>1, <1>2, <2>1, OpenedAt
  <1>5. PICK v : v = Value(stream, at, e)
    OBVIOUS
  <1>6. fed < l + 1 + v /\ v - (fed - (l + 1)) = left
    BY <1>1, <1>2, <1>3, <1>5
  <1>7. fed < l + 1 + Value(stream, at, e)
    BY <1>5, <1>6
  <1>8. Rd(stream, fed, dec.consume_trailer, at)
          = Says("more", SubSeq(stream, l + 2, fed), 0, Value(stream, at, e) - (fed - (l + 1)))
    BY <1>1, <1>2, <1>4, <1>7, RdShort
  <1>. QED
    BY <1>2, <1>5, <1>6, <1>8 DEF OpenAt

LEMMA OpenAfterData ==
  ASSUME SInv, Position = fed, st \in {ST_DATA_CR, ST_DATA_LF},
         NEW at, NEW got, NEW e, NEW l, Within(at, got, e, l)
  PROVE  OpenAt(at, got)
  <1>1. /\ stream \in Seq(Byte) /\ fed \in Nat /\ fed <= Len(stream)
        /\ Len(stream) \in Nat /\ fed \in 0 .. Len(stream)
    BY PositionInStream
  <1>2. /\ at \in 1 .. fed + 1 /\ got \in Seq(Byte) /\ e \in Nat /\ l \in Nat
        /\ Opened(stream, at, e, l) /\ l + 1 <= fed
        /\ AfterData(at, got, e, l)
    BY DEF Within
  <1>3. at \in 1 .. fed /\ e \in 1 .. fed /\ l \in 1 .. fed - 1
    <2>1. at \in Nat \ {0}
      BY <1>1, <1>2
    <2>. QED
      BY <1>1, <1>2, <2>1, OpenedAt
  <1>4. Value(stream, at, e) \in Nat
    BY <1>1, <1>2, <1>3, RdOpened
  <1>5. PICK m \in Nat : m = l + 1 + Value(stream, at, e)
    <2>1. l + 1 + Value(stream, at, e) \in Nat
      BY <1>2, <1>4
    <2>. QED
      BY <2>1
  <1>6. /\ Value(stream, at, e) > 0
        /\ Collected = got \o SubSeq(stream, l + 2, m)
        /\ fed = m \/ (fed = m + 1 /\ stream[fed] = CR)
    BY <1>2, <1>5 DEF AfterData
  <1>7. m <= fed /\ (fed = m \/ (fed = m + 1 /\ stream[m + 1] = CR))
    BY <1>5, <1>6
  <1>8. Rd(stream, fed, dec.consume_trailer, at) = More(SubSeq(stream, l + 2, m))
    BY <1>1, <1>2, <1>3, <1>5, <1>6, <1>7, RdDataOpen
  <1>. QED
    <2>1. Rd(stream, fed, dec.consume_trailer, at)
            = Says("more", SubSeq(stream, l + 2, m), 0, IF st = ST_DATA THEN left ELSE 0)
      BY <1>8 DEF More, ST_DATA, ST_DATA_CR, ST_DATA_LF
    <2>. QED
      BY <1>6, <2>1 DEF OpenAt

LEMMA OpenTrailers ==
  ASSUME SInv, Position = fed, st \in Trailer,
         NEW at, NEW got, NEW e, NEW l, Within(at, got, e, l)
  PROVE  OpenAt(at, got)
  <1>1. /\ stream \in Seq(Byte) /\ fed \in Nat /\ fed <= Len(stream)
        /\ Len(stream) \in Nat /\ fed \in 0 .. Len(stream)
    BY PositionInStream
  <1>2. /\ at \in 1 .. fed + 1 /\ got \in Seq(Byte) /\ e \in Nat /\ l \in Nat
        /\ Opened(stream, at, e, l) /\ l + 1 <= fed
        /\ InTrailers(at, got, e, l)
    BY DEF Within
  <1>3. /\ Value(stream, at, e) = 0 /\ Collected = got
        /\ \A i \in l + 2 .. fed : ~EndsTrailers(stream, l + 2, i)
    BY <1>2 DEF InTrailers
  <1>4. at \in 1 .. fed /\ e \in 1 .. fed /\ l \in 1 .. fed - 1
    <2>1. at \in Nat \ {0}
      BY <1>1, <1>2
    <2>. QED
      BY <1>1, <1>2, <2>1, OpenedAt
  <1>5. PICK t : t = dec.consume_trailer
    OBVIOUS
  <1>6. t = TRUE
    BY <1>5 DEF SInv, IInv, TypeOK, Decoders, CarriedStateConsistent, SizeMatchesState
  <1>7. Rd(stream, fed, t, at) = IF t THEN More(<< >>) ELSE Says("complete", << >>, l + 1, 0)
    BY <1>1, <1>2, <1>3, <1>4, RdTrailersOpen
  <1>8. Rd(stream, fed, dec.consume_trailer, at) = More(<< >>)
    BY <1>5, <1>6, <1>7
  <1>9. got \o << >> = got
    BY <1>2
  <1>10. Rd(stream, fed, dec.consume_trailer, at)
           = Says("more", << >>, 0, IF st = ST_DATA THEN left ELSE 0)
    BY <1>8 DEF More, Trailer, ST_TRAIL_HEAD, ST_TRAIL_MID, ST_DATA
  <1>. QED
    BY <1>3, <1>9, <1>10 DEF OpenAt

(* After a call that ran out of bytes, those that arrived say what the     *)
(* caller has, also where the overhead rule ended the exchange.            *)
LEMMA SaysMore ==
  ASSUME SInv, Reads, pc = "idle", err \in {"none", "partial"}
  PROVE  Rd(stream, fed, dec.consume_trailer, 1)
           = Says("more", body, 0, IF st = ST_DATA THEN left ELSE 0)
  <1>1. /\ err \in {"none", "partial"} /\ src = Len(buf)
        /\ Position \in Nat /\ Position + (Len(buf) - src) = fed
        /\ stream \in Seq(Byte) /\ fed \in Nat /\ fed <= Len(stream)
        /\ Len(stream) \in Nat /\ fed \in 0 .. Len(stream)
    BY PositionInStream
    DEF SInv, VerdictMatchesCall, SessionTypeOK, IInv, DrainedBeforePartial
  <1>2. Position = fed
    <2>1. Len(buf) \in Nat
      BY DEF SInv, IInv, TypeOK
    <2>. QED
      BY <1>1, <2>1
  <1>3. PICK at, got, e, l : Within(at, got, e, l)
    BY <1>1 DEF Reads
  <1>4. st \in States
    BY DEF SInv, IInv, NeverCorrupt
  <1>5. OpenAt(at, got)
    BY <1>2, <1>3, <1>4, OpenSize, OpenLine, OpenData, OpenAfterData, OpenTrailers
    DEF States, Trailer, ST_SIZE, ST_EXT, ST_EXPECT_LF, ST_DATA, ST_DATA_CR,
        ST_DATA_LF, ST_TRAIL_HEAD, ST_TRAIL_MID
  <1>6. PICK d, owed :
          /\ owed = IF st = ST_DATA THEN left ELSE 0
          /\ Rd(stream, fed, dec.consume_trailer, at) = Says("more", d, 0, owed)
          /\ Collected = got \o d
    BY <1>5 DEF OpenAt
  <1>7. fed \in at - 1 .. Len(stream)
    BY <1>1, <1>2, <1>3 DEF Within
  <1>8. Rd(stream, fed, dec.consume_trailer, 1)
          = Then(got, Rd(stream, fed, dec.consume_trailer, at))
    BY <1>3, <1>7 DEF Within, Follows
  <1>9. Then(got, Says("more", d, 0, owed)) = Says("more", got \o d, 0, owed)
    BY ThenSays
  <1>10. body = got \o d
    BY <1>6 DEF Collected
  <1>. QED
    BY <1>6, <1>8, <1>9, <1>10

(* A verdict is the one the whole stream deserves, whatever follows. *)
LEMMA SaysComplete ==
  ASSUME SInv, Reads, pc = "idle", verdict = "complete"
  PROVE  /\ Rd(stream, fed, dec.consume_trailer, 1)
              = Says("complete", body, Position, 0)
         /\ fed - ret = Position
  <1>1. err = "complete" /\ ret = Len(buf) - src
    BY DEF SInv, VerdictMatchesCall
  <1>2. /\ Position \in Nat /\ Position + (Len(buf) - src) = fed
        /\ fed <= Len(stream) /\ fed \in Nat /\ Len(stream) \in Nat
        /\ fed \in fed .. Len(stream)
    BY PositionInStream
  <1>3. fed - ret = Position
    <2>1. Len(buf) \in Nat /\ src \in Nat
      BY DEF SInv, IInv, TypeOK
    <2>. QED
      BY <1>1, <1>2, <2>1
  <1>4. Rd(stream, fed, dec.consume_trailer, 1) = Says("complete", Collected, Position, 0)
    BY <1>1, <1>2 DEF Reads, Decided
  <1>. QED
    BY <1>3, <1>4 DEF Collected

LEMMA SaysFailed ==
  ASSUME SInv, Reads, pc = "idle", err = "malformed"
  PROVE  \A n \in fed .. Len(stream) :
           Rd(stream, n, dec.consume_trailer, 1) = Failed(body)
  <1>1. Decided(Failed(Collected))
    BY DEF Reads
  <1>. QED
    BY <1>1 DEF Decided, Collected

(* The overhead rule ends no exchange of fewer bytes than its limit. *)
LEMMA NotLimited ==
  ASSUME SInv, Reads, verdict = "failed", fed < OverheadLimit
  PROVE  err = "malformed"
  <1>1. dec.total_overhead <= fed /\ dec.total_overhead \in Nat /\ fed \in Nat
    BY PositionInStream
    DEF SInv, IInv, TypeOK, Decoders, OverheadWithinRead, CountersInFlight
  <1>2. OverheadLimit \in Nat
    BY CounterAssumption
  <1>3. err # "partial"
    BY <1>1, <1>2 DEF Reads
  <1>. QED
    BY <1>3 DEF SInv, VerdictMatchesCall

LEMMA MeaningOfArrived ==
  Meaning(Arrived) = Rd(stream, fed, dec.consume_trailer, 1)
  BY DEF Meaning, Arrived, Rd, Pre

LEMMA MeaningOfStream ==
  ASSUME stream \in Seq(Byte)
  PROVE  Meaning(stream) = Rd(stream, Len(stream), dec.consume_trailer, 1)
  <1>1. SubSeq(stream, 1, Len(stream)) = stream
    OBVIOUS
  <1>. QED
    BY <1>1 DEF Meaning, Rd, Pre

(***************************************************************************)
(* DecodesTheCoding, save that the overhead rule may end an exchange the   *)
(* coding would let go on.                                                 *)
(***************************************************************************)
DecodesUnlessLimited ==
  pc = "idle" =>
    LET m == Meaning(Arrived) IN
    /\ body = m.body
    /\ \/ verdict = m.verdict
       \/ /\ verdict = "failed" /\ m.verdict = "more"
          /\ dec.total_overhead >= OverheadLimit
    /\ verdict = "complete" => fed - ret = m.end

LEMMA DecodesOrLimited == SInv /\ Reads => DecodesUnlessLimited
  <1>. SUFFICES ASSUME SInv, Reads, pc = "idle" PROVE DecodesUnlessLimited
    BY DEF DecodesUnlessLimited
  <1>1. PICK m : m = Meaning(Arrived) /\ m = Rd(stream, fed, dec.consume_trailer, 1)
    BY MeaningOfArrived
  <1>2. /\ verdict \in {"more", "complete", "failed"}
        /\ verdict = "more" => err \in {"none", "partial"}
        /\ verdict = "complete" => err = "complete"
        /\ verdict = "failed" => err \in {"malformed", "partial"}
    BY DEF SInv, SessionTypeOK, VerdictMatchesCall
  <1>3. CASE err \in {"none", "partial"}
    <2>1. m.body = body /\ m.verdict = "more"
      BY <1>1, <1>3, SaysMore DEF Says
    <2>2. verdict = "failed" => dec.total_overhead >= OverheadLimit
      BY <1>2, <1>3 DEF Reads
    <2>. QED
      BY <1>1, <1>2, <1>3, <2>1, <2>2 DEF DecodesUnlessLimited
  <1>4. CASE err = "malformed"
    <2>1. fed \in fed .. Len(stream)
      BY PositionInStream
    <2>2. m = Failed(body)
      BY <1>1, <1>4, <2>1, SaysFailed
    <2>3. m.body = body /\ m.verdict = "failed"
      BY <2>2 DEF Failed, Says
    <2>4. verdict = "failed"
      BY <1>2, <1>4
    <2>. QED
      BY <1>1, <2>3, <2>4 DEF DecodesUnlessLimited
  <1>5. CASE verdict = "complete"
    <2>1. m = Says("complete", body, Position, 0) /\ fed - ret = Position
      BY <1>1, <1>5, SaysComplete
    <2>2. m.body = body /\ m.verdict = "complete" /\ fed - ret = m.end
      BY <2>1 DEF Says
    <2>. QED
      BY <1>1, <1>5, <2>2 DEF DecodesUnlessLimited
  <1>. QED
    BY <1>2, <1>3, <1>4, <1>5

(***************************************************************************)
(* For every stream and every way of cutting it into calls, the caller has *)
(* the body and the verdict of the coding on the bytes that arrived, and   *)
(* the octets after its end; only an exchange with OverheadLimit bytes of  *)
(* framing may be failed while the coding leaves it open.                  *)
(***************************************************************************)
THEOREM DecodesOrIsLimited == SessionSpec => []DecodesUnlessLimited
  BY ReadsTheStream, DecodesOrLimited, PTL

(***************************************************************************)
(* DecodesTheCoding of phr_decode_chunked, wherever the overhead rule      *)
(* cannot apply: before OverheadLimit bytes have come, and always while    *)
(* the exchange goes on or is complete.                                    *)
(***************************************************************************)
THEOREM DecodesCorrectly ==
  SessionSpec => []((verdict = "failed" => fed < OverheadLimit) => DecodesTheCoding)
  <1>1. ASSUME SInv, Reads, verdict = "failed" => fed < OverheadLimit
        PROVE  DecodesTheCoding
    <2>1. DecodesUnlessLimited
      BY <1>1, DecodesOrLimited
    <2>2. dec.total_overhead <= fed /\ dec.total_overhead \in Nat /\ fed \in Nat
      BY <1>1, PositionInStream
      DEF SInv, IInv, TypeOK, Decoders, OverheadWithinRead, CountersInFlight
    <2>3. OverheadLimit \in Nat
      BY CounterAssumption
    <2>4. verdict = "failed" => ~(dec.total_overhead >= OverheadLimit)
      BY <1>1, <2>2, <2>3
    <2>. QED
      BY <2>1, <2>4 DEF DecodesUnlessLimited, DecodesTheCoding
  <1>. QED
    BY <1>1, ReadsTheStream, PTL

(***************************************************************************)
(* phr_decode_chunked_is_in_data tells, between any two calls, whether the *)
(* bytes that arrived leave data of an announced chunk to come.            *)
(***************************************************************************)
THEOREM InDataTells == SessionSpec => []InDataExact
  <1>1. ASSUME SInv, Reads PROVE InDataExact
    <2>. SUFFICES ASSUME pc = "idle", verdict = "more" PROVE InDataExact
      BY DEF InDataExact
    <2>1. PICK m : m = Meaning(Arrived) /\ m = Rd(stream, fed, dec.consume_trailer, 1)
      BY MeaningOfArrived
    <2>2. /\ err \in {"none", "partial"}
          /\ dec.state = st /\ dec.bytes_left = left
          /\ st = ST_DATA => left > 0
      BY <1>1
      DEF SInv, VerdictMatchesCall, IInv, CarriedStateConsistent, SizeMatchesState
    <2>3. m = Says("more", body, 0, IF st = ST_DATA THEN left ELSE 0)
      BY <1>1, <2>1, <2>2, SaysMore
    <2>4. m.owed = IF st = ST_DATA THEN left ELSE 0
      BY <2>3 DEF Says
    <2>. QED
      BY <2>1, <2>2, <2>4 DEF InDataExact, is_in_data
  <1>. QED
    BY <1>1, ReadsTheStream, PTL

(***************************************************************************)
(* MalformedIsFinal of a stream rejected before OverheadLimit bytes: what  *)
(* follows never makes it one that carries a whole body.  (Past the limit  *)
(* it is false: the overhead rule rejects such streams.)                   *)
(***************************************************************************)
THEOREM RejectionIsFinal ==
  SessionSpec => [](fed < OverheadLimit => MalformedIsFinal)
  <1>1. ASSUME SInv, Reads, fed < OverheadLimit PROVE MalformedIsFinal
    <2>. SUFFICES ASSUME verdict = "failed" PROVE Meaning(stream).verdict # "complete"
      BY DEF MalformedIsFinal
    <2>1. err = "malformed"
      BY <1>1, NotLimited
    <2>2. pc = "idle"
      BY <1>1 DEF SInv, VerdictMatchesCall
    <2>3. stream \in Seq(Byte) /\ Len(stream) \in fed .. Len(stream)
      BY <1>1, PositionInStream
    <2>4. PICK m : m = Meaning(stream) /\ m = Failed(body)
      BY <1>1, <2>1, <2>2, <2>3, SaysFailed, MeaningOfStream
    <2>. QED
      BY <2>4 DEF Failed, Says
  <1>. QED
    BY <1>1, ReadsTheStream, PTL
=============================================================================
