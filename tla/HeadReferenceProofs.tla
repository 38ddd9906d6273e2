------------------------- MODULE HeadReferenceProofs -------------------------
(***************************************************************************)
(* The head parsers read the grammar of a head: for every stream, however  *)
(* it is cut into calls and whatever the hints, what they accept and what  *)
(* they publish is what HeadReference reads off the stream at once, and    *)
(* none of the heads it reads is refused or missed.                        *)
(***************************************************************************)
EXTENDS HeadReference, HeadParserProofs, SequenceTheorems, WellFoundedInduction

-----------------------------------------------------------------------------
(***************************************************************************)
(* The first offset of a class, the last blank, the end of a line.         *)
(***************************************************************************)
LEMMA Least ==
  ASSUME NEW T, T \subseteq Nat, T # {}
  PROVE  \E x \in T : \A y \in T : x <= y
  <1>1. IsWellFoundedOn(OpToRel(<, Nat), Nat)
    BY NatLessThanWellFounded
  <1>2. PICK x \in T : \A y \in T : ~ (<<y, x>> \in OpToRel(<, Nat))
    BY <1>1, WFMin
  <1>3. \A y \in T : y \in Nat /\ ~(y < x) /\ x \in Nat
    BY <1>2 DEF OpToRel
  <1>. QED
    BY <1>3

LEMMA MinIs ==
  ASSUME NEW T \in SUBSET Nat, NEW e \in T, \A y \in T : e <= y
  PROVE  Min(T) = e
  <1>1. \A x \in T : (\A y \in T : x <= y) => x = e
    OBVIOUS
  <1>. QED
    BY <1>1 DEF Min

LEMMA OnlyGrows ==
  ASSUME NEW b, NEW S, NEW from \in Nat, NEW to \in Nat, Only(b, S, from, to), b[to + 1] \in S
  PROVE  Only(b, S, from, to + 1)
  BY DEF Only

LEMMA OnlyNone ==
  ASSUME NEW b, NEW S, NEW from \in Nat
  PROVE  Only(b, S, from, from)
  BY DEF Only

LEMMA OnlyAll ==
  ASSUME NEW b, NEW S, NEW T, S \subseteq T, NEW from \in Nat, NEW to \in Nat,
         Only(b, S, from, to)
  PROVE  Only(b, T, from, to)
  BY DEF Only

LEMMA OnlyJoins ==
  ASSUME NEW b, NEW S, NEW from \in Nat, NEW mid \in Nat, NEW to \in Nat,
         Only(b, S, from, mid), Only(b, S, mid, to)
  PROVE  Only(b, S, from, to)
  BY DEF Only

LEMMA PastIs ==
  ASSUME NEW b, NEW S, NEW from \in Nat, NEW to \in Nat, NEW x \in from .. to,
         Only(b, S, from, x), x < to => b[x + 1] \notin S
  PROVE  Past(b, S, from, to) = x
  <1>. DEFINE T == {i \in from .. to - 1 : b[i + 1] \notin S} \cup {to}
  <1>1. T \in SUBSET Nat /\ x \in T
    OBVIOUS
  <1>2. \A y \in T : x <= y
    BY DEF Only
  <1>. QED
    BY <1>1, <1>2, MinIs DEF Past

LEMMA TrimIs ==
  ASSUME NEW b, NEW from \in Nat, NEW to \in Nat, NEW t \in from .. to,
         Only(b, {SP, HT}, t, to), t = from \/ b[t] \notin {SP, HT}
  PROVE  Trim(b, from, to) = t
  <1>. DEFINE T == {i \in from .. to : \A j \in i + 1 .. to : b[j] \in {SP, HT}}
  <1>1. T \in SUBSET Nat /\ t \in T
    BY DEF Only
  <1>2. ASSUME NEW y \in T PROVE t <= y
    <2>1. CASE y < t
      <3>1. t \in y + 1 .. to
        BY <2>1
      <3>. QED
        BY <2>1, <3>1
    <2>. QED
      BY <2>1
  <1>. QED
    BY <1>1, <1>2, MinIs DEF Trim

(* The content that begins at offset p ends at e, where a line break is,   *)
(* and the next line begins at n.                                          *)
Ends(b, p, e, n) ==
  /\ p <= e /\ Only(b, Byte \ Breaks, p, e)
  /\ \/ b[e + 1] = LF /\ n = e + 1
     \/ b[e + 1] = CR /\ b[e + 2] = LF /\ n = e + 2
  /\ n <= Len(b)

LEMMA LineIs ==
  ASSUME NEW b \in Seq(Byte), NEW p \in Nat, NEW e \in Nat, NEW n \in Nat, Ends(b, p, e, n)
  PROVE  /\ Line(b, p) = [from |-> p, next |-> n, to |-> e]
         /\ HasLine(b, p) /\ n \in p + 1 .. Len(b)
  <1>. DEFINE T == {i \in p .. Len(b) - 1 : b[i + 1] = LF}
  <1>1. Len(b) \in Nat /\ n \in p + 1 .. Len(b) /\ e < n /\ n - 1 \in Nat
    BY DEF Ends
  <1>2. \A i \in p + 1 .. e : b[i] \notin {CR, LF}
    BY DEF Ends, Only, Breaks
  <1>3. b[n] = LF /\ (n = e + 1 \/ (n = e + 2 /\ b[e + 1] = CR))
    BY DEF Ends
  <1>4. \A i \in p .. n - 2 : b[i + 1] # LF
    BY <1>1, <1>2, <1>3 DEF CR, LF
  <1>5. T \in SUBSET Nat /\ n - 1 \in T
    BY <1>1, <1>3
  <1>6. \A y \in T : n - 1 <= y
    BY <1>1, <1>4
  <1>7. Min(T) = n - 1
    BY <1>5, <1>6, MinIs
  <1>8. (IF n - 1 > p /\ b[n - 1] = CR THEN (n - 1) - 1 ELSE n - 1) = e
    BY <1>1, <1>2, <1>3 DEF Ends
  <1>9. (n - 1) + 1 = n
    BY <1>1
  <1>10. HasLine(b, p)
    BY <1>1, <1>3, <1>9 DEF HasLine
  <1>. HIDE DEF T
  <1>11. Line(b, p) = [from |-> p, next |-> (n - 1) + 1,
                       to |-> IF n - 1 > p /\ b[n - 1] = CR THEN (n - 1) - 1 ELSE n - 1]
    BY <1>7 DEF Line, T
  <1>. QED
    BY <1>1, <1>8, <1>9, <1>10, <1>11

LEMMA LeadingSkips ==
  ASSUME NEW b \in Seq(Byte), NEW n \in Nat, Ends(b, 0, 0, n)
  PROVE  Leading("request", b) = n
  BY LineIs DEF Leading, Empty

LEMMA LeadingNone ==
  ASSUME NEW b \in Seq(Byte), Len(b) > 0, b[1] \notin Breaks
  PROVE  Leading("request", b) = 0
  <1>. DEFINE T == {i \in 0 .. Len(b) - 1 : b[i + 1] = LF}
  <1>1. ASSUME HasLine(b, 0) PROVE ~Empty(Line(b, 0))
    <2>0. PICK i \in 0 .. Len(b) - 1 : b[i + 1] = LF
      BY <1>1 DEF HasLine
    <2>1. T \subseteq Nat /\ i \in T
      BY <2>0
    <2>2. PICK lf \in T : \A y \in T : lf <= y
      BY <2>1, Least
    <2>3. Min(T) = lf
      BY <2>1, <2>2, MinIs
    <2>4. lf \in Nat /\ lf > 0 /\ (lf = 1 => b[lf] # CR)
      BY <2>1, <2>2 DEF Breaks
    <2>. HIDE DEF T
    <2>5. Line(b, 0).to = IF lf > 0 /\ b[lf] = CR THEN lf - 1 ELSE lf
      BY <2>3 DEF Line, T
    <2>6. Line(b, 0).to # 0
      BY <2>4, <2>5
    <2>7. Line(b, 0).from = 0
      BY DEF Line
    <2>. QED
      BY <2>6, <2>7 DEF Empty
  <1>. QED
    BY <1>1 DEF Leading

-----------------------------------------------------------------------------
(***************************************************************************)
(* The classes of bytes, and what the parts of a head say of their lines.  *)
(***************************************************************************)
LEMMA TokenFacts ==
  /\ TokenChars \subseteq Byte \ {COLON} /\ TokenChars \subseteq Byte \ {SP}
  /\ TokenChars \subseteq Byte \ Breaks /\ TokenChars \cap {SP, HT} = {}
  /\ COLON \in Byte \ Breaks
  BY DEF TokenChars, Byte, COLON, SP, HT, Breaks, CR, LF

LEMMA PathFacts ==
  /\ PathChars \subseteq Byte \ {SP} /\ PathChars \subseteq Byte \ Breaks
  /\ SP \in Byte \ Breaks /\ SP \notin Byte \ {SP}
  BY DEF PathChars, Controls, Byte, SP, Breaks, CR, LF

LEMMA ValueFacts ==
  /\ ValueChars \subseteq Byte \ Breaks /\ {SP, HT} \subseteq ValueChars
  /\ {SP, HT} \subseteq Byte \ Breaks
  BY DEF ValueChars, Controls, Byte, SP, HT, Breaks, CR, LF

LEMMA DigitFacts ==
  /\ Digits \subseteq Byte \ Breaks /\ SP \notin Digits /\ Digits \subseteq Nat
  BY DEF Digits, Byte, Breaks, CR, LF, SP

Header(name, value) == [name |-> name, value |-> value]

LEMMA FieldIs ==
  ASSUME NEW b, NEW p \in Nat, NEW e \in Nat,
         NEW c \in Nat, p < c, Only(b, TokenChars, p, c), b[c + 1] = COLON,
         NEW v \in c + 1 .. e, Only(b, {SP, HT}, c + 1, v),
         v < e => b[v + 1] \notin {SP, HT}, Only(b, ValueChars, v, e),
         NEW t \in v .. e, Only(b, {SP, HT}, t, e), t = v \/ b[t] \notin {SP, HT}
  PROVE  /\ Past(b, Byte \ {COLON}, p, e) = c /\ Past(b, {SP, HT}, c + 1, e) = v
         /\ Trim(b, v, e) = t /\ b[p + 1] \notin {SP, HT}
         /\ Only(b, ValueChars, c + 1, e) /\ c < e
  <1>1. Past(b, Byte \ {COLON}, p, e) = c
    <2>1. c \in p .. e /\ Only(b, Byte \ {COLON}, p, c)
      BY TokenFacts, OnlyAll
    <2>2. b[c + 1] \notin Byte \ {COLON}
      OBVIOUS
    <2>. QED
      BY <2>1, <2>2, PastIs
  <1>2. Past(b, {SP, HT}, c + 1, e) = v
    <2>1. c + 1 \in Nat
      OBVIOUS
    <2>. QED
      BY <2>1, PastIs
  <1>3. Trim(b, v, e) = t
    <2>1. v \in Nat
      OBVIOUS
    <2>. QED
      BY <2>1, TrimIs
  <1>4. b[p + 1] \notin {SP, HT}
    <2>1. p + 1 \in p + 1 .. c
      OBVIOUS
    <2>. QED
      BY <2>1, TokenFacts DEF Only
  <1>5. Only(b, ValueChars, c + 1, e)
    <2>1. c + 1 \in Nat /\ v \in Nat /\ Only(b, ValueChars, c + 1, v)
      BY ValueFacts, OnlyAll
    <2>. QED
      BY <2>1, OnlyJoins
  <1>. QED
    BY <1>1, <1>2, <1>3, <1>4, <1>5

RequestParts(b, a, m, q, r, v) ==
  [NoLine EXCEPT !.method = Span(a, m), !.path = Span(q, r), !.version = b[v + 8] - 48]

RequestShape(b, a, m, q, r, v) ==
  /\ a \in Nat /\ m \in Nat /\ q \in Nat /\ r \in Nat /\ v \in Nat
  /\ a < m /\ Only(b, TokenChars, a, m) /\ b[m + 1] = SP
  /\ m < q /\ Only(b, {SP}, m, q) /\ b[q + 1] # SP
  /\ q < r /\ Only(b, PathChars, q, r) /\ b[r + 1] = SP
  /\ r < v /\ Only(b, {SP}, r, v) /\ b[v + 1] # SP /\ VersionAt(b, v)

LEMMA RequestIs ==
  ASSUME NEW b, NEW a, NEW m, NEW q, NEW r, NEW v, RequestShape(b, a, m, q, r, v),
         NEW l, l.from = a, l.to = v + 8
  PROVE  RequestOf(b, l) = Parsed(RequestParts(b, a, m, q, r, v))
  <1>. USE DEF RequestShape
  <1>. DEFINE to == v + 8
  <1>1. to \in Nat /\ m \in a .. to /\ q \in m .. to /\ r \in q .. to /\ v \in r .. to
    OBVIOUS
  <1>. HIDE DEF to
  <1>6. to = v + 8
    BY DEF to
  <1>2. Past(b, Byte \ {SP}, a, to) = m
    <2>1. Only(b, Byte \ {SP}, a, m)
      BY TokenFacts, OnlyAll
    <2>. QED
      BY <1>1, <2>1, PathFacts, PastIs
  <1>3. Past(b, {SP}, m, to) = q
    BY <1>1, PastIs
  <1>4. Past(b, Byte \ {SP}, q, to) = r
    <2>1. Only(b, Byte \ {SP}, q, r)
      BY PathFacts, OnlyAll
    <2>. QED
      BY <1>1, <2>1, PathFacts, PastIs
  <1>5. Past(b, {SP}, r, to) = v
    BY <1>1, PastIs
  <1>. QED
    BY <1>2, <1>3, <1>4, <1>5, <1>6 DEF RequestOf, RequestParts

StatusShape(b, c, x, e) ==
  /\ c \in Nat /\ x \in Nat /\ e \in Nat /\ VersionAt(b, 0)
  /\ 8 < c /\ Only(b, {SP}, 8, c) /\ b[c + 1] # SP /\ Only(b, Digits, c, c + 3)
  /\ c + 3 <= x /\ x <= e /\ Only(b, {SP}, c + 3, x) /\ Only(b, ValueChars, c + 3, e)
  /\ x < e => b[x + 1] # SP
  /\ c + 3 < x \/ x = e

StatusParts(b, c, x, e) ==
  [NoLine EXCEPT !.version = b[8] - 48,
                 !.status = 100 * (b[c + 1] - 48) + 10 * (b[c + 2] - 48)
                              + (b[c + 3] - 48),
                 !.msg = Span(x, e)]

LEMMA StatusIs ==
  ASSUME NEW b, NEW c, NEW x, NEW e, StatusShape(b, c, x, e),
         NEW l, l.from = 0, l.to = e
  PROVE  StatusOf(b, l) = Parsed(StatusParts(b, c, x, e))
  <1>. USE DEF StatusShape
  <1>1. c \in 8 .. e /\ c + 3 \in Nat /\ c + 3 <= e /\ x \in c + 3 .. e
    OBVIOUS
  <1>2. l.from + 8 = 8
    OBVIOUS
  <1>3. Past(b, {SP}, 8, e) = c
    <2>1. 8 \in Nat
      OBVIOUS
    <2>. QED
      BY <1>1, <2>1, PastIs
  <1>4. Past(b, {SP}, c + 3, e) = x
    BY <1>1, PastIs
  <1>5. Past(b, {SP}, l.from + 8, l.to) = c
    BY <1>2, <1>3
  <1>6. l.from + 8 = 8 /\ c > l.from + 8 /\ c + 3 <= l.to
    BY <1>1, <1>2
  <1>7. Past(b, {SP}, c + 3, l.to) = x
    BY <1>4
  <1>8. x > c + 3 \/ x = l.to
    BY <1>1
  <1>9. /\ VersionAt(b, l.from) /\ Only(b, Digits, c, c + 3)
        /\ Only(b, ValueChars, c + 3, l.to)
    OBVIOUS
  <1>10. StatusOf(b, l) = Parsed([NoLine EXCEPT !.version = b[l.from + 8] - 48,
                    !.status = 100 * (b[c + 1] - 48) + 10 * (b[c + 2] - 48) + (b[c + 3] - 48),
                    !.msg = Span(x, l.to)])
    BY ONLY <1>5, <1>6, <1>7, <1>8, <1>9 DEF StatusOf
  <1>. QED
    BY <1>6, <1>10 DEF StatusParts

-----------------------------------------------------------------------------
(***************************************************************************)
(* The recursion of Fields is well founded, from the end of the bytes:     *)
(* there is a function that satisfies it, and what it says is a record.    *)
(***************************************************************************)
LEMMA LineNext ==
  ASSUME NEW b \in Seq(Byte), NEW at \in Nat, HasLine(b, at)
  PROVE  Line(b, at).next \in at + 1 .. Len(b)
  <1>. DEFINE T == {i \in at .. Len(b) - 1 : b[i + 1] = LF}
  <1>1. PICK i \in at .. Len(b) - 1 : b[i + 1] = LF
    BY DEF HasLine
  <1>2. T \subseteq Nat /\ i \in T /\ Len(b) \in Nat
    BY <1>1
  <1>3. PICK lf \in T : \A y \in T : lf <= y
    BY <1>2, Least
  <1>4. Min(T) = lf
    BY <1>2, <1>3, MinIs
  <1>5. lf \in at .. Len(b) - 1
    OBVIOUS
  <1>. HIDE DEF T
  <1>6. Line(b, at).next = lf + 1
    BY <1>4 DEF Line, T
  <1>. QED
    BY <1>2, <1>5, <1>6

LEMMA FieldLocal ==
  ASSUME NEW b \in Seq(Byte), NEW f, NEW at \in Nat, NEW g, NEW h,
         \A i \in at + 1 .. Len(b) : g[i] = h[i]
  PROVE  Field(b, f, at, g) = Field(b, f, at, h)
  <1>1. HasLine(b, at) => g[Line(b, at).next] = h[Line(b, at).next]
    BY LineNext
  <1>. QED
    BY <1>1 DEF Field

SaysFrom(g, b, f, from) ==
  g = [at \in from .. Len(b) |-> Field(b, f, at, g)]

LEMMA FieldsExist ==
  ASSUME NEW b \in Seq(Byte), NEW f \in 0 .. Len(b)
  PROVE  \E g : SaysFrom(g, b, f, f)
  <1>. DEFINE From(m) == Len(b) + 1 - m
              Bad == {m \in 0 .. Len(b) + 1 : ~ \E g : SaysFrom(g, b, f, From(m))}
  <1>1. Len(b) \in Nat
    OBVIOUS
  <1>2. Bad = {}
    <2>. SUFFICES ASSUME Bad # {} PROVE FALSE
      OBVIOUS
    <2>1. Bad \subseteq Nat
      BY <1>1
    <2>2. PICK m \in Bad : \A j \in Bad : m <= j
      BY <2>1, Least
    <2>3. CASE m = 0
      <3>. DEFINE g == [at \in From(m) .. Len(b) |-> 0]
      <3>1. From(m) .. Len(b) = {}
        BY <1>1, <2>3
      <3>2. g = [at \in From(m) .. Len(b) |-> Field(b, f, at, g)]
        BY <3>1
      <3>3. SaysFrom(g, b, f, From(m))
        BY <3>2 DEF SaysFrom
      <3>. QED
        BY <2>2, <3>3
    <2>4. CASE m # 0
      <3>. DEFINE k == From(m)
      <3>1. /\ m - 1 \in 0 .. Len(b) + 1 /\ m - 1 \notin Bad
            /\ From(m - 1) = k + 1 /\ k \in 0 .. Len(b)
        BY <1>1, <2>2, <2>4
      <3>2. PICK g : SaysFrom(g, b, f, From(m - 1))
        BY <3>1
      <3>. HIDE DEF k, From
      <3>3. g = [at \in k + 1 .. Len(b) |-> Field(b, f, at, g)]
        BY <3>1, <3>2 DEF SaysFrom
      <3>. DEFINE first == Field(b, f, k, g)
                  h == [at \in k .. Len(b) |-> IF at = k THEN first ELSE g[at]]
      <3>. HIDE DEF first
      <3>4. \A i \in k + 1 .. Len(b) : g[i] = h[i]
        BY <1>1, <3>1
      <3>5. ASSUME NEW at \in k .. Len(b)
            PROVE  h[at] = Field(b, f, at, h)
        <4>1. at \in Nat
          BY <1>1, <3>1
        <4>2. \A i \in at + 1 .. Len(b) : g[i] = h[i]
          <5>1. \A i \in at + 1 .. Len(b) : i \in k + 1 .. Len(b)
            BY <1>1, <3>1
          <5>. QED
            BY <3>4, <5>1
        <4>. HIDE DEF h
        <4>3. Field(b, f, at, g) = Field(b, f, at, h)
          BY <4>1, <4>2, FieldLocal
        <4>4. h[at] = Field(b, f, at, g)
          <5>1. CASE at = k
            BY <5>1 DEF h, first
          <5>2. CASE at # k
            <6>1. at \in k + 1 .. Len(b)
              BY <1>1, <3>1, <5>2
            <6>2. g[at] = Field(b, f, at, g)
              BY <3>3, <6>1
            <6>. QED
              BY <6>1, <6>2, <3>4
          <5>. QED
            BY <5>1, <5>2
        <4>. QED
          BY <4>3, <4>4
      <3>6. h = [at \in k .. Len(b) |-> h[at]]
        OBVIOUS
      <3>. HIDE DEF h
      <3>7. h = [at \in k .. Len(b) |-> Field(b, f, at, h)]
        BY <3>5, <3>6
      <3>8. SaysFrom(h, b, f, k)
        BY <3>7 DEF SaysFrom
      <3>. QED
        BY <2>2, <3>8 DEF k
    <2>. QED
      BY <2>3, <2>4
  <1>3. Len(b) + 1 - f \in 0 .. Len(b) + 1 /\ From(Len(b) + 1 - f) = f
    BY <1>1
  <1>. QED
    BY <1>2, <1>3

LEMMA FieldsUnfold ==
  ASSUME NEW b \in Seq(Byte), NEW f \in 0 .. Len(b), NEW at \in f .. Len(b)
  PROVE  Fields(b, f)[at] = Field(b, f, at, Fields(b, f))
  <1>. DEFINE R == CHOOSE g : SaysFrom(g, b, f, f)
  <1>1. Fields(b, f) = R
    BY DEF Fields, SaysFrom
  <1>2. SaysFrom(R, b, f, f)
    BY FieldsExist
  <1>. HIDE DEF R
  <1>3. R[at] = Field(b, f, at, R)
    BY <1>2 DEF SaysFrom
  <1>. QED
    BY <1>1, <1>3

(* All that a line of a block may say as a field. *)
Outs(b, f) == {FieldOf(b, Line(b, at), at = f).out : at \in f .. Len(b)}

Said(S) == [ok : BOOLEAN, end : Nat, line : {NoLine}, fields : Seq(S)]

LEMMA FieldTyped ==
  ASSUME NEW b \in Seq(Byte), NEW f \in Nat, NEW at \in f .. Len(b), NEW g,
         NEW S, Outs(b, f) \subseteq S,
         \A i \in at + 1 .. Len(b) : g[i] \in Said(S)
  PROVE  Field(b, f, at, g) \in Said(S)
  <1>. DEFINE l == Line(b, at)
              field == FieldOf(b, l, at = f)
              r == g[l.next]
  <1>1. Nothing \in Said(S)
    BY DEF Nothing, Said
  <1>2. CASE ~HasLine(b, at)
    BY <1>1, <1>2 DEF Field
  <1>3. CASE HasLine(b, at)
    <2>1. l.next \in at + 1 .. Len(b) /\ at \in Nat
      BY <1>3, LineNext
    <2>2. r \in Said(S) /\ l.next \in Nat
      BY <2>1
    <2>3. field.out \in S
      BY DEF Outs
    <2>. HIDE DEF field, r, l
    <2>4. Over(l.next) \in Said(S)
      <3>1. << >> \in Seq(S)
        OBVIOUS
      <3>. QED
        BY <2>2, <3>1 DEF Over, Said
    <2>5. [r EXCEPT !.fields = <<field.out>> \o @] \in Said(S)
      <3>1. r.fields \in Seq(S) /\ <<field.out>> \in Seq(S)
        BY <2>2, <2>3 DEF Said
      <3>2. <<field.out>> \o r.fields \in Seq(S)
        BY <3>1, ConcatProperties
      <3>. QED
        BY <2>2, <3>2 DEF Said
    <2>. QED
      BY <1>1, <1>3, <2>4, <2>5 DEF Field, field, r, l
  <1>. QED
    BY <1>2, <1>3

LEMMA FieldsTyped ==
  ASSUME NEW b \in Seq(Byte), NEW f \in 0 .. Len(b), NEW at \in f .. Len(b),
         NEW S, Outs(b, f) \subseteq S
  PROVE  Fields(b, f)[at] \in Said(S)
  <1>. DEFINE R == Fields(b, f)
              From(m) == Len(b) - m
              Bad == {m \in 0 .. Len(b) - f : R[From(m)] \notin Said(S)}
  <1>1. Len(b) \in Nat
    OBVIOUS
  <1>2. Bad = {}
    <2>. SUFFICES ASSUME Bad # {} PROVE FALSE
      OBVIOUS
    <2>1. Bad \subseteq Nat
      BY <1>1
    <2>2. PICK m \in Bad : \A j \in Bad : m <= j
      BY <2>1, Least
    <2>. DEFINE k == From(m)
    <2>3. k \in f .. Len(b) /\ m \in 0 .. Len(b) - f /\ m + k = Len(b)
      BY <1>1, <2>2
    <2>4. ASSUME NEW i \in k + 1 .. Len(b)
          PROVE  R[i] \in Said(S)
      <3>. DEFINE j == Len(b) - i
      <3>1. j \in 0 .. Len(b) - f /\ j < m /\ From(j) = i
        BY <1>1, <2>3
      <3>2. j \notin Bad
        <4>1. m \in Nat /\ j \in Nat /\ ~(m <= j)
          BY <1>1, <2>3, <3>1
        <4>. HIDE DEF Bad, j
        <4>. QED
          BY <2>2, <4>1
      <3>. HIDE DEF R, j, From
      <3>. QED
        BY <3>1, <3>2
    <2>. HIDE DEF R, k
    <2>5. Field(b, f, k, R) \in Said(S)
      BY <2>3, <2>4, FieldTyped
    <2>6. R[k] = Field(b, f, k, R)
      BY <2>3, FieldsUnfold DEF R
    <2>. QED
      BY <2>2, <2>5, <2>6 DEF k
  <1>3. Len(b) - at \in 0 .. Len(b) - f /\ From(Len(b) - at) = at
    BY <1>1
  <1>. QED
    BY <1>2, <1>3

-----------------------------------------------------------------------------
(***************************************************************************)
(* What has been read, at each part of a call, is what the grammar says of *)
(* the stream so far.                                                      *)
(***************************************************************************)
BreakAt(b, e, n) ==
  /\ \/ b[e + 1] = LF /\ n = e + 1
     \/ b[e + 1] = CR /\ b[e + 2] = LF /\ n = e + 2
  /\ n <= Len(b)

Spaces(b, from, to) == from < to /\ Only(b, {SP}, from, to)

(* A request: its method from a on, its path from q on. *)
AtMethod(b, a, p) ==
  /\ a \in Nat /\ p \in Nat /\ a <= p
  /\ Leading("request", b) = a /\ Only(b, TokenChars, a, p)

HasMethod(b, a, m) == AtMethod(b, a, m) /\ b[m + 1] = SP

AtPath(b, m, q, p) ==
  /\ q \in Nat /\ p \in Nat /\ q <= p
  /\ Spaces(b, m, q) /\ b[q + 1] # SP /\ Only(b, PathChars, q, p)

HasPath(b, m, q, r) == AtPath(b, m, q, r) /\ b[r + 1] = SP

MethodLine(a, m)     == [NoLine EXCEPT !.method = Span(a, m)]
PathLine(a, m, q, r) == [MethodLine(a, m) EXCEPT !.path = Span(q, r)]

InPath(b, l, q, p) ==
  \E a, m \in Nat :
    HasMethod(b, a, m) /\ AtPath(b, m, q, p) /\ l = MethodLine(a, m)

InVersion(b, l, p) ==
  \E a, m, q, r \in Nat :
    /\ HasMethod(b, a, m) /\ HasPath(b, m, q, r) /\ l = PathLine(a, m, q, r)
    /\ a < m /\ q < r /\ Spaces(b, r, p) /\ b[p + 1] # SP

InEol(b, l, p) ==
  \E a \in Nat :
    /\ Leading("request", b) = a /\ a < p /\ Only(b, Byte \ Breaks, a, p)
    /\ \A i : i.from = a /\ i.to = p => RequestOf(b, i) = Parsed(l)

(* A response: its code from c on. *)
VersionLine(b) == [NoLine EXCEPT !.version = b[8] - 48]

CodeLine(b, c, p) ==
  [VersionLine(b) EXCEPT !.status =
     (IF p > c THEN 100 * (b[c + 1] - 48) ELSE 0)
       + (IF p > c + 1 THEN 10 * (b[c + 2] - 48) ELSE 0)
       + (IF p > c + 2 THEN b[c + 3] - 48 ELSE 0)]

AtCode(b, c, p) ==
  /\ c \in Nat /\ c <= p /\ p <= c + 3 /\ VersionAt(b, 0) /\ Spaces(b, 8, c)
  /\ b[c + 1] # SP /\ Only(b, Digits, c, p)

InReason(b, l, st, p) ==
  \E c \in Nat :
    /\ AtCode(b, c, c + 3) /\ l = CodeLine(b, c, c + 3) /\ st = c + 3
    /\ st <= p /\ Only(b, ValueChars, st, p)

WithMsg(l, piece) == [l EXCEPT !.msg = piece]

InStrip(b, l, st, e, p) ==
  \E c \in Nat :
    /\ AtCode(b, c, c + 3) /\ l = WithMsg(CodeLine(b, c, c + 3), Span(c + 3, e))
    /\ c + 3 <= st /\ st <= e /\ c + 3 < e /\ b[c + 4] = SP
    /\ Only(b, {SP}, c + 3, st) /\ Only(b, ValueChars, c + 3, e) /\ BreakAt(b, e, p)

(* A block of fields, from f on: the first n of them, in the array a, go   *)
(* up to offset p.                                                         *)
Headed(b, k, l, a, n, f, p) ==
  /\ f \in Nat /\ p \in Nat /\ f <= p /\ p <= Len(b)
  /\ Meaning(k, b) = Block(b, l, f)
  /\ n = 0 <=> p = f
  /\ Fields(b, f)[f] = [Fields(b, f)[p] EXCEPT !.fields = SubSeq(a, 1, n) \o @]

(* The field in progress, from q on: its name is over, its value begins at *)
(* offset v and all up to offset p may stand in it.                        *)
InField(b, n, q, name, v, p) ==
  /\ v \in Nat /\ v <= p /\ Only(b, ValueChars, v, p)
  /\ \/ n > 0 /\ v = q /\ name = Null /\ b[q + 1] \in {SP, HT}
     \/ \E c \in Nat :
          /\ q < c /\ Only(b, TokenChars, q, c) /\ b[c + 1] = COLON
          /\ name = Span(q, c) /\ c + 1 <= v /\ Only(b, {SP, HT}, c + 1, v)
          /\ b[v + 1] \notin {SP, HT}

-----------------------------------------------------------------------------
Stream == exchange.stream

Receiving ==
  /\ exchange \in Exchanges /\ fed \in 0 .. Len(exchange.stream)
  /\ kind = exchange.kind
  /\ pc # "idle" => /\ buf = SubSeq(exchange.stream, 1, fed)
                    /\ cap = exchange.cap /\ ret = PARTIAL

InFirstLine ==
  /\ pc \in {"blank", "method", "before_path", "path", "before_version", "eol"} =>
       kind = "request"
  /\ pc \in {"space", "spaces", "status", "reason_words", "reason", "strip"} =>
       kind = "response"
  /\ pc = "version" => kind # "headers"
  /\ pc = "blank" => pos = 0
  /\ pc = "method" => AtMethod(Stream, start, pos)
  /\ pc = "before_path" =>
       \E a, m \in Nat : /\ HasMethod(Stream, a, m) /\ Spaces(Stream, m, pos)
                         /\ line = MethodLine(a, m)
  /\ pc = "path" => InPath(Stream, line, start, pos)
  /\ pc = "before_version" =>
       \E a, m, q, r \in Nat :
         /\ HasMethod(Stream, a, m) /\ HasPath(Stream, m, q, r)
         /\ line = PathLine(a, m, q, r) /\ Spaces(Stream, r, pos)
  /\ pc = "version" /\ kind = "request" => InVersion(Stream, line, pos)
  /\ pc = "eol" => InEol(Stream, line, pos)
  /\ pc = "version" /\ kind = "response" => pos = 0 /\ line = NoLine
  /\ pc = "space" =>
       pos = 8 /\ VersionAt(Stream, 0) /\ line = VersionLine(Stream)
  /\ pc = "spaces" =>
       VersionAt(Stream, 0) /\ Spaces(Stream, 8, pos) /\ line = VersionLine(Stream)
  /\ pc = "status" =>
       AtCode(Stream, start, pos) /\ line = CodeLine(Stream, start, pos)
  /\ pc \in {"reason_words", "reason"} => InReason(Stream, line, start, pos)
  /\ pc = "strip" => InStrip(Stream, line, start, stop, pos)

FieldsSoFar(f, p) == Headed(Stream, kind, line, slots, count, f, p)

InBlock ==
  /\ pc = "line" => \E f \in Nat : FieldsSoFar(f, pos)
  /\ pc = "name" =>
       \E f \in Nat : FieldsSoFar(f, start) /\ Only(Stream, TokenChars, start, pos)
  /\ pc = "before_value" =>
       \E f, q, c \in Nat :
         /\ FieldsSoFar(f, q) /\ q < c /\ c < pos
         /\ Only(Stream, TokenChars, q, c) /\ Stream[c + 1] = COLON
         /\ Current.name = Span(q, c) /\ Only(Stream, {SP, HT}, c + 1, pos)
  /\ pc \in {"value_words", "value"} =>
       \E f, q \in Nat :
         /\ FieldsSoFar(f, q)
         /\ InField(Stream, count, q, Current.name, start, pos)
  /\ pc = "trim" =>
       \E f, q, e \in Nat :
         /\ FieldsSoFar(f, q) /\ InField(Stream, count, q, Current.name, start, e)
         /\ BreakAt(Stream, e, pos)
         /\ start <= stop /\ stop <= e /\ Only(Stream, {SP, HT}, stop, e)

HeadReads ==
  /\ Receiving /\ InFirstLine /\ InBlock
  /\ AcceptsTheHead /\ PrefixSurvives

(***************************************************************************)
(* What a step sees of its buffer is what stands in the stream.            *)
(***************************************************************************)
LEMMA Received ==
  ASSUME HeadReads, pc # "idle"
  PROVE  /\ Stream \in Seq(Byte) /\ fed \in Nat /\ Len(buf) = fed
         /\ fed <= Len(Stream) /\ \A i \in 1 .. fed : buf[i] = Stream[i]
         /\ exchange \in Exchanges /\ kind \in Kinds /\ exchange.cap \in Nat
  <1>1. /\ exchange \in Exchanges /\ fed \in 0 .. Len(exchange.stream)
        /\ kind = exchange.kind /\ buf = SubSeq(exchange.stream, 1, fed)
    BY DEF HeadReads, Receiving
  <1>2. Stream \in Seq(Byte) /\ kind \in Kinds /\ exchange.cap \in Nat
    BY <1>1, ExchangeAssumption DEF Stream
  <1>. QED
    BY <1>1, <1>2 DEF Stream

LEMMA SeesStream ==
  ASSUME HeadReads, HInv, pc # "idle", NEW S, Sees(S)
  PROVE  /\ pos < Len(buf) /\ pos + 1 \in 1 .. fed /\ pos \in Nat
         /\ Octet(pos) = Stream[pos + 1] /\ Stream[pos + 1] \in S
         /\ Stream \in Seq(Byte)
         /\ fed \in Nat /\ fed <= Len(Stream) /\ pos < Len(Stream)
  <1>1. pos \in Nat
    BY DEF HInv, HeadTypeOK
  <1>. QED
    BY <1>1, Received DEF Sees, Octet

LEMMA BreakInStream ==
  ASSUME HeadReads, HInv, pc # "idle", Sees(Breaks), LineBreak > 0
  PROVE  /\ BreakAt(Stream, pos, pos + LineBreak) /\ LineBreak \in {1, 2}
         /\ pos \in Nat /\ pos + LineBreak <= fed
  <1>1. /\ pos + 1 \in 1 .. fed /\ pos \in Nat /\ Octet(pos) = Stream[pos + 1]
        /\ Stream[pos + 1] \in Breaks /\ fed \in Nat /\ fed <= Len(Stream)
        /\ Len(buf) = fed /\ \A i \in 1 .. fed : buf[i] = Stream[i]
        /\ Len(Stream) \in Nat
    BY SeesStream, Received
  <1>2. CASE Octet(pos) = LF
    <2>1. LineBreak = 1
      BY <1>2 DEF LineBreak
    <2>. QED
      BY <1>1, <1>2, <2>1 DEF BreakAt
  <1>3. CASE Octet(pos) # LF
    <2>1. /\ pos + 1 # Len(buf) /\ Octet(pos + 1) = LF /\ LineBreak = 2
      BY <1>3 DEF LineBreak, PARTIAL, MALFORMED
    <2>2. pos + 2 \in 1 .. fed
      BY <1>1, <2>1
    <2>3. Octet(pos + 1) = Stream[pos + 2]
      BY <1>1, <2>2 DEF Octet
    <2>4. Stream[pos + 1] = CR
      BY <1>1, <1>3 DEF Breaks
    <2>. QED
      BY <1>1, <2>1, <2>2, <2>3, <2>4 DEF BreakAt
  <1>. QED
    BY <1>2, <1>3

LEMMA FrontIs ==
  ASSUME NEW S, NEW T, NEW s \in Seq(S), NEW t \in Seq(T)
  PROVE  /\ Len(s) <= Len(s \o t)
         /\ SubSeq(s \o t, 1, Len(s)) = s
  <1>1. s \in Seq(S \cup T) /\ t \in Seq(S \cup T)
    OBVIOUS
  <1>2. /\ s \o t \in Seq(S \cup T) /\ Len(s \o t) = Len(s) + Len(t)
        /\ \A i \in 1 .. Len(s) : (s \o t)[i] = s[i]
    BY <1>1, ConcatProperties
  <1>3. /\ SubSeq(s \o t, 1, Len(s)) \in Seq(S \cup T)
        /\ Len(SubSeq(s \o t, 1, Len(s))) = Len(s)
        /\ \A i \in 1 .. Len(s) : SubSeq(s \o t, 1, Len(s))[i] = (s \o t)[i]
    BY <1>2, SubSeqProperties
  <1>. QED
    BY <1>1, <1>2, <1>3, SeqEqual

(***************************************************************************)
(* The headers counted are the first ones of the message.                  *)
(***************************************************************************)
(* The first n of s are the first n of w. *)
Begins(w, s, n) == n <= Len(w) /\ SubSeq(s, 1, n) = SubSeq(w, 1, n)

(* The head m is the first line l, the first n of a and what r says. *)
HeadIs(m, l, a, n, r) ==
  /\ m.ok = r.ok /\ m.end = r.end /\ m.line = l
  /\ m.fields = SubSeq(a, 1, n) \o r.fields
  /\ SubSeq(a, 1, n) \in Seq(Slots) /\ Len(SubSeq(a, 1, n)) = n

LEMMA HeadedSays ==
  ASSUME NEW b \in Seq(Byte), NEW k, NEW l, NEW a \in Seq(Slots), NEW n \in Nat,
         n <= Len(a), NEW f, NEW p, Headed(b, k, l, a, n, f, p)
  PROVE  /\ Fields(b, f)[p] \in Said(Outs(b, f))
         /\ HeadIs(Meaning(k, b), l, a, n, Fields(b, f)[p])
         /\ Begins(Meaning(k, b).fields, a, n)
  <1>. DEFINE rest == Fields(b, f)[p]
  <1>1. f \in 0 .. Len(b) /\ p \in f .. Len(b)
    BY DEF Headed
  <1>2. rest \in Said(Outs(b, f)) /\ Fields(b, f)[f] \in Said(Outs(b, f))
    BY <1>1, FieldsTyped
  <1>3. SubSeq(a, 1, n) \in Seq(Slots) /\ Len(SubSeq(a, 1, n)) = n
    BY SubSeqProperties
  <1>4. /\ Meaning(k, b) = [Fields(b, f)[f] EXCEPT !.line = l]
        /\ Fields(b, f)[f] = [rest EXCEPT !.fields = SubSeq(a, 1, n) \o @]
    BY DEF Headed, Block
  <1>. HIDE DEF rest
  <1>. DEFINE first == SubSeq(a, 1, n)
              whole == Fields(b, f)[f]
  <1>5. rest.fields \in Seq(Outs(b, f))
    BY <1>2 DEF Said
  <1>. HIDE DEF first, whole
  <1>6. /\ whole.fields = first \o rest.fields /\ whole.ok = rest.ok
        /\ whole.end = rest.end
    BY <1>2, <1>4 DEF Said, whole, first
  <1>7. /\ Meaning(k, b).fields = whole.fields /\ Meaning(k, b).ok = whole.ok
        /\ Meaning(k, b).end = whole.end /\ Meaning(k, b).line = l
    BY <1>2, <1>4 DEF Said, whole
  <1>8. Len(first) <= Len(first \o rest.fields)
        /\ SubSeq(first \o rest.fields, 1, Len(first)) = first
    BY <1>3, <1>5, FrontIs DEF first
  <1>. QED
    BY <1>2, <1>3, <1>6, <1>7, <1>8 DEF Begins, HeadIs, rest, first

LEMMA SlotsAre ==
  ASSUME HInv
  PROVE  slots \in Seq(Slots) /\ Len(slots) = cap /\ count \in Nat /\ count <= cap
  BY DEF HInv, HeadTypeOK

LEMMA PrefixHolds ==
  ASSUME HeadReads, HInv, pc # "idle", count > 0
  PROVE  /\ count <= Len(Whole.fields)
         /\ SubSeq(slots, 1, count) = SubSeq(Whole.fields, 1, count)
  <1>1. pc \in {"line", "name", "before_value", "value_words", "value", "trim"}
    BY DEF HInv, FirstLineFirst, FirstLineParts, HeadTypeOK, Parts, Reading
  <1>2. PICK f, p \in Nat : FieldsSoFar(f, p)
    <2>1. start \in Nat /\ pos \in Nat
      BY DEF HInv, HeadTypeOK
    <2>. QED
      BY <1>1, <2>1 DEF HeadReads, InBlock
  <1>3. Headed(Stream, kind, line, slots, count, f, p)
    BY <1>2 DEF FieldsSoFar
  <1>4. slots \in Seq(Slots) /\ count \in Nat /\ count <= Len(slots)
    BY SlotsAre
  <1>5. Stream \in Seq(Byte) /\ kind = exchange.kind
    BY Received DEF HeadReads, Receiving
  <1>6. Begins(Meaning(kind, Stream).fields, slots, count)
    BY <1>3, <1>4, <1>5, HeadedSays
  <1>. QED
    BY <1>5, <1>6 DEF Begins, Whole, Stream

(***************************************************************************)
(* Ways a step goes on: with an error, or in the same call.                *)
(***************************************************************************)
LEMMA FailReads ==
  ASSUME HeadReads, HInv, pc # "idle", pc' = "idle", ret' < 0, ret' \in Int,
         kind' = kind, count' = count, UNCHANGED <<exchange, fed>>,
         SubSeq(slots', 1, count) = SubSeq(slots, 1, count)
  PROVE  HeadReads'
  <1>1. Receiving'
    BY DEF HeadReads, Receiving
  <1>2. InFirstLine' /\ InBlock'
    BY DEF InFirstLine, InBlock
  <1>3. AcceptsTheHead'
    BY DEF AcceptsTheHead
  <1>4. Whole' = Whole
    BY DEF Whole
  <1>5. count \in Nat
    BY SlotsAre
  <1>6. PrefixSurvives'
    BY <1>4, <1>5, PrefixHolds DEF PrefixSurvives
  <1>. QED
    BY <1>1, <1>2, <1>3, <1>6 DEF HeadReads

LEMMA GoesOn ==
  ASSUME HeadReads, pc # "idle", pc' # "idle", UNCHANGED <<args, ret, exchange, fed>>
  PROVE  /\ Receiving' /\ AcceptsTheHead' /\ PrefixSurvives'
         /\ Stream' = Stream /\ kind' = kind
  BY DEF HeadReads, Receiving, args, AcceptsTheHead, PrefixSurvives, Stream

FirstParts ==
  {"gate", "blank", "method", "before_path", "path", "before_version", "version",
   "eol", "space", "spaces", "status", "reason_words", "reason", "strip"}

LEMMA StillFirst ==
  ASSUME HeadReads, pc # "idle", pc' \in FirstParts, UNCHANGED <<args, ret, exchange, fed>>,
         InFirstLine'
  PROVE  HeadReads'
  <1>1. pc' # "idle" /\ InBlock'
    BY DEF FirstParts, InBlock
  <1>. QED
    BY <1>1, GoesOn DEF HeadReads

LEMMA NowInBlock ==
  ASSUME HeadReads, pc # "idle", UNCHANGED <<args, ret, exchange, fed>>, InBlock',
         pc' \in {"line", "name", "before_value", "value_words", "value", "trim"}
  PROVE  HeadReads'
  <1>1. pc' # "idle" /\ InFirstLine'
    BY DEF InFirstLine
  <1>. QED
    BY <1>1, GoesOn DEF HeadReads

LEMMA SomeFail ==
  ASSUME HeadReads, HInv, pc # "idle", NEW error \in Int, error < 0, Fail(error),
         UNCHANGED <<exchange, fed>>
  PROVE  HeadReads'
  BY FailReads DEF Fail, Return, args, outputs

LEMMA NothingYet ==
  ASSUME NEW b \in Seq(Byte), NEW k, NEW l, NEW a \in Seq(Slots), NEW f \in 0 .. Len(b),
         Meaning(k, b) = Block(b, l, f)
  PROVE  Headed(b, k, l, a, 0, f, f)
  <1>. DEFINE whole == Fields(b, f)[f]
  <1>1. f \in f .. Len(b) /\ f \in Nat
    OBVIOUS
  <1>2. whole \in Said(Outs(b, f))
    BY <1>1, FieldsTyped
  <1>. HIDE DEF whole
  <1>3. SubSeq(a, 1, 0) = << >>
    OBVIOUS
  <1>4. whole.fields \in Seq(Outs(b, f))
    BY <1>2 DEF Said
  <1>5. << >> \o whole.fields = whole.fields
    BY <1>4
  <1>6. whole = [whole EXCEPT !.fields = << >> \o @]
    BY <1>2, <1>5 DEF Said
  <1>7. whole = [whole EXCEPT !.fields = SubSeq(a, 1, 0) \o @]
    BY <1>3, <1>6
  <1>. QED
    BY <1>1, <1>7 DEF Headed, whole

(* To begin the parse is to have read nothing. *)
LEMMA PartBegins ==
  ASSUME Receiving', kind' \in Kinds, pc' \in {"gate", FirstPart(kind')},
         pc' # "gate" => pos' = 0, line' = NoLine, count' = 0,
         slots' \in Seq(Slots), exchange' \in Exchanges
  PROVE  HeadReads'
  <1>1. exchange'.stream \in Seq(Byte) /\ kind' = exchange'.kind
    BY ExchangeAssumption DEF Receiving
  <1>2. pc' # "idle" /\ AcceptsTheHead' /\ PrefixSurvives'
    BY DEF FirstPart, Kinds, AcceptsTheHead, PrefixSurvives
  <1>3. InFirstLine'
    BY DEF InFirstLine, FirstPart, Kinds
  <1>4. CASE pc' # "line"
    <2>1. InBlock'
      BY <1>4 DEF InBlock, FirstPart, Kinds
    <2>. QED
      BY <1>2, <1>3, <2>1 DEF HeadReads
  <1>5. CASE pc' = "line"
    <2>1. kind' = "headers" /\ pos' = 0
      BY <1>5 DEF FirstPart, Kinds
    <2>. DEFINE b == exchange'.stream
    <2>2. Meaning("headers", b) = Block(b, NoLine, 0) /\ 0 \in 0 .. Len(b)
      BY <1>1 DEF Meaning
    <2>10. Headed(b, "headers", NoLine, slots', 0, 0, 0)
      BY <1>1, <2>2, NothingYet
    <2>11. Headed(Stream, kind, line, slots, count, 0, pos)'
      BY <2>1, <2>10 DEF Stream
    <2>12. InBlock'
      BY <1>5, <2>11 DEF InBlock, FieldsSoFar
    <2>. QED
      BY <1>2, <1>3, <2>12 DEF HeadReads
  <1>. QED
    BY <1>4, <1>5

-----------------------------------------------------------------------------
(***************************************************************************)
(* A call begins, and its gate.                                            *)
(***************************************************************************)
LEMMA DeliverReads ==
  ASSUME HeadReads, HInv, NEW n \in 1 .. Len(exchange.stream) - fed, Deliver(n)
  PROVE  HeadReads'
  <1>1. /\ exchange \in Exchanges /\ fed \in 0 .. Len(exchange.stream)
        /\ exchange.kind \in Kinds /\ exchange.stream \in Seq(Byte)
        /\ exchange.cap \in Nat
    BY ExchangeAssumption DEF HeadReads, Receiving
  <1>2. /\ exchange' = exchange /\ fed' = fed + n /\ ret = PARTIAL /\ ret' = ret
        /\ kind' = exchange.kind /\ buf' = SubSeq(exchange.stream, 1, fed')
        /\ Zeroed(exchange.cap)
        /\ pc' \in {"gate", FirstPart(exchange.kind)} /\ (pc' # "gate" => pos' = 0)
    <2>1. FirstPart(exchange.kind) # "gate"
      BY <1>1 DEF FirstPart, Kinds
    <2>. QED
      BY <2>1 DEF Deliver, Enter
  <1>3. /\ slots' \in [1 .. cap' -> Slots] /\ cap' = exchange.cap /\ count' = 0
        /\ line' = NoLine
    BY <1>1, <1>2, FreshArray
  <1>4. fed + n \in 0 .. Len(exchange.stream)
    BY <1>1
  <1>5. Receiving'
    BY <1>1, <1>2, <1>3, <1>4 DEF Receiving
  <1>6. slots' \in Seq(Slots)
    BY <1>1, <1>3
  <1>. QED
    BY <1>1, <1>2, <1>3, <1>5, <1>6, PartBegins

LEMMA GateByteReads ==
  ASSUME HeadReads, HInv, GateByte, UNCHANGED <<exchange, fed>>
  PROVE  HeadReads'
  <1>1. pc # "idle" /\ pc' = "gate" /\ UNCHANGED <<args, ret>>
    BY DEF GateByte, Goto
  <1>2. InFirstLine'
    BY <1>1 DEF InFirstLine
  <1>. QED
    BY <1>1, <1>2, StillFirst DEF FirstParts

LEMMA GateBreakReads ==
  ASSUME HeadReads, HInv, GateBreak, UNCHANGED <<exchange, fed>>
  PROVE  HeadReads'
  <1>1. /\ pc = "gate" /\ UNCHANGED <<args, ret, outputs>>
        /\ pc' \in {"gate", FirstPart(kind)} /\ (pc' # "gate" => pos' = 0)
    BY DEF GateBreak, Goto
  <1>2. /\ line' = NoLine /\ count' = 0 /\ slots' \in Seq(Slots)
        /\ kind' = kind /\ kind \in Kinds /\ exchange' \in Exchanges
    BY <1>1, SlotsAre, Received DEF HInv, FirstLineFirst, FirstLineParts, outputs, args
  <1>3. pc' # "idle"
    BY <1>1, <1>2 DEF FirstPart, Kinds
  <1>4. Receiving'
    BY <1>1, <1>3, GoesOn
  <1>. QED
    BY <1>1, <1>2, <1>4, PartBegins

(***************************************************************************)
(* The first line of a request.                                            *)
(***************************************************************************)
LEMMA LeadingLineReads ==
  ASSUME HeadReads, HInv, LeadingLine, UNCHANGED <<exchange, fed>>
  PROVE  HeadReads'
  <1>1. /\ pc = "blank" /\ pc' = "method" /\ UNCHANGED <<args, ret>> /\ start' = pos'
        /\ pos = 0 /\ kind = "request"
    BY DEF LeadingLine, Goto, HeadReads, InFirstLine
  <1>2. AtMethod(Stream, pos', pos')
    <2>1. CASE Sees(Breaks) /\ LineBreak > 0 /\ pos' = pos + LineBreak
      <3>1. /\ BreakAt(Stream, 0, pos') /\ pos' \in Nat /\ Stream \in Seq(Byte)
        BY <1>1, <2>1, BreakInStream, Received
      <3>2. Ends(Stream, 0, 0, pos')
        BY <3>1, OnlyNone DEF BreakAt, Ends
      <3>3. Leading("request", Stream) = pos'
        BY <3>1, <3>2, LeadingSkips
      <3>. QED
        BY <3>1, <3>3, OnlyNone DEF AtMethod
    <2>2. CASE Sees(Byte \ Breaks) /\ pos' = pos
      <3>1. /\ Stream \in Seq(Byte) /\ Len(Stream) > 0 /\ Stream[1] \notin Breaks
        BY <1>1, <2>2, SeesStream
      <3>2. Leading("request", Stream) = pos'
        BY <1>1, <2>2, <3>1, LeadingNone
      <3>. QED
        BY <1>1, <2>2, <3>2, OnlyNone DEF AtMethod
    <2>. QED
      BY <2>1, <2>2 DEF LeadingLine
  <1>3. Stream' = Stream /\ kind' = kind
    BY <1>1, GoesOn
  <1>4. InFirstLine'
    BY <1>1, <1>2, <1>3 DEF InFirstLine
  <1>. QED
    BY <1>1, <1>4, StillFirst DEF FirstParts

LEMMA MethodByteReads ==
  ASSUME HeadReads, HInv, MethodByte, UNCHANGED <<exchange, fed>>
  PROVE  HeadReads'
  <1>1. /\ pc = "method" /\ pc' = "method" /\ UNCHANGED <<args, ret>> /\ start' = start
        /\ pos' = pos + 1 /\ kind = "request" /\ AtMethod(Stream, start, pos)
        /\ Sees(TokenChars)
    BY DEF MethodByte, Advance, Goto, HeadReads, InFirstLine
  <1>2. pos \in Nat /\ Stream[pos + 1] \in TokenChars
    BY <1>1, SeesStream
  <1>3. AtMethod(Stream, start, pos + 1)
    BY <1>1, <1>2, OnlyGrows DEF AtMethod
  <1>4. Stream' = Stream /\ kind' = kind
    BY <1>1, GoesOn
  <1>5. InFirstLine'
    BY <1>1, <1>3, <1>4 DEF InFirstLine
  <1>. QED
    BY <1>1, <1>5, StillFirst DEF FirstParts

LEMMA OneSpace ==
  ASSUME NEW b, NEW p \in Nat, b[p + 1] = SP
  PROVE  Spaces(b, p, p + 1)
  BY DEF Spaces, Only

LEMMA MoreSpace ==
  ASSUME NEW b, NEW from \in Nat, NEW p \in Nat, Spaces(b, from, p), b[p + 1] = SP
  PROVE  Spaces(b, from, p + 1)
  BY OnlyGrows DEF Spaces

LEMMA MethodEndReads ==
  ASSUME HeadReads, HInv, MethodEnd, UNCHANGED <<exchange, fed>>
  PROVE  HeadReads'
  <1>1. /\ pc = "method" /\ pc' = "before_path" /\ UNCHANGED <<args, ret>>
        /\ pos' = pos + 1 /\ kind = "request" /\ AtMethod(Stream, start, pos)
        /\ Sees({SP}) /\ line' = [line EXCEPT !.method = Span(start, pos)]
    BY DEF MethodEnd, Goto, HeadReads, InFirstLine
  <1>2. pos \in Nat /\ Stream[pos + 1] = SP
    BY <1>1, SeesStream
  <1>3. line = NoLine
    BY <1>1 DEF HInv, FirstLineFirst
  <1>4. /\ HasMethod(Stream, start, pos) /\ Spaces(Stream, pos, pos + 1)
        /\ line' = MethodLine(start, pos) /\ start \in Nat
    BY <1>1, <1>2, <1>3, OneSpace DEF HasMethod, MethodLine, AtMethod
  <1>5. Stream' = Stream /\ kind' = kind
    BY <1>1, GoesOn
  <1>6. \E a, m \in Nat : /\ HasMethod(Stream', a, m) /\ Spaces(Stream', m, pos')
                          /\ line' = MethodLine(a, m)
    BY <1>1, <1>2, <1>4, <1>5
  <1>7. InFirstLine'
    BY <1>1, <1>5, <1>6 DEF InFirstLine
  <1>. QED
    BY <1>1, <1>7, StillFirst DEF FirstParts

LEMMA BeforePathReads ==
  ASSUME HeadReads, HInv, BeforePath, UNCHANGED <<exchange, fed>>
  PROVE  HeadReads'
  <1>1. /\ pc = "before_path" /\ UNCHANGED <<args, ret, line>> /\ kind = "request"
        /\ \/ Sees({SP}) /\ pc' = "before_path" /\ pos' = pos + 1
           \/ Sees(Byte \ {SP}) /\ pc' = "path" /\ pos' = pos /\ start' = pos
    BY DEF BeforePath, Advance, Goto, outputs, HeadReads, InFirstLine
  <1>2. PICK a \in Nat, m \in Nat :
          /\ HasMethod(Stream, a, m) /\ Spaces(Stream, m, pos)
          /\ line = MethodLine(a, m)
    BY <1>1 DEF HeadReads, InFirstLine
  <1>3. Stream' = Stream /\ kind' = kind
    BY <1>1, GoesOn
  <1>4. CASE Sees({SP}) /\ pc' = "before_path" /\ pos' = pos + 1
    <2>1. Spaces(Stream, m, pos + 1)
      BY <1>1, <1>2, <1>4, SeesStream, MoreSpace
    <2>2. \E a_1, m_1 \in Nat :
             /\ HasMethod(Stream', a_1, m_1) /\ Spaces(Stream', m_1, pos')
             /\ line' = MethodLine(a_1, m_1)
      BY <1>1, <1>2, <1>3, <1>4, <2>1
    <2>3. InFirstLine'
      BY <1>1, <1>3, <1>4, <2>2 DEF InFirstLine
    <2>. QED
      BY <1>1, <1>4, <2>3, StillFirst DEF FirstParts
  <1>5. CASE Sees(Byte \ {SP}) /\ pc' = "path" /\ pos' = pos /\ start' = pos
    <2>1. pos \in Nat /\ Stream[pos + 1] # SP
      BY <1>1, <1>5, SeesStream
    <2>2. AtPath(Stream, m, pos, pos)
      BY <1>2, <2>1, OnlyNone DEF AtPath
    <2>3. InPath(Stream', line', start', pos')
      BY <1>1, <1>2, <1>3, <1>5, <2>2 DEF InPath
    <2>4. InFirstLine'
      BY <1>1, <1>3, <1>5, <2>3 DEF InFirstLine
    <2>. QED
      BY <1>1, <1>5, <2>4, StillFirst DEF FirstParts
  <1>. QED
    BY <1>1, <1>4, <1>5

LEMMA PathByteReads ==
  ASSUME HeadReads, HInv, PathByte, UNCHANGED <<exchange, fed>>
  PROVE  HeadReads'
  <1>1. /\ pc = "path" /\ pc' = "path" /\ UNCHANGED <<args, ret, line>> /\ start' = start
        /\ pos' = pos + 1 /\ kind = "request" /\ Sees(PathChars)
    BY DEF PathByte, Advance, Goto, outputs, HeadReads, InFirstLine
  <1>2. PICK a \in Nat, m \in Nat :
          /\ HasMethod(Stream, a, m) /\ AtPath(Stream, m, start, pos)
          /\ line = MethodLine(a, m)
    BY <1>1 DEF HeadReads, InFirstLine, InPath
  <1>3. pos \in Nat /\ Stream[pos + 1] \in PathChars
    BY <1>1, SeesStream
  <1>4. AtPath(Stream, m, start, pos + 1)
    BY <1>2, <1>3, OnlyGrows DEF AtPath
  <1>5. Stream' = Stream /\ kind' = kind
    BY <1>1, GoesOn
  <1>6. InPath(Stream', line', start', pos')
    BY <1>1, <1>2, <1>4, <1>5 DEF InPath
  <1>7. InFirstLine'
    BY <1>1, <1>5, <1>6 DEF InFirstLine
  <1>. QED
    BY <1>1, <1>7, StillFirst DEF FirstParts

LEMMA PathEndReads ==
  ASSUME HeadReads, HInv, PathEnd, UNCHANGED <<exchange, fed>>
  PROVE  HeadReads'
  <1>1. /\ pc = "path" /\ pc' = "before_version" /\ UNCHANGED <<args, ret>>
        /\ line' = [line EXCEPT !.path = Span(start, pos)]
        /\ pos' = pos + 1 /\ kind = "request" /\ Sees({SP})
    BY DEF PathEnd, Goto, HeadReads, InFirstLine
  <1>2. PICK a \in Nat, m \in Nat :
          /\ HasMethod(Stream, a, m) /\ AtPath(Stream, m, start, pos)
          /\ line = MethodLine(a, m)
    BY <1>1 DEF HeadReads, InFirstLine, InPath
  <1>3. pos \in Nat /\ Stream[pos + 1] = SP
    BY <1>1, SeesStream
  <1>4. /\ HasPath(Stream, m, start, pos) /\ Spaces(Stream, pos, pos + 1)
        /\ line' = PathLine(a, m, start, pos) /\ start \in Nat
    BY <1>1, <1>2, <1>3, OneSpace DEF HasPath, PathLine, AtPath
  <1>5. Stream' = Stream /\ kind' = kind
    BY <1>1, GoesOn
  <1>6. \E a_1, m_1, q, r \in Nat :
          /\ HasMethod(Stream', a_1, m_1) /\ HasPath(Stream', m_1, q, r)
          /\ line' = PathLine(a_1, m_1, q, r) /\ Spaces(Stream', r, pos')
    BY <1>1, <1>2, <1>3, <1>4, <1>5
  <1>7. InFirstLine'
    BY <1>1, <1>5, <1>6 DEF InFirstLine
  <1>. QED
    BY <1>1, <1>7, StillFirst DEF FirstParts

LEMMA BeforeVersionReads ==
  ASSUME HeadReads, HInv, BeforeVersion, UNCHANGED <<exchange, fed>>
  PROVE  HeadReads'
  <1>1. /\ pc = "before_version" /\ kind = "request"
        /\ \/ Sees({SP}) /\ pc' = "before_version" /\ pos' = pos + 1
              /\ UNCHANGED <<args, ret, line>>
           \/ Fail(MALFORMED)
           \/ Sees(Byte \ {SP}) /\ pc' = "version" /\ pos' = pos /\ ~EmptyToken
              /\ UNCHANGED <<args, ret, line>>
    BY DEF BeforeVersion, Advance, Goto, outputs, cursors, HeadReads, InFirstLine
  <1>2. PICK a \in Nat, m \in Nat, q \in Nat, r \in Nat :
          /\ HasMethod(Stream, a, m) /\ HasPath(Stream, m, q, r)
          /\ line = PathLine(a, m, q, r) /\ Spaces(Stream, r, pos)
    BY <1>1 DEF HeadReads, InFirstLine
  <1>3. CASE Sees({SP}) /\ pc' = "before_version" /\ pos' = pos + 1
             /\ UNCHANGED <<args, ret, line>>
    <2>1. Stream' = Stream /\ kind' = kind
      BY <1>1, <1>3, GoesOn
    <2>2. Spaces(Stream, r, pos + 1)
      BY <1>1, <1>2, <1>3, SeesStream, MoreSpace
    <2>3. \E a_1, m_1, q_1, r_1 \in Nat :
            /\ HasMethod(Stream', a_1, m_1) /\ HasPath(Stream', m_1, q_1, r_1)
            /\ line' = PathLine(a_1, m_1, q_1, r_1) /\ Spaces(Stream', r_1, pos')
      BY <1>2, <1>3, <2>1, <2>2
    <2>4. InFirstLine'
      BY <1>1, <1>3, <2>1, <2>3 DEF InFirstLine
    <2>. QED
      BY <1>1, <1>3, <2>4, StillFirst DEF FirstParts
  <1>4. CASE Fail(MALFORMED)
    BY <1>1, <1>4, SomeFail DEF MALFORMED
  <1>5. CASE Sees(Byte \ {SP}) /\ pc' = "version" /\ pos' = pos /\ ~EmptyToken
             /\ UNCHANGED <<args, ret, line>>
    <2>1. Stream' = Stream /\ kind' = kind
      BY <1>1, <1>5, GoesOn
    <2>2. a < m /\ q < r
      <3>1. a <= m /\ q <= r
        BY <1>2 DEF HasMethod, AtMethod, HasPath, AtPath
      <3>2. line.method = Span(a, m) /\ line.path = Span(q, r)
        BY <1>2 DEF PathLine, MethodLine, NoLine
      <3>3. Span(a, m).len # 0 /\ Span(q, r).len # 0
        BY <1>5, <3>2 DEF EmptyToken
      <3>. QED
        BY <3>1, <3>3 DEF Span
    <2>3. Stream[pos + 1] # SP
      BY <1>1, <1>5, SeesStream
    <2>4. InVersion(Stream', line', pos')
      BY <1>2, <1>5, <2>1, <2>2, <2>3 DEF InVersion
    <2>5. InFirstLine'
      BY <1>1, <1>5, <2>1, <2>4 DEF InFirstLine
    <2>. QED
      BY <1>1, <1>5, <2>5, StillFirst DEF FirstParts
  <1>. QED
    BY <1>1, <1>3, <1>4, <1>5

(***************************************************************************)
(* The version, of a request and of a response.                            *)
(***************************************************************************)
LEMMA VersionInStream ==
  ASSUME HeadReads, HInv, pc # "idle", Len(buf) - pos >= 9, VersionHere
  PROVE  /\ VersionAt(Stream, pos) /\ Octet(pos + 7) = Stream[pos + 8]
         /\ Stream[pos + 8] - 48 \in 0 .. 9 /\ pos \in Nat /\ pos + 8 < fed
  <1>1. pos \in Nat /\ Stream \in Seq(Byte) /\ fed \in Nat /\ Len(buf) = fed
        /\ fed <= Len(Stream) /\ \A i \in 1 .. fed : buf[i] = Stream[i]
    BY Received DEF HInv, HeadTypeOK
  <1>2. pos + 8 < fed /\ pos + 8 \in 1 .. fed
    BY <1>1
  <1>3. SubSeq(Stream, pos + 1, pos + 7) = SubSeq(buf, pos + 1, pos + 7)
    <2>1. \A i \in 1 .. 7 : pos + i \in 1 .. fed
      BY <1>1, <1>2
    <2>2. buf \in Seq(Byte)
      BY DEF HInv, HeadTypeOK
    <2>. DEFINE s == SubSeq(Stream, pos + 1, pos + 7)
                t == SubSeq(buf, pos + 1, pos + 7)
    <2>3. /\ s \in Seq(Byte) /\ Len(s) = 7
          /\ \A i \in 1 .. 7 : s[i] = Stream[pos + i]
      BY <1>1, <1>2, SubSeqProperties
    <2>4. /\ t \in Seq(Byte) /\ Len(t) = 7
          /\ \A i \in 1 .. 7 : t[i] = buf[pos + i]
      BY <1>1, <1>2, <2>2, SubSeqProperties
    <2>5. \A i \in 1 .. 7 : s[i] = t[i]
      BY <1>1, <2>1, <2>3, <2>4
    <2>. HIDE DEF s, t
    <2>6. s = t
      BY <2>3, <2>4, <2>5, SeqEqual
    <2>. QED
      BY <2>6 DEF s, t
  <1>4. Octet(pos + 7) = Stream[pos + 8] /\ pos + 8 <= Len(Stream)
    BY <1>1, <1>2 DEF Octet
  <1>. QED
    BY <1>1, <1>2, <1>3, <1>4 DEF VersionHere, VersionAt, Digits

LEMMA VersionBytes ==
  ASSUME NEW b \in Seq(Byte), NEW p \in Nat, VersionAt(b, p)
  PROVE  Only(b, Byte \ Breaks, p, p + 8) /\ p + 8 <= Len(b)
  <1>1. p + 8 <= Len(b) /\ b[p + 8] \in Digits
    BY DEF VersionAt
  <1>. DEFINE s == SubSeq(b, p + 1, p + 7)
  <1>2. \A i \in 1 .. 7 : s[i] = b[p + i]
    BY <1>1, SubSeqProperties
  <1>3. s = HttpOne
    BY DEF VersionAt
  <1>. HIDE DEF s
  <1>4. \A i \in 1 .. 7 : s[i] \in Byte \ Breaks
    <2>1. \A i \in 1 .. 7 : HttpOne[i] \in {72, 84, 80, 47, 49, 46}
      BY DEF HttpOne
    <2>2. {72, 84, 80, 47, 49, 46} \subseteq Byte \ Breaks
      BY DEF Byte, Breaks, CR, LF
    <2>. QED
      BY <1>3, <2>1, <2>2, Zenon
  <1>5. \A i \in 1 .. 7 : b[p + i] \in Byte \ Breaks
    BY <1>2, <1>4
  <1>6. ASSUME NEW i \in p + 1 .. p + 8
        PROVE  b[i] \in Byte \ Breaks
    <2>1. CASE i = p + 8
      BY <1>1, <2>1, DigitFacts
    <2>2. CASE i # p + 8
      <3>1. i - p \in 1 .. 7 /\ p + (i - p) = i
        BY <2>2
      <3>. QED
        BY <1>5, <3>1
    <2>. QED
      BY <2>1, <2>2
  <1>. QED
    BY <1>1, <1>6 DEF Only

LEMMA RequestLineIs ==
  ASSUME NEW b \in Seq(Byte), NEW l, NEW p \in Nat, InVersion(b, l, p), VersionAt(b, p)
  PROVE  InEol(b, [l EXCEPT !.version = b[p + 8] - 48], p + 8)
  <1>1. PICK a \in Nat, m \in Nat, q \in Nat, r \in Nat :
          /\ HasMethod(b, a, m) /\ HasPath(b, m, q, r) /\ l = PathLine(a, m, q, r)
          /\ a < m /\ q < r /\ Spaces(b, r, p) /\ b[p + 1] # SP
    BY DEF InVersion
  <1>2. /\ Leading("request", b) = a /\ Only(b, TokenChars, a, m) /\ b[m + 1] = SP
        /\ m < q /\ Only(b, {SP}, m, q) /\ b[q + 1] # SP
        /\ Only(b, PathChars, q, r) /\ b[r + 1] = SP /\ r < p /\ Only(b, {SP}, r, p)
    BY <1>1 DEF HasMethod, AtMethod, HasPath, AtPath, Spaces
  <1>3. ASSUME NEW i, i.from = a, i.to = p + 8
        PROVE  RequestOf(b, i) = Parsed(RequestParts(b, a, m, q, r, p))
    <2>1. RequestShape(b, a, m, q, r, p)
      BY <1>1, <1>2 DEF RequestShape
    <2>. QED
      BY <1>3, <2>1, RequestIs
  <1>4. [l EXCEPT !.version = b[p + 8] - 48]
          = RequestParts(b, a, m, q, r, p)
    BY <1>1 DEF PathLine, MethodLine, RequestParts
  <1>5. Only(b, Byte \ Breaks, a, p + 8)
    <2>1. /\ Only(b, Byte \ Breaks, a, m) /\ Only(b, Byte \ Breaks, m, q)
          /\ Only(b, Byte \ Breaks, q, r) /\ Only(b, Byte \ Breaks, r, p)
      <3>1. {SP} \subseteq Byte \ Breaks
        BY PathFacts
      <3>. QED
        BY <1>2, <3>1, TokenFacts, PathFacts, OnlyAll
    <2>2. Only(b, Byte \ Breaks, p, p + 8)
      BY VersionBytes, Zenon
    <2>6. p + 8 \in Nat
      OBVIOUS
    <2>3. Only(b, Byte \ Breaks, a, q)
      BY <2>1, OnlyJoins
    <2>4. Only(b, Byte \ Breaks, a, r)
      BY <2>1, <2>3, OnlyJoins
    <2>5. Only(b, Byte \ Breaks, a, p)
      BY <2>1, <2>4, OnlyJoins
    <2>. QED
      BY <2>2, <2>5, <2>6, OnlyJoins
  <1>6. a < p + 8
    BY <1>1, <1>2
  <1>. QED
    BY <1>2, <1>3, <1>4, <1>5, <1>6 DEF InEol

LEMMA VersionReads ==
  ASSUME HeadReads, HInv, Version, UNCHANGED <<exchange, fed>>
  PROVE  HeadReads'
  <1>1. pc = "version"
    BY DEF Version
  <1>2. CASE Fail(PARTIAL) \/ Fail(MALFORMED)
    BY <1>1, <1>2, SomeFail DEF MALFORMED, PARTIAL
  <1>3. CASE ~(Fail(PARTIAL) \/ Fail(MALFORMED))
    <2>1. /\ Len(buf) - pos >= 9 /\ VersionHere /\ UNCHANGED <<args, ret>>
          /\ line' = [line EXCEPT !.version = Octet(pos + 7) - 48]
          /\ pos' = pos + 8 /\ pc' = AfterVersion
      BY <1>3 DEF Version, Goto
    <2>2. /\ VersionAt(Stream, pos) /\ Octet(pos + 7) = Stream[pos + 8] /\ pos \in Nat
      BY <1>1, <2>1, VersionInStream
    <2>3. pc' # "idle" /\ Stream \in Seq(Byte) /\ kind \in {"request", "response"}
      BY <1>1, <2>1, Received DEF AfterVersion, HeadReads, InFirstLine, Kinds
    <2>4. Stream' = Stream /\ kind' = kind
      BY <1>1, <2>1, <2>3, GoesOn
    <2>5. CASE kind = "request"
      <3>1. pc' = "eol" /\ InVersion(Stream, line, pos)
        BY <1>1, <2>1, <2>5 DEF AfterVersion, HeadReads, InFirstLine
      <3>2. InEol(Stream, [line EXCEPT !.version = Stream[pos + 8] - 48], pos + 8)
        BY <2>2, <2>3, <3>1, RequestLineIs
      <3>3. InEol(Stream', line', pos')
        BY <2>1, <2>2, <2>4, <3>2
      <3>4. InFirstLine'
        BY <2>4, <2>5, <3>1, <3>3 DEF InFirstLine
      <3>. QED
        BY <1>1, <2>1, <3>1, <3>4, StillFirst DEF FirstParts
    <2>6. CASE kind = "response"
      <3>1. pc' = "space" /\ pos = 0 /\ line = NoLine
        BY <1>1, <2>1, <2>6 DEF AfterVersion, HeadReads, InFirstLine
      <3>2. line' = VersionLine(Stream) /\ pos' = 8 /\ VersionAt(Stream, 0)
        BY <2>1, <2>2, <3>1 DEF VersionLine
      <3>3. InFirstLine'
        BY <2>4, <2>6, <3>1, <3>2 DEF InFirstLine
      <3>. QED
        BY <1>1, <2>1, <3>1, <3>3, StillFirst DEF FirstParts
    <2>. QED
      BY <2>3, <2>5, <2>6
  <1>. QED
    BY <1>2, <1>3

LEMMA RequestMeans ==
  ASSUME NEW b \in Seq(Byte), NEW l, NEW p \in Nat, NEW n \in Nat, InEol(b, l, p), BreakAt(b, p, n)
  PROVE  Meaning("request", b) = Block(b, l, n) /\ n \in 0 .. Len(b)
  <1>1. PICK a \in Nat :
          /\ Leading("request", b) = a /\ a < p /\ Only(b, Byte \ Breaks, a, p)
          /\ \A i : i.from = a /\ i.to = p => RequestOf(b, i) = Parsed(l)
    BY DEF InEol
  <1>2. Ends(b, a, p, n)
    BY <1>1 DEF BreakAt, Ends
  <1>3. /\ Line(b, a) = [from |-> a, next |-> n, to |-> p]
        /\ HasLine(b, a) /\ n \in a + 1 .. Len(b)
    BY <1>2, LineIs
  <1>4. ~Empty(Line(b, a))
    BY <1>1, <1>3 DEF Empty
  <1>5. FirstOf("request", b, Line(b, a)) = Parsed(l)
    BY <1>1, <1>3 DEF FirstOf
  <1>6. Line(b, a).next = n
    BY <1>3
  <1>7. FirstOf("request", b, Line(b, a)).ok /\ FirstOf("request", b, Line(b, a)).out = l
    BY <1>5 DEF Parsed
  <1>8. Meaning("request", b) = Block(b, l, n)
    BY <1>1, <1>3, <1>4, <1>6, <1>7 DEF Meaning
  <1>. QED
    BY <1>3, <1>8

(* The first line is over: the block begins. *)
LEMMA BlockBegins ==
  ASSUME HeadReads, HInv, pc \in FirstParts, pc' = "line",
         UNCHANGED <<args, ret, exchange, fed>>,
         UNCHANGED <<slots, count>>, pos' \in 0 .. Len(Stream),
         Meaning(kind, Stream) = Block(Stream, line', pos')
  PROVE  HeadReads'
  <1>1. pc # "idle" /\ count = 0
    BY DEF FirstParts, HInv, FirstLineFirst, FirstLineParts
  <1>2. Stream \in Seq(Byte) /\ slots \in Seq(Slots)
    BY <1>1, Received, SlotsAre
  <1>3. Stream' = Stream /\ kind' = kind
    BY <1>1, GoesOn
  <1>4. Headed(Stream, kind, line', slots, 0, pos', pos')
    BY <1>2, NothingYet
  <1>5. FieldsSoFar(pos, pos)'
    BY <1>1, <1>3, <1>4 DEF FieldsSoFar
  <1>6. pos' \in Nat
    BY <1>2
  <1>7. InBlock'
    BY <1>5, <1>6 DEF InBlock
  <1>. QED
    BY <1>1, <1>7, NowInBlock

LEMMA RequestEolReads ==
  ASSUME HeadReads, HInv, RequestEol, UNCHANGED <<exchange, fed>>
  PROVE  HeadReads'
  <1>1. pc = "eol"
    BY DEF RequestEol
  <1>2. CASE Fail(MALFORMED)
    BY <1>1, <1>2, SomeFail DEF MALFORMED
  <1>3. CASE ~Fail(MALFORMED)
    <2>1. /\ Sees(Breaks) /\ LineBreak > 0 /\ pos' = pos + LineBreak /\ pc' = "line"
          /\ UNCHANGED <<args, ret, line, slots, count>>
      BY <1>3 DEF RequestEol, Goto, outputs
    <2>2. /\ BreakAt(Stream, pos, pos') /\ pos \in Nat /\ pos' \in Nat
          /\ Stream \in Seq(Byte) /\ InEol(Stream, line, pos) /\ kind = "request"
      BY <1>1, <2>1, BreakInStream, Received DEF HeadReads, InFirstLine
    <2>3. Meaning("request", Stream) = Block(Stream, line, pos') /\ pos' \in 0 .. Len(Stream)
      BY <2>2, RequestMeans
    <2>4. pc \in FirstParts
      BY <1>1 DEF FirstParts
    <2>. QED
      BY <2>1, <2>2, <2>3, <2>4, BlockBegins
  <1>. QED
    BY <1>2, <1>3

(***************************************************************************)
(* The first line of a response.                                           *)
(***************************************************************************)
LEMMA SpaceRequiredReads ==
  ASSUME HeadReads, HInv, SpaceRequired, UNCHANGED <<exchange, fed>>
  PROVE  HeadReads'
  <1>1. /\ pc = "space" /\ kind = "response"
        /\ pos = 8 /\ VersionAt(Stream, 0) /\ line = VersionLine(Stream)
    BY DEF SpaceRequired, HeadReads, InFirstLine
  <1>2. CASE Fail(MALFORMED)
    BY <1>1, <1>2, SomeFail DEF MALFORMED
  <1>3. CASE ~Fail(MALFORMED)
    <2>1. /\ Sees({SP}) /\ pos' = pos + 1 /\ pc' = "spaces" /\ UNCHANGED <<args, ret, line>>
      BY <1>3 DEF SpaceRequired, Goto, outputs
    <2>2. Spaces(Stream, 8, pos')
      <3>1. Stream[pos + 1] = SP
        BY <1>1, <2>1, SeesStream
      <3>. QED
        BY <1>1, <2>1, <3>1 DEF Spaces, Only
    <2>3. Stream' = Stream /\ kind' = kind
      BY <1>1, <2>1, GoesOn
    <2>4. InFirstLine'
      BY <1>1, <2>1, <2>2, <2>3 DEF InFirstLine
    <2>. QED
      BY <1>1, <2>1, <2>4, StillFirst DEF FirstParts
  <1>. QED
    BY <1>2, <1>3

LEMMA NoCodeYet ==
  ASSUME NEW b, NEW c \in Nat
  PROVE  VersionLine(b) = CodeLine(b, c, c)
  <1>. DEFINE r == VersionLine(b)
  <1>1. r.status = 0 /\ r = [r EXCEPT !.status = r.status]
    BY DEF VersionLine, NoLine
  <1>. HIDE DEF r
  <1>2. CodeLine(b, c, c) = [r EXCEPT !.status = 0 + 0 + 0]
    BY DEF CodeLine, r
  <1>. QED
    BY <1>1, <1>2 DEF r

LEMMA MoreSpacesReads ==
  ASSUME HeadReads, HInv, MoreSpaces, UNCHANGED <<exchange, fed>>
  PROVE  HeadReads'
  <1>1. /\ pc = "spaces" /\ kind = "response" /\ UNCHANGED <<args, ret, line>>
        /\ VersionAt(Stream, 0) /\ Spaces(Stream, 8, pos) /\ line = VersionLine(Stream)
        /\ \/ Sees({SP}) /\ pc' = "spaces" /\ pos' = pos + 1
           \/ Sees(Byte \ {SP}) /\ pc' = "status" /\ pos' = pos /\ start' = pos
    BY DEF MoreSpaces, Advance, Goto, outputs, HeadReads, InFirstLine
  <1>2. Stream' = Stream /\ kind' = kind
    BY <1>1, GoesOn
  <1>3. CASE Sees({SP}) /\ pc' = "spaces" /\ pos' = pos + 1
    <2>1. pos \in Nat /\ Stream[pos + 1] = SP
      BY <1>1, <1>3, SeesStream
    <2>2. Spaces(Stream, 8, pos + 1)
      <3>1. 8 \in Nat
        OBVIOUS
      <3>. QED
        BY <1>1, <2>1, <3>1, MoreSpace
    <2>3. InFirstLine'
      BY <1>1, <1>2, <1>3, <2>2 DEF InFirstLine
    <2>. QED
      BY <1>1, <1>3, <2>3, StillFirst DEF FirstParts
  <1>4. CASE Sees(Byte \ {SP}) /\ pc' = "status" /\ pos' = pos /\ start' = pos
    <2>1. pos \in Nat /\ Stream[pos + 1] # SP
      BY <1>1, <1>4, SeesStream
    <2>2. AtCode(Stream, pos, pos) /\ line = CodeLine(Stream, pos, pos)
      BY <1>1, <2>1, OnlyNone, NoCodeYet DEF AtCode
    <2>3. AtCode(Stream', start', pos') /\ line' = CodeLine(Stream', start', pos')
      BY <1>1, <1>2, <1>4, <2>2
    <2>4. InFirstLine'
      BY <1>1, <1>2, <1>4, <2>3 DEF InFirstLine
    <2>. QED
      BY <1>1, <1>4, <2>4, StillFirst DEF FirstParts
  <1>. QED
    BY <1>1, <1>3, <1>4

WithDigit(l, at, digit) == [l EXCEPT !.status = @ + <<100, 10, 1>>[at] * digit]

LEMMA CodeGrows ==
  ASSUME NEW b, NEW c \in Nat, NEW p \in Nat, AtCode(b, c, p), p < c + 3,
         b[p + 1] \in Digits
  PROVE  /\ AtCode(b, c, p + 1)
         /\ WithDigit(CodeLine(b, c, p), p - c + 1, b[p + 1] - 48) = CodeLine(b, c, p + 1)
  <1>1. AtCode(b, c, p + 1)
    <2>1. Only(b, Digits, c, p + 1)
      BY OnlyGrows DEF AtCode
    <2>. QED
      BY <2>1 DEF AtCode
  <1>2. c <= p /\ p < c + 3
    BY DEF AtCode
  <1>3. \A i \in c + 1 .. p + 1 : b[i] \in 48 .. 57
    BY <1>1 DEF AtCode, Only, Digits
  <1>. DEFINE r == VersionLine(b)
              At(q) == (IF q > c THEN 100 * (b[c + 1] - 48) ELSE 0)
                         + (IF q > c + 1 THEN 10 * (b[c + 2] - 48) ELSE 0)
                         + (IF q > c + 2 THEN b[c + 3] - 48 ELSE 0)
  <1>4. /\ CodeLine(b, c, p) = [r EXCEPT !.status = At(p)]
        /\ CodeLine(b, c, p + 1) = [r EXCEPT !.status = At(p + 1)]
    BY DEF CodeLine
  <1>5. [r EXCEPT !.status = At(p)].status = At(p)
    BY DEF VersionLine, NoLine
  <1>6. At(p) + <<100, 10, 1>>[p - c + 1] * (b[p + 1] - 48) = At(p + 1)
    <2>1. CASE p = c
      <3>1. b[c + 1] \in 48 .. 57 /\ <<100, 10, 1>>[p - c + 1] = 100
        BY <1>3, <2>1
      <3>. QED
        BY <2>1, <3>1
    <2>2. CASE p = c + 1
      <3>1. /\ b[c + 1] \in 48 .. 57 /\ b[c + 2] \in 48 .. 57
            /\ <<100, 10, 1>>[p - c + 1] = 10 /\ p + 1 = c + 2
        BY <1>3, <2>2
      <3>. QED
        BY <2>2, <3>1
    <2>3. CASE p = c + 2
      <3>1. /\ b[c + 1] \in 48 .. 57 /\ b[c + 2] \in 48 .. 57 /\ b[c + 3] \in 48 .. 57
            /\ <<100, 10, 1>>[p - c + 1] = 1 /\ p + 1 = c + 3
        BY <1>3, <2>3
      <3>. QED
        BY <2>3, <3>1
    <2>. QED
      BY <1>2, <2>1, <2>2, <2>3
  <1>. HIDE DEF r, At
  <1>7. [CodeLine(b, c, p) EXCEPT
           !.status = @ + <<100, 10, 1>>[p - c + 1] * (b[p + 1] - 48)]
          = [r EXCEPT !.status = At(p) + <<100, 10, 1>>[p - c + 1] * (b[p + 1] - 48)]
    BY <1>4, <1>5
  <1>. QED
    BY <1>1, <1>4, <1>6, <1>7 DEF WithDigit

LEMMA StatusCodeReads ==
  ASSUME HeadReads, HInv, StatusCode, UNCHANGED <<exchange, fed>>
  PROVE  HeadReads'
  <1>1. /\ pc = "status" /\ kind = "response" /\ AtCode(Stream, start, pos)
        /\ line = CodeLine(Stream, start, pos) /\ pos < start + 3
        /\ start \in Nat /\ pos \in Nat
    BY DEF StatusCode, StatusShort, HeadReads, InFirstLine, HInv, CursorsInBuffer, HeadTypeOK
  <1>2. CASE Fail(PARTIAL) \/ Fail(MALFORMED)
    BY <1>1, <1>2, SomeFail DEF MALFORMED, PARTIAL
  <1>3. CASE ~(Fail(PARTIAL) \/ Fail(MALFORMED))
    <2>1. /\ Sees(Digits) /\ UNCHANGED <<args, ret>> /\ pos' = pos + 1
          /\ line' = [line EXCEPT !.status = @ + Weight * (Octet(pos) - 48)]
          /\ \/ pc' = "status" /\ start' = start
             \/ pc' = "reason_words" /\ start' = pos' /\ pos' = start + 3
      BY <1>3 DEF StatusCode, Goto
    <2>2. Octet(pos) = Stream[pos + 1] /\ Stream[pos + 1] \in Digits
      BY <1>1, <2>1, SeesStream
    <2>3. AtCode(Stream, start, pos + 1) /\ line' = CodeLine(Stream, start, pos + 1)
      <3>1. line' = WithDigit(line, pos - start + 1, Stream[pos + 1] - 48)
        BY <2>1, <2>2 DEF WithDigit, Weight
      <3>2. /\ AtCode(Stream, start, pos + 1)
            /\ WithDigit(CodeLine(Stream, start, pos), pos - start + 1, Stream[pos + 1] - 48)
                 = CodeLine(Stream, start, pos + 1)
        BY <1>1, <2>2, CodeGrows
      <3>. QED
        BY <1>1, <3>1, <3>2
    <2>4. pc' # "idle"
      BY <2>1
    <2>5. Stream' = Stream /\ kind' = kind
      BY <1>1, <2>1, <2>4, GoesOn
    <2>6. CASE pc' = "status" /\ start' = start
      <3>1. AtCode(Stream', start', pos') /\ line' = CodeLine(Stream', start', pos')
        BY <2>1, <2>3, <2>5, <2>6
      <3>2. InFirstLine'
        BY <1>1, <2>5, <2>6, <3>1 DEF InFirstLine
      <3>. QED
        BY <1>1, <2>1, <2>6, <3>2, StillFirst DEF FirstParts
    <2>7. CASE pc' = "reason_words" /\ start' = pos' /\ pos' = start + 3
      <3>1. /\ AtCode(Stream, start, start + 3) /\ line' = CodeLine(Stream, start, start + 3)
            /\ start' = start + 3 /\ pos' = start + 3
        BY <2>1, <2>3, <2>7
      <3>2. Only(Stream, ValueChars, start + 3, start + 3)
        <4>1. start + 3 \in Nat
          BY <1>1
        <4>. QED
          BY <4>1, OnlyNone
      <3>3. InReason(Stream, line', start', pos')
        BY <1>1, <3>1, <3>2 DEF InReason
      <3>4. InFirstLine'
        BY <1>1, <2>5, <2>7, <3>3 DEF InFirstLine
      <3>. QED
        BY <1>1, <2>1, <2>7, <3>4, StillFirst DEF FirstParts
    <2>. QED
      BY <2>1, <2>6, <2>7
  <1>. QED
    BY <1>2, <1>3

(***************************************************************************)
(* The scan of a value or a reason phrase.                                 *)
(***************************************************************************)
Scanning == {"value_words", "value", "reason_words", "reason"}

(* What a step of the scan has done. *)
Scanned ==
  /\ pc' \in IF pc \in {"value_words", "value"} THEN {"value_words", "value"}
                                                ELSE {"reason_words", "reason"}
  /\ pos \in Nat /\ pos' \in Nat /\ pos <= pos'
  /\ Only(Stream, ValueChars, pos, pos')
  /\ UNCHANGED <<args, ret, start, outputs>>

LEMMA WordsScanned ==
  ASSUME HeadReads, HInv, pc # "idle", pos <= Len(buf), Clean(buf, pos)
  PROVE  Only(Stream, ValueChars, pos, pos + Lanes) /\ pos + Lanes <= Len(buf)
  <1>1. pos \in 0 .. Len(buf) /\ buf \in Seq(Byte)
    BY DEF HInv, HeadTypeOK
  <1>2. /\ pos + Lanes <= Len(buf)
        /\ \A i \in pos + 1 .. pos + Lanes : buf[i] \in ValueChars
    BY <1>1, CleanSkipsNoDecision
  <1>3. Len(buf) = fed /\ fed \in Nat /\ \A i \in 1 .. fed : buf[i] = Stream[i]
    BY Received
  <1>4. \A i \in pos + 1 .. pos + Lanes : i \in 1 .. fed
    BY <1>1, <1>2, <1>3, LanesAssumption
  <1>. QED
    BY <1>2, <1>3, <1>4 DEF Only

LEMMA WindowScanned ==
  ASSUME HeadReads, HInv, pc # "idle", pos <= Len(buf), WindowClean(buf, pos)
  PROVE  Only(Stream, ValueChars, pos, pos + 2 * Lanes)
  <1>1. pos \in 0 .. Len(buf) /\ buf \in Seq(Byte) /\ Lanes \in Nat
    BY LanesAssumption DEF HInv, HeadTypeOK
  <1>2. Only(Stream, ValueChars, pos, pos + Lanes) /\ pos + Lanes <= Len(buf)
    BY WordsScanned DEF WindowClean
  <1>. DEFINE p == pos + Lanes
  <1>3. p \in 0 .. Len(buf)
    BY <1>1, <1>2
  <1>4. Clean(buf, p)
    BY DEF WindowClean
  <1>. HIDE DEF p
  <1>5. /\ p + Lanes <= Len(buf)
        /\ \A i \in p + 1 .. p + Lanes : buf[i] \in ValueChars
    BY <1>1, <1>3, <1>4, CleanSkipsNoDecision
  <1>6. Len(buf) = fed /\ fed \in Nat /\ \A i \in 1 .. fed : buf[i] = Stream[i]
    BY Received
  <1>7. \A i \in p + 1 .. p + Lanes : i \in 1 .. fed
    BY <1>1, <1>3, <1>5, <1>6
  <1>8. Only(Stream, ValueChars, p, p + Lanes)
    BY <1>5, <1>6, <1>7 DEF Only
  <1>9. pos + 2 * Lanes = p + Lanes /\ p \in Nat /\ p + Lanes \in Nat /\ pos \in Nat
    BY <1>1, <1>3 DEF p
  <1>10. Only(Stream, ValueChars, pos, p)
    BY <1>2 DEF p
  <1>11. Only(Stream, ValueChars, pos, p + Lanes)
    BY <1>8, <1>9, <1>10, OnlyJoins
  <1>. QED
    BY <1>9, <1>11

LEMMA SkipScans ==
  ASSUME HeadReads, HInv, SkipWords
  PROVE  Scanned /\ pc \in Scanning
  <1>1. /\ pc \in {"value_words", "reason_words"} /\ UNCHANGED <<args, ret, start, outputs>>
        /\ pc' \in IF pc = "value_words" THEN {"value_words", "value"}
                                         ELSE {"reason_words", "reason"}
    BY DEF SkipWords, InWords, Goto
  <1>2. pos \in Nat /\ Lanes \in Nat /\ pos <= Len(buf)
    BY <1>1, LanesAssumption DEF HInv, HeadTypeOK, CursorsInBuffer
  <1>3. pos' \in Nat /\ pos <= pos' /\ Only(Stream, ValueChars, pos, pos')
    <2>1. CASE WindowClean(buf, pos) /\ pos' = pos + 2 * Lanes
      BY <1>1, <1>2, <2>1, WindowScanned
    <2>2. CASE Clean(buf, pos) /\ pos' = pos + Lanes
      BY <1>1, <1>2, <2>2, WordsScanned
    <2>3. CASE pos' = pos
      BY <1>2, <2>3, OnlyNone
    <2>. QED
      BY <2>1, <2>2, <2>3 DEF SkipWords
  <1>. QED
    BY <1>1, <1>2, <1>3 DEF Scanned, Scanning

LEMMA ByteScans ==
  ASSUME HeadReads, HInv, ValueByte
  PROVE  Scanned /\ pc \in Scanning
  <1>1. /\ pc \in {"value", "reason"} /\ UNCHANGED <<args, ret, start, outputs>>
        /\ pc' = pc /\ pos' = pos + 1 /\ Sees(ValueChars)
    BY DEF ValueByte, Advance, Goto
  <1>2. pos \in Nat /\ Stream[pos + 1] \in ValueChars
    BY <1>1, SeesStream
  <1>3. Only(Stream, ValueChars, pos, pos + 1)
    BY <1>2 DEF Only
  <1>. QED
    BY <1>1, <1>2, <1>3 DEF Scanned, Scanning

LEMMA ReasonScanned ==
  ASSUME HeadReads, HInv, pc \in {"reason_words", "reason"}, Scanned,
         UNCHANGED <<exchange, fed>>
  PROVE  HeadReads'
  <1>1. /\ pc' \in {"reason_words", "reason"} /\ UNCHANGED <<args, ret, line>> /\ start' = start
        /\ pos \in Nat /\ pos' \in Nat /\ pos <= pos' /\ Only(Stream, ValueChars, pos, pos')
        /\ kind = "response"
    BY DEF Scanned, outputs, HeadReads, InFirstLine
  <1>2. PICK c \in Nat :
          /\ AtCode(Stream, c, c + 3) /\ line = CodeLine(Stream, c, c + 3)
          /\ start = c + 3 /\ start <= pos /\ Only(Stream, ValueChars, start, pos)
    BY DEF HeadReads, InFirstLine, InReason
  <1>3. Only(Stream, ValueChars, start, pos') /\ start <= pos'
    <2>1. start \in Nat
      BY <1>2
    <2>. QED
      BY <1>1, <1>2, <2>1, OnlyJoins
  <1>4. Stream' = Stream /\ kind' = kind
    BY <1>1, GoesOn
  <1>5. InReason(Stream', line', start', pos')
    BY <1>1, <1>2, <1>3, <1>4 DEF InReason
  <1>6. InFirstLine'
    BY <1>1, <1>4, <1>5 DEF InFirstLine
  <1>. QED
    BY <1>1, <1>6, StillFirst DEF FirstParts

(***************************************************************************)
(* What a status line means, once its end is there.                        *)
(***************************************************************************)
LEMMA ResponseMeans ==
  ASSUME NEW b \in Seq(Byte), NEW c, NEW x, NEW e, NEW n \in Nat,
         StatusShape(b, c, x, e), BreakAt(b, e, n)
  PROVE  /\ Meaning("response", b) = Block(b, StatusParts(b, c, x, e), n)
         /\ n \in 0 .. Len(b)
  <1>1. /\ c \in Nat /\ e \in Nat /\ VersionAt(b, 0) /\ 8 < c /\ Only(b, {SP}, 8, c)
        /\ Only(b, Digits, c, c + 3) /\ Only(b, ValueChars, c + 3, e) /\ c + 3 <= e
    BY DEF StatusShape
  <1>2. Only(b, Byte \ Breaks, 0, e)
    <2>1. Only(b, Byte \ Breaks, 0, 8)
      <3>1. Only(b, Byte \ Breaks, 0, 0 + 8)
        BY <1>1, VersionBytes
      <3>. QED
        BY <3>1
    <2>2. /\ Only(b, Byte \ Breaks, 8, c) /\ Only(b, Byte \ Breaks, c, c + 3)
          /\ Only(b, Byte \ Breaks, c + 3, e) /\ c + 3 \in Nat /\ 8 \in Nat /\ 0 \in Nat
      <3>1. {SP} \subseteq Byte \ Breaks
        BY PathFacts
      <3>2. c + 3 \in Nat /\ 8 \in Nat
        BY <1>1
      <3>. QED
        BY <1>1, <3>1, <3>2, DigitFacts, ValueFacts, OnlyAll
    <2>3. Only(b, Byte \ Breaks, 0, c)
      BY <1>1, <2>1, <2>2, OnlyJoins
    <2>4. Only(b, Byte \ Breaks, 0, c + 3)
      BY <1>1, <2>2, <2>3, OnlyJoins
    <2>. QED
      BY <1>1, <2>2, <2>4, OnlyJoins
  <1>3. Ends(b, 0, e, n)
    BY <1>1, <1>2 DEF BreakAt, Ends
  <1>4. /\ Line(b, 0) = [from |-> 0, next |-> n, to |-> e]
        /\ HasLine(b, 0) /\ n \in 0 .. Len(b)
    BY <1>1, <1>3, LineIs
  <1>5. Leading("response", b) = 0
    BY DEF Leading
  <1>6. ~Empty(Line(b, 0)) /\ Line(b, 0).next = n
        /\ Line(b, 0).from = 0 /\ Line(b, 0).to = e
    BY <1>1, <1>4 DEF Empty
  <1>7. FirstOf("response", b, Line(b, 0)) = Parsed(StatusParts(b, c, x, e))
    BY <1>6, StatusIs DEF FirstOf
  <1>8. /\ FirstOf("response", b, Line(b, 0)).ok
        /\ FirstOf("response", b, Line(b, 0)).out = StatusParts(b, c, x, e)
    BY <1>7 DEF Parsed
  <1>. QED
    BY <1>4, <1>5, <1>6, <1>8 DEF Meaning

LEMMA StatusLineIs ==
  ASSUME NEW b, NEW c \in Nat, NEW x, NEW e
  PROVE  /\ WithMsg(CodeLine(b, c, c + 3), Span(x, e)) = StatusParts(b, c, x, e)
         /\ \A y : WithMsg(WithMsg(CodeLine(b, c, c + 3), y), Span(x, e))
                    = StatusParts(b, c, x, e)
  <1>1. c + 3 > c /\ c + 3 > c + 1 /\ c + 3 > c + 2
    OBVIOUS
  <1>2. CodeLine(b, c, c + 3)
          = [VersionLine(b) EXCEPT !.status = 100 * (b[c + 1] - 48) + 10 * (b[c + 2] - 48)
                                                + (b[c + 3] - 48)]
    BY <1>1 DEF CodeLine
  <1>3. WithMsg(CodeLine(b, c, c + 3), Span(x, e)) = StatusParts(b, c, x, e)
    BY <1>2 DEF StatusParts, VersionLine, WithMsg
  <1>4. ASSUME NEW y, NEW l
        PROVE  WithMsg(WithMsg(l, y), Span(x, e)) = WithMsg(l, Span(x, e))
    BY DEF WithMsg
  <1>. QED
    BY <1>3, <1>4

LEMMA ReasonEndReads ==
  ASSUME HeadReads, HInv, ReasonEnd, UNCHANGED <<exchange, fed>>
  PROVE  HeadReads'
  <1>1. /\ pc = "reason" /\ Sees(Breaks) /\ LineBreak > 0 /\ kind = "response"
        /\ line' = WithMsg(line, Span(start, pos)) /\ UNCHANGED <<slots, count>>
    BY DEF ReasonEnd, HeadReads, InFirstLine, WithMsg
  <1>2. CASE ret' = MALFORMED /\ pc' = "idle" /\ UNCHANGED args
    BY <1>1, <1>2, FailReads DEF MALFORMED, args
  <1>3. CASE ~(ret' = MALFORMED /\ pc' = "idle" /\ UNCHANGED args)
    <2>1. /\ start = pos \/ Octet(start) = SP
          /\ stop' = pos /\ pos' = pos + LineBreak
          /\ pc' = IF start = pos THEN "line" ELSE "strip"
          /\ start' = start /\ UNCHANGED <<args, ret>>
      BY <1>3 DEF ReasonEnd, Return, Goto
    <2>2. PICK c \in Nat :
            /\ AtCode(Stream, c, c + 3) /\ line = CodeLine(Stream, c, c + 3)
            /\ start = c + 3 /\ start <= pos /\ Only(Stream, ValueChars, start, pos)
      BY <1>1 DEF HeadReads, InFirstLine, InReason
    <2>3. /\ BreakAt(Stream, pos, pos') /\ pos \in Nat /\ pos' \in Nat
          /\ Stream \in Seq(Byte) /\ pos < fed /\ fed \in Nat
          /\ \A i \in 1 .. fed : buf[i] = Stream[i]
      BY <1>1, <2>1, BreakInStream, Received
    <2>4. pc' # "idle"
      BY <2>1
    <2>5. Stream' = Stream /\ kind' = kind
      BY <1>1, <2>1, <2>4, GoesOn
    <2>6. CASE start = pos
      <3>1. StatusShape(Stream, c, pos, pos)
        BY <2>2, <2>3, <2>6, OnlyNone DEF StatusShape, AtCode, Spaces
      <3>2. line' = StatusParts(Stream, c, pos, pos)
        BY <1>1, <2>2, <2>6, StatusLineIs
      <3>3. Meaning(kind, Stream) = Block(Stream, line', pos') /\ pos' \in 0 .. Len(Stream)
        BY <1>1, <2>3, <3>1, <3>2, ResponseMeans
      <3>4. pc \in FirstParts /\ pc' = "line"
        BY <1>1, <2>1, <2>6 DEF FirstParts
      <3>. QED
        BY <1>1, <2>1, <3>3, <3>4, BlockBegins
    <2>7. CASE start # pos
      <3>1. start < pos /\ start + 1 \in 1 .. fed
        BY <2>2, <2>3, <2>7
      <3>2. Stream[c + 4] = SP
        <4>1. Stream[start + 1] = SP /\ start + 1 = c + 4
          BY <2>1, <2>2, <2>3, <2>7, <3>1 DEF Octet
        <4>. QED
          BY <4>1
      <3>3. Only(Stream, {SP}, c + 3, start)
        BY <2>2, OnlyNone
      <3>4. InStrip(Stream, line', start, pos, pos')
        BY <1>1, <2>2, <2>3, <3>1, <3>2, <3>3 DEF InStrip
      <3>5. pc' = "strip"
        BY <2>1, <2>7
      <3>6. InFirstLine'
        BY <1>1, <2>1, <2>5, <3>4, <3>5 DEF InFirstLine
      <3>. QED
        BY <1>1, <2>1, <3>5, <3>6, StillFirst DEF FirstParts
    <2>. QED
      BY <2>6, <2>7
  <1>. QED
    BY <1>2, <1>3

LEMMA StripSpacesReads ==
  ASSUME HeadReads, HInv, StripSpaces, UNCHANGED <<exchange, fed>>
  PROVE  HeadReads'
  <1>1. /\ pc = "strip" /\ kind = "response" /\ UNCHANGED <<args, ret, pos, stop, slots, count>>
        /\ \/ LeadingSpace /\ start' = start + 1 /\ pc' = "strip" /\ line' = line
           \/ ~LeadingSpace /\ line' = WithMsg(line, Span(start, stop)) /\ pc' = "line"
    BY DEF WithMsg, StripSpaces, Goto, HeadReads, InFirstLine
  <1>2. PICK c \in Nat :
          /\ AtCode(Stream, c, c + 3)
          /\ line = WithMsg(CodeLine(Stream, c, c + 3), Span(c + 3, stop))
          /\ c + 3 <= start /\ start <= stop /\ c + 3 < stop /\ Stream[c + 4] = SP
          /\ Only(Stream, {SP}, c + 3, start) /\ Only(Stream, ValueChars, c + 3, stop)
          /\ BreakAt(Stream, stop, pos)
    BY <1>1 DEF HeadReads, InFirstLine, InStrip
  <1>3. /\ start \in Nat /\ stop \in Nat /\ pos \in Nat /\ stop < fed /\ fed \in Nat
        /\ \A i \in 1 .. fed : buf[i] = Stream[i]
        /\ Stream \in Seq(Byte)
    <2>1. start \in Nat /\ stop \in Nat /\ pos \in Nat /\ stop < pos /\ pos <= Len(buf)
      BY <1>1 DEF HInv, HeadTypeOK, CursorsInBuffer
    <2>. QED
      BY <1>1, <2>1, Received
  <1>4. start < stop => Octet(start) = Stream[start + 1]
    BY <1>3 DEF Octet
  <1>5. Stream' = Stream /\ kind' = kind
    BY <1>1, GoesOn
  <1>6. CASE LeadingSpace /\ start' = start + 1 /\ pc' = "strip" /\ line' = line
    <2>1. start < stop /\ Stream[start + 1] = SP
      BY <1>4, <1>6 DEF LeadingSpace
    <2>2. c + 3 \in Nat
      OBVIOUS
    <2>3. Only(Stream, {SP}, c + 3, start + 1)
      BY <1>2, <1>3, <2>1, <2>2, OnlyGrows
    <2>6. c + 3 <= start + 1 /\ start + 1 <= stop
      BY <1>2, <1>3, <2>1
    <2>7. InStrip(Stream, line, start + 1, stop, pos)
      BY <1>2, <2>3, <2>6 DEF InStrip
    <2>4. InStrip(Stream', line', start', stop', pos')
      BY <1>1, <1>5, <1>6, <2>7
    <2>5. InFirstLine'
      BY <1>1, <1>5, <1>6, <2>4 DEF InFirstLine
    <2>. QED
      BY <1>1, <1>6, <2>5, StillFirst DEF FirstParts
  <1>7. CASE ~LeadingSpace /\ line' = WithMsg(line, Span(start, stop)) /\ pc' = "line"
    <2>1. start < stop => Stream[start + 1] # SP
      BY <1>4, <1>7 DEF LeadingSpace
    <2>2. c + 3 < start \/ start = stop
      <3>1. CASE start = c + 3
        <4>1. start + 1 = c + 4
          BY <3>1
        <4>. QED
          BY <1>2, <2>1, <3>1, <4>1
      <3>. QED
        BY <1>2, <1>3, <3>1
    <2>3. StatusShape(Stream, c, start, stop)
      BY <1>2, <1>3, <2>1, <2>2 DEF StatusShape, AtCode, Spaces
    <2>4. line' = StatusParts(Stream, c, start, stop)
      BY <1>2, <1>7, StatusLineIs
    <2>5. Meaning(kind, Stream) = Block(Stream, line', pos) /\ pos \in 0 .. Len(Stream)
      BY <1>1, <1>2, <1>3, <2>3, <2>4, ResponseMeans
    <2>6. pc \in FirstParts
      BY <1>1 DEF FirstParts
    <2>. QED
      BY <1>1, <1>7, <2>5, <2>6, BlockBegins
  <1>. QED
    BY <1>1, <1>6, <1>7

-----------------------------------------------------------------------------
(***************************************************************************)
(* A field more, and the end of the block.                                 *)
(***************************************************************************)
LEMMA SameFront ==
  ASSUME NEW S, NEW s \in Seq(S), NEW t \in Seq(S), NEW n \in Nat,
         n <= Len(s), n <= Len(t), \A i \in 1 .. n : s[i] = t[i]
  PROVE  SubSeq(s, 1, n) = SubSeq(t, 1, n)
  <1>1. /\ SubSeq(s, 1, n) \in Seq(S) /\ Len(SubSeq(s, 1, n)) = n
        /\ \A i \in 1 .. n : SubSeq(s, 1, n)[i] = s[i]
    BY SubSeqProperties
  <1>2. /\ SubSeq(t, 1, n) \in Seq(S) /\ Len(SubSeq(t, 1, n)) = n
        /\ \A i \in 1 .. n : SubSeq(t, 1, n)[i] = t[i]
    BY SubSeqProperties
  <1>. QED
    BY <1>1, <1>2, SeqEqual

LEMMA OneMore ==
  ASSUME NEW S, NEW s \in Seq(S), NEW t \in Seq(S), NEW n \in Nat,
         n < Len(s), n < Len(t), \A i \in 1 .. n : s[i] = t[i]
  PROVE  SubSeq(t, 1, n + 1) = SubSeq(s, 1, n) \o <<t[n + 1]>>
  <1>. DEFINE u == SubSeq(s, 1, n)
              o == <<t[n + 1]>>
              w == SubSeq(t, 1, n + 1)
  <1>1. u \in Seq(S) /\ Len(u) = n /\ \A i \in 1 .. n : u[i] = s[i]
    BY SubSeqProperties
  <1>2. w \in Seq(S) /\ Len(w) = n + 1 /\ \A i \in 1 .. n + 1 : w[i] = t[i]
    BY SubSeqProperties
  <1>3. o \in Seq(S) /\ Len(o) = 1 /\ o[1] = t[n + 1]
    OBVIOUS
  <1>. HIDE DEF u, o, w
  <1>4. /\ u \o o \in Seq(S) /\ Len(u \o o) = n + 1
        /\ \A i \in 1 .. n : (u \o o)[i] = u[i]
        /\ (u \o o)[n + 1] = o[1]
    <2>1. /\ u \o o \in Seq(S) /\ Len(u \o o) = Len(u) + Len(o)
          /\ \A i \in 1 .. Len(u) + Len(o) :
               (u \o o)[i] = IF i <= Len(u) THEN u[i] ELSE o[i - Len(u)]
      BY <1>1, <1>3, ConcatProperties
    <2>. QED
      BY <1>1, <1>3, <2>1
  <1>5. w = u \o o
    <2>1. \A i \in 1 .. n + 1 : w[i] = (u \o o)[i]
      <3>1. \A i \in 1 .. n + 1 : i \in 1 .. n \/ i = n + 1
        OBVIOUS
      <3>. QED
        BY <1>1, <1>2, <1>3, <1>4, <3>1
    <2>. QED
      BY <1>2, <1>4, <2>1, SeqEqual
  <1>. QED
    BY <1>5 DEF u, o, w

(* The fields of a list come before those of r. *)
Put(r, list) == [r EXCEPT !.fields = list \o @]

LEMMA PutTwice ==
  ASSUME NEW S, NEW T, NEW s \in Seq(S), NEW o \in Seq(S), NEW r \in Said(T)
  PROVE  Put(Put(r, o), s) = Put(r, s \o o)
  <1>1. r.fields \in Seq(T)
    BY DEF Said
  <1>. DEFINE q == Put(r, o)
  <1>2. q.fields = o \o r.fields /\ Put(q, s) = [r EXCEPT !.fields = s \o q.fields]
    BY DEF Said, Put
  <1>3. \A t \in Seq(T) : s \o (o \o t) = (s \o o) \o t
    <2>. SUFFICES ASSUME NEW t \in Seq(T)
                  PROVE  s \o (o \o t) = (s \o o) \o t
      OBVIOUS
    <2>1. s \in Seq(S \cup T) /\ o \in Seq(S \cup T) /\ t \in Seq(S \cup T)
      OBVIOUS
    <2>. QED
      BY ONLY <2>1, ConcatAssociative
  <1>4. s \o (o \o r.fields) = (s \o o) \o r.fields
    BY <1>1, <1>3
  <1>. QED
    BY <1>2, <1>4 DEF Put

LEMMA HeadedSame ==
  ASSUME NEW b, NEW k, NEW l, NEW a, NEW n, NEW f, NEW p, Headed(b, k, l, a, n, f, p),
         NEW c, SubSeq(c, 1, n) = SubSeq(a, 1, n)
  PROVE  Headed(b, k, l, c, n, f, p)
  BY DEF Headed

(* The line from offset q on of a block from f on is the field h. *)
Says(b, f, q, h) == FieldOf(b, Line(b, q), q = f) = Parsed(h)

LEMMA HeadedGrows ==
  ASSUME NEW b \in Seq(Byte), NEW k, NEW l, NEW a \in Seq(Slots), NEW n \in Nat,
         n < Len(a), NEW f, NEW q, Headed(b, k, l, a, n, f, q),
         NEW e \in Nat, NEW p \in Nat, Ends(b, q, e, p), q < e,
         NEW c \in Seq(Slots), n < Len(c), \A i \in 1 .. n : a[i] = c[i],
         Says(b, f, q, c[n + 1])
  PROVE  Headed(b, k, l, c, n + 1, f, p)
  <1>1. /\ f \in Nat /\ q \in Nat /\ f \in 0 .. Len(b) /\ q \in f .. Len(b)
        /\ Meaning(k, b) = Block(b, l, f)
        /\ Fields(b, f)[f] = [Fields(b, f)[q] EXCEPT !.fields = SubSeq(a, 1, n) \o @]
    BY DEF Headed
  <1>2. /\ Line(b, q) = [from |-> q, next |-> p, to |-> e]
        /\ HasLine(b, q) /\ p \in q + 1 .. Len(b)
    BY <1>1, LineIs
  <1>3. ~Empty(Line(b, q)) /\ Line(b, q).next = p
    BY <1>1, <1>2 DEF Empty
  <1>4. Fields(b, f)[q] = Field(b, f, q, Fields(b, f))
    BY <1>1, FieldsUnfold
  <1>5. p \in f .. Len(b) /\ p # f
    BY <1>1, <1>2
  <1>. DEFINE R == Fields(b, f)[p]
              out == c[n + 1]
  <1>6. R \in Said(Outs(b, f))
    BY <1>1, <1>5, FieldsTyped
  <1>7. Parsed(out).ok /\ Parsed(out).out = out
    BY DEF Parsed
  <1>8. Fields(b, f)[q] = [R EXCEPT !.fields = <<out>> \o @]
    <2>. HIDE DEF out
    <2>. QED
      BY <1>2, <1>3, <1>4, <1>7 DEF Field, out, Says
  <1>9. out \in Slots
    OBVIOUS
  <1>10. SubSeq(c, 1, n + 1) = SubSeq(a, 1, n) \o <<out>>
    BY OneMore
  <1>11. SubSeq(a, 1, n) \in Seq(Slots)
    BY SubSeqProperties
  <1>. DEFINE first == SubSeq(a, 1, n)
              all == SubSeq(c, 1, n + 1)
              one == <<out>>
  <1>12. first \in Seq(Slots) /\ one \in Seq(Slots) /\ all = first \o one
    BY <1>9, <1>10, <1>11
  <1>13. Fields(b, f)[q] = Put(R, one)
    BY <1>8 DEF Put
  <1>14. Fields(b, f)[f] = Put(Fields(b, f)[q], first)
    BY <1>1 DEF Put
  <1>. HIDE DEF R, out, first, all, one
  <1>15. Fields(b, f)[f] = Put(R, all)
    <2>1. Put(Put(R, one), first) = Put(R, first \o one)
      BY <1>6, <1>12, PutTwice
    <2>. QED
      BY <1>12, <1>13, <1>14, <2>1
  <1>16. Fields(b, f)[f] = [Fields(b, f)[p] EXCEPT !.fields = SubSeq(c, 1, n + 1) \o @]
    BY <1>15 DEF Put, R, all
  <1>17. n + 1 # 0 /\ f <= p /\ p <= Len(b)
    BY <1>5
  <1>. QED
    BY <1>1, <1>5, <1>16, <1>17 DEF Headed

(* The line in progress is the field that is written. *)
LEMMA FieldWritten ==
  ASSUME NEW b \in Seq(Byte), NEW n \in Nat, NEW q \in Nat, NEW name, NEW v, NEW e \in Nat,
         InField(b, n, q, name, v, e), NEW p \in Nat, BreakAt(b, e, p),
         NEW t \in Nat, v <= t, t <= e, Only(b, {SP, HT}, t, e),
         t = v \/ b[t] \notin {SP, HT}, NEW f, n = 0 <=> q = f
  PROVE  /\ Ends(b, q, e, p) /\ q < e
         /\ Says(b, f, q, Header(name, Span(v, t)))
  <1>1. v \in Nat /\ v <= e /\ Only(b, ValueChars, v, e) /\ Only(b, Byte \ Breaks, v, e)
    <2>1. v \in Nat /\ v <= e /\ Only(b, ValueChars, v, e)
      BY DEF InField
    <2>. QED
      BY <2>1, ValueFacts, OnlyAll
  <1>2. b[e + 1] \in Breaks
    BY DEF BreakAt, Breaks
  <1>3. CASE n > 0 /\ v = q /\ name = Null /\ b[q + 1] \in {SP, HT}
    <2>1. q < e
      <3>1. q # e
        BY <1>2, <1>3, ValueFacts
      <3>. QED
        BY <1>1, <1>3, <3>1
    <2>2. Ends(b, q, e, p)
      BY <1>1, <1>3, <2>1 DEF BreakAt, Ends
    <2>3. Line(b, q).from = q /\ Line(b, q).to = e
      BY <2>2, LineIs
    <2>4. q # f /\ t \in q .. e
      BY <1>3
    <2>5. FieldOf(b, Line(b, q), q = f) = Parsed(Header(Null, Span(q, t)))
      <3>1. Trim(b, q, e) = t
        BY <2>4, <1>3, TrimIs
      <3>. QED
        BY <1>1, <1>3, <2>3, <2>4, <3>1 DEF FieldOf, Header
    <2>. QED
      BY <1>3, <2>1, <2>2, <2>5 DEF Says
  <1>4. CASE \E c \in Nat :
               /\ q < c /\ Only(b, TokenChars, q, c) /\ b[c + 1] = COLON
               /\ name = Span(q, c) /\ c + 1 <= v /\ Only(b, {SP, HT}, c + 1, v)
               /\ b[v + 1] \notin {SP, HT}
    <2>1. PICK c \in Nat :
            /\ q < c /\ Only(b, TokenChars, q, c) /\ b[c + 1] = COLON
            /\ name = Span(q, c) /\ c + 1 <= v /\ Only(b, {SP, HT}, c + 1, v)
            /\ b[v + 1] \notin {SP, HT}
      BY <1>4
    <2>2. q < e
      BY <1>1, <2>1
    <2>3. Only(b, Byte \ Breaks, q, e)
      <3>1. Only(b, Byte \ Breaks, q, c)
        BY <2>1, TokenFacts, OnlyAll
      <3>2. b[c + 1] \in Byte \ Breaks
        BY <2>1, TokenFacts
      <3>3. Only(b, Byte \ Breaks, q, c + 1) /\ c + 1 \in Nat
        BY <3>1, <3>2, OnlyGrows
      <3>4. Only(b, Byte \ Breaks, c + 1, v)
        BY <1>1, <2>1, <3>3, ValueFacts, OnlyAll
      <3>5. Only(b, Byte \ Breaks, q, v)
        BY <1>1, <3>3, <3>4, OnlyJoins
      <3>. QED
        BY <1>1, <3>5, OnlyJoins
    <2>4. Ends(b, q, e, p)
      BY <2>2, <2>3 DEF BreakAt, Ends
    <2>5. Line(b, q).from = q /\ Line(b, q).to = e
      BY <2>4, LineIs
    <2>6. v \in c + 1 .. e /\ t \in v .. e
      BY <1>1, <2>1
    <2>7. FieldOf(b, Line(b, q), q = f) = Parsed(Header(Span(q, c), Span(v, t)))
      <3>1. /\ Past(b, Byte \ {COLON}, q, e) = c /\ Past(b, {SP, HT}, c + 1, e) = v
            /\ Trim(b, v, e) = t /\ b[q + 1] \notin {SP, HT}
            /\ Only(b, ValueChars, c + 1, e) /\ c < e
        BY <1>1, <2>1, <2>6, FieldIs
      <3>. QED
        BY <2>1, <2>5, <3>1 DEF FieldOf, Header
    <2>. QED
      BY <2>1, <2>2, <2>4, <2>7 DEF Says
  <1>. QED
    BY <1>3, <1>4 DEF InField

(* An empty line ends the block: of the bytes b, m is the head that ends   *)
(* at e, with the first line l and the first n of a.                       *)
HeadOver(b, m, e, l, a, n) ==
  /\ m.ok /\ m.end = e /\ m.line = l /\ e <= Len(b)
  /\ m.fields = SubSeq(a, 1, n) /\ Len(SubSeq(a, 1, n)) = n

LEMMA BlockOver ==
  ASSUME NEW b \in Seq(Byte), NEW k, NEW l, NEW a \in Seq(Slots), NEW n \in Nat,
         n <= Len(a), NEW f, NEW p \in Nat, Headed(b, k, l, a, n, f, p),
         NEW e \in Nat, BreakAt(b, p, e)
  PROVE  HeadOver(b, Meaning(k, b), e, l, a, n)
  <1>1. f \in 0 .. Len(b) /\ p \in f .. Len(b)
    BY DEF Headed
  <1>2. Ends(b, p, p, e)
    BY OnlyNone DEF BreakAt, Ends
  <1>3. /\ Line(b, p) = [from |-> p, next |-> e, to |-> p]
        /\ HasLine(b, p) /\ e \in p + 1 .. Len(b)
    BY <1>2, LineIs
  <1>4. Fields(b, f)[p] = Over(e)
    <2>1. Fields(b, f)[p] = Field(b, f, p, Fields(b, f))
      BY <1>1, FieldsUnfold
    <2>2. Empty(Line(b, p)) /\ Line(b, p).next = e
      BY <1>3 DEF Empty
    <2>. QED
      BY <1>3, <2>1, <2>2 DEF Field
  <1>5. Over(e).ok /\ Over(e).end = e /\ Over(e).fields = << >>
    BY DEF Over
  <1>6. HeadIs(Meaning(k, b), l, a, n, Fields(b, f)[p])
    BY HeadedSays
  <1>7. HeadIs(Meaning(k, b), l, a, n, Over(e))
    BY <1>4, <1>6
  <1>8. SubSeq(a, 1, n) \o << >> = SubSeq(a, 1, n)
    BY <1>7 DEF HeadIs
  <1>. QED
    BY <1>3, <1>5, <1>7, <1>8 DEF HeadIs, HeadOver

-----------------------------------------------------------------------------
(***************************************************************************)
(* The header block.                                                       *)
(***************************************************************************)
LEMMA NewHeaderReads ==
  ASSUME HeadReads, HInv, NewHeader, UNCHANGED <<exchange, fed>>
  PROVE  HeadReads'
  <1>1. /\ pc = "line" /\ pc' = "name" /\ UNCHANGED <<args, ret, line, slots, count>>
        /\ start' = pos /\ pos' = pos
    BY DEF NewHeader, Goto, outputs
  <1>2. PICK f \in Nat : Headed(Stream, kind, line, slots, count, f, pos)
    BY <1>1 DEF HeadReads, InBlock, FieldsSoFar
  <1>3. Stream' = Stream /\ kind' = kind
    BY <1>1, GoesOn
  <1>4. pos \in Nat /\ Only(Stream, TokenChars, pos, pos)
    BY OnlyNone DEF HInv, HeadTypeOK
  <1>5. /\ Headed(Stream', kind', line', slots', count', f, start')
        /\ Only(Stream', TokenChars, start', pos')
    BY <1>1, <1>2, <1>3, <1>4
  <1>6. InBlock'
    BY <1>1, <1>5 DEF InBlock, FieldsSoFar
  <1>. QED
    BY <1>1, <1>6, NowInBlock

LEMMA NameByteReads ==
  ASSUME HeadReads, HInv, NameByte, UNCHANGED <<exchange, fed>>
  PROVE  HeadReads'
  <1>1. /\ pc = "name" /\ pc' = "name" /\ UNCHANGED <<args, ret, line, slots, count, start>>
        /\ pos' = pos + 1 /\ Sees(TokenChars)
    BY DEF NameByte, Advance, Goto, outputs
  <1>2. PICK f \in Nat : /\ Headed(Stream, kind, line, slots, count, f, start)
                         /\ Only(Stream, TokenChars, start, pos)
    BY <1>1 DEF HeadReads, InBlock, FieldsSoFar
  <1>3. Stream' = Stream /\ kind' = kind
    BY <1>1, GoesOn
  <1>4. pos \in Nat /\ start \in Nat /\ Stream[pos + 1] \in TokenChars
    BY <1>1, SeesStream DEF HInv, HeadTypeOK
  <1>5. Only(Stream, TokenChars, start, pos + 1)
    BY <1>2, <1>4, OnlyGrows
  <1>6. /\ Headed(Stream', kind', line', slots', count', f, start')
        /\ Only(Stream', TokenChars, start', pos')
    BY <1>1, <1>2, <1>3, <1>5
  <1>7. InBlock'
    BY <1>1, <1>6 DEF InBlock, FieldsSoFar
  <1>. QED
    BY <1>1, <1>7, NowInBlock

(* To write the slot in progress leaves the headers counted. *)
LEMMA SlotWritten ==
  ASSUME HInv, HInv', count < cap, cap' = cap, count' \in {count, count + 1},
         \A i \in 1 .. count : slots'[i] = slots[i]
  PROVE  /\ SubSeq(slots', 1, count) = SubSeq(slots, 1, count)
         /\ slots' \in Seq(Slots) /\ Len(slots') = cap
  <1>1. /\ slots \in Seq(Slots) /\ Len(slots) = cap /\ count \in Nat /\ count <= cap
        /\ cap \in Nat
    BY SlotsAre DEF HInv, HeadTypeOK
  <1>2. slots' \in [1 .. cap' -> Slots]
    BY DEF HInv, HeadTypeOK
  <1>3. slots' \in Seq(Slots) /\ Len(slots') = cap
    BY <1>1, <1>2
  <1>. QED
    BY <1>1, <1>3, SameFront

LEMMA NameSet ==
  ASSUME HInv, NEW name, set_name(name), count < cap
  PROVE  /\ \A i \in 1 .. count : slots'[i] = slots[i]
         /\ slots'[count + 1].name = name
  <1>1. count \in Nat /\ cap \in Nat /\ slots \in [1 .. cap -> Slots]
    BY DEF HInv, HeadTypeOK
  <1>2. count + 1 \in 1 .. cap /\ slots[count + 1] \in Slots
    BY <1>1
  <1>. QED
    BY <1>1, <1>2 DEF set_name, Slots

LEMMA ContinuationReads ==
  ASSUME HeadReads, HInv, HInv', Continuation, UNCHANGED <<exchange, fed>>
  PROVE  HeadReads'
  <1>1. /\ pc = "line" /\ pc' = "value_words" /\ UNCHANGED <<args, ret, line, count>>
        /\ start' = pos /\ pos' = pos /\ set_name(Null)
        /\ count # 0 /\ Sees({SP, HT}) /\ count # cap
    BY DEF Continuation, Continues, Full, Goto
  <1>2. PICK f \in Nat : Headed(Stream, kind, line, slots, count, f, pos)
    BY <1>1 DEF HeadReads, InBlock, FieldsSoFar
  <1>3. Stream' = Stream /\ kind' = kind /\ count' = count /\ cap' = cap
    BY <1>1, GoesOn DEF args
  <1>4. count \in Nat /\ count < cap /\ count > 0 /\ pos \in Nat
    BY <1>1 DEF HInv, HeadTypeOK
  <1>5. /\ \A i \in 1 .. count : slots'[i] = slots[i]
        /\ slots'[count + 1].name = Null
    BY <1>1, <1>4, NameSet
  <1>6. SubSeq(slots', 1, count) = SubSeq(slots, 1, count)
    BY <1>3, <1>4, <1>5, SlotWritten
  <1>7. Headed(Stream, kind, line, slots', count, f, pos)
    BY <1>2, <1>6, HeadedSame
  <1>8. Stream[pos + 1] \in {SP, HT} /\ Only(Stream, ValueChars, pos, pos)
    BY <1>1, <1>4, SeesStream, OnlyNone
  <1>9. InField(Stream, count, pos, Null, pos, pos)
    BY <1>4, <1>8 DEF InField
  <1>10. /\ Headed(Stream', kind', line', slots', count', f, pos)
         /\ InField(Stream', count', pos, slots'[count' + 1].name, start', pos')
    BY <1>1, <1>3, <1>5, <1>7, <1>9
  <1>11. InBlock'
    BY <1>1, <1>4, <1>10 DEF InBlock, FieldsSoFar, Current
  <1>. QED
    BY <1>1, <1>11, NowInBlock

LEMMA NameEndReads ==
  ASSUME HeadReads, HInv, HInv', NameEnd, UNCHANGED <<exchange, fed>>
  PROVE  HeadReads'
  <1>1. /\ pc = "name" /\ Sees({COLON}) /\ set_name(Span(start, pos))
        /\ UNCHANGED <<start, line, count>>
    BY DEF NameEnd
  <1>2. count < cap /\ count \in Nat /\ start \in Nat /\ pos \in Nat /\ start <= pos
    BY <1>1 DEF HInv, HeadTypeOK, SlotsInOrder, Writing, CursorsInBuffer
  <1>3. /\ \A i \in 1 .. count : slots'[i] = slots[i]
        /\ slots'[count + 1].name = Span(start, pos)
    BY <1>1, <1>2, NameSet
  <1>4. UNCHANGED args
    BY DEF NameEnd, Goto
  <1>5. cap' = cap /\ kind' = kind
    BY <1>4 DEF args
  <1>6. SubSeq(slots', 1, count) = SubSeq(slots, 1, count)
    BY <1>1, <1>2, <1>3, <1>5, SlotWritten
  <1>7. CASE pos = start
    <2>1. pc' = "idle" /\ ret' = MALFORMED
      BY <1>7 DEF NameEnd, Return
    <2>2. ret' < 0 /\ ret' \in Int /\ pc # "idle" /\ count' = count
      BY <1>1, <2>1 DEF MALFORMED
    <2>. QED
      BY <1>5, <1>6, <2>1, <2>2, FailReads
  <1>8. CASE pos # start
    <2>1. pos' = pos + 1 /\ pc' = "before_value" /\ UNCHANGED <<args, ret>>
      BY <1>8 DEF NameEnd, Goto
    <2>2. PICK f \in Nat : /\ Headed(Stream, kind, line, slots, count, f, start)
                           /\ Only(Stream, TokenChars, start, pos)
      BY <1>1 DEF HeadReads, InBlock, FieldsSoFar
    <2>3. Stream' = Stream /\ kind' = kind
      BY <1>1, <2>1, GoesOn
    <2>4. Headed(Stream, kind, line, slots', count, f, start)
      BY <1>6, <2>2, HeadedSame
    <2>5. Stream[pos + 1] = COLON /\ Only(Stream, {SP, HT}, pos + 1, pos + 1)
      <3>1. pos + 1 \in Nat
        BY <1>2
      <3>. QED
        BY <1>1, <3>1, SeesStream, OnlyNone
    <2>6. /\ Headed(Stream', kind', line', slots', count', f, start)
          /\ start < pos /\ pos < pos'
          /\ Only(Stream', TokenChars, start, pos) /\ Stream'[pos + 1] = COLON
          /\ slots'[count' + 1].name = Span(start, pos)
          /\ Only(Stream', {SP, HT}, pos + 1, pos')
      BY <1>1, <1>2, <1>3, <1>8, <2>1, <2>2, <2>3, <2>4, <2>5
    <2>7. InBlock'
      BY <1>2, <2>1, <2>6 DEF InBlock, FieldsSoFar, Current
    <2>. QED
      BY <1>1, <2>1, <2>7, NowInBlock
  <1>. QED
    BY <1>7, <1>8

LEMMA BeforeValueReads ==
  ASSUME HeadReads, HInv, BeforeValue, UNCHANGED <<exchange, fed>>
  PROVE  HeadReads'
  <1>1. /\ pc = "before_value" /\ UNCHANGED <<args, ret, line, slots, count>>
        /\ \/ Sees({SP, HT}) /\ pc' = "before_value" /\ pos' = pos + 1
           \/ Sees(Byte \ {SP, HT}) /\ pc' = "value_words" /\ pos' = pos /\ start' = pos
    BY DEF BeforeValue, Advance, Goto, outputs
  <1>2. PICK f \in Nat, q \in Nat, c \in Nat :
          /\ Headed(Stream, kind, line, slots, count, f, q) /\ q < c /\ c < pos
          /\ Only(Stream, TokenChars, q, c) /\ Stream[c + 1] = COLON
          /\ Current.name = Span(q, c) /\ Only(Stream, {SP, HT}, c + 1, pos)
    BY <1>1 DEF HeadReads, InBlock, FieldsSoFar
  <1>3. pc' # "idle"
    BY <1>1
  <1>4. Stream' = Stream /\ kind' = kind
    BY <1>1, <1>3, GoesOn
  <1>5. /\ Headed(Stream', kind', line', slots', count', f, q)
        /\ slots'[count' + 1].name = Span(q, c)
    BY <1>1, <1>2, <1>4 DEF Current
  <1>6. pos \in Nat
    BY DEF HInv, HeadTypeOK
  <1>7. CASE Sees({SP, HT}) /\ pc' = "before_value" /\ pos' = pos + 1
    <2>1. Stream[pos + 1] \in {SP, HT} /\ c + 1 \in Nat
      BY <1>1, <1>7, SeesStream
    <2>2. Only(Stream, {SP, HT}, c + 1, pos + 1)
      BY <1>2, <1>6, <2>1, OnlyGrows
    <2>3. /\ c < pos' /\ Only(Stream', TokenChars, q, c) /\ Stream'[c + 1] = COLON
          /\ Only(Stream', {SP, HT}, c + 1, pos')
      BY <1>2, <1>4, <1>6, <1>7, <2>2
    <2>4. InBlock'
      BY <1>2, <1>5, <1>7, <2>3 DEF InBlock, FieldsSoFar, Current
    <2>. QED
      BY <1>1, <1>7, <2>4, NowInBlock
  <1>8. CASE Sees(Byte \ {SP, HT}) /\ pc' = "value_words" /\ pos' = pos /\ start' = pos
    <2>1. Stream[pos + 1] \notin {SP, HT} /\ Only(Stream, ValueChars, pos, pos)
      BY <1>1, <1>6, <1>8, SeesStream, OnlyNone
    <2>2. InField(Stream, count, q, Span(q, c), pos, pos)
      BY <1>2, <1>6, <2>1 DEF InField
    <2>3. InField(Stream', count', q, slots'[count' + 1].name, start', pos')
      BY <1>1, <1>4, <1>5, <1>8, <2>2
    <2>4. InBlock'
      BY <1>5, <1>8, <2>3 DEF InBlock, FieldsSoFar, Current
    <2>. QED
      BY <1>1, <1>8, <2>4, NowInBlock
  <1>. QED
    BY <1>1, <1>7, <1>8

LEMMA ValueScanned ==
  ASSUME HeadReads, HInv, pc \in {"value_words", "value"}, Scanned,
         UNCHANGED <<exchange, fed>>
  PROVE  HeadReads'
  <1>1. /\ pc' \in {"value_words", "value"} /\ UNCHANGED <<args, ret, line, slots, count, start>>
        /\ pos \in Nat /\ pos' \in Nat /\ pos <= pos' /\ Only(Stream, ValueChars, pos, pos')
    BY DEF Scanned, outputs
  <1>2. PICK f \in Nat, q \in Nat :
          /\ Headed(Stream, kind, line, slots, count, f, q)
          /\ InField(Stream, count, q, Current.name, start, pos)
    BY DEF HeadReads, InBlock, FieldsSoFar
  <1>3. Stream' = Stream /\ kind' = kind
    BY <1>1, GoesOn
  <1>4. start \in Nat /\ start <= pos /\ Only(Stream, ValueChars, start, pos)
    BY <1>2 DEF InField
  <1>5. Only(Stream, ValueChars, start, pos') /\ start <= pos'
    BY <1>1, <1>4, OnlyJoins
  <1>6. InField(Stream, count, q, Current.name, start, pos')
    BY <1>2, <1>5 DEF InField
  <1>7. /\ Headed(Stream', kind', line', slots', count', f, q)
        /\ InField(Stream', count', q, slots'[count' + 1].name, start', pos')
    BY <1>1, <1>2, <1>3, <1>6 DEF Current
  <1>8. InBlock'
    BY <1>1, <1>7 DEF InBlock, FieldsSoFar, Current
  <1>. QED
    BY <1>1, <1>8, NowInBlock

LEMMA ValueEndReads ==
  ASSUME HeadReads, HInv, ValueEnd, UNCHANGED <<exchange, fed>>
  PROVE  HeadReads'
  <1>1. /\ pc = "value" /\ pc' = "trim" /\ UNCHANGED <<args, ret, line, slots, count, start>>
        /\ stop' = pos /\ pos' = pos + LineBreak /\ Sees(Breaks) /\ LineBreak > 0
    BY DEF ValueEnd, Goto, outputs
  <1>2. PICK f \in Nat, q \in Nat :
          /\ Headed(Stream, kind, line, slots, count, f, q)
          /\ InField(Stream, count, q, Current.name, start, pos)
    BY <1>1 DEF HeadReads, InBlock, FieldsSoFar
  <1>3. Stream' = Stream /\ kind' = kind
    BY <1>1, GoesOn
  <1>4. BreakAt(Stream, pos, pos') /\ pos \in Nat
    BY <1>1, BreakInStream
  <1>5. start <= pos /\ Only(Stream, {SP, HT}, pos, pos)
    BY <1>1, <1>4, OnlyNone DEF HInv, CursorsInBuffer
  <1>. DEFINE e == pos
  <1>6. e \in Nat
    BY <1>4
  <1>7. PICK x \in Nat : x = e
    BY <1>6
  <1>8. /\ Headed(Stream', kind', line', slots', count', f, q)
        /\ InField(Stream', count', q, slots'[count' + 1].name, start', x)
        /\ BreakAt(Stream', x, pos')
        /\ start' <= stop' /\ stop' <= x /\ Only(Stream', {SP, HT}, stop', x)
    BY <1>1, <1>2, <1>3, <1>4, <1>5, <1>7 DEF Current
  <1>9. InBlock'
    BY <1>1, <1>8 DEF InBlock, FieldsSoFar, Current
  <1>. QED
    BY <1>1, <1>9, NowInBlock

LEMMA TrimBlankReads ==
  ASSUME HeadReads, HInv, TrimBlank, UNCHANGED <<exchange, fed>>
  PROVE  HeadReads'
  <1>1. /\ pc = "trim" /\ pc' = "trim"
        /\ UNCHANGED <<args, ret, line, slots, count, start, pos>>
        /\ stop' = stop - 1 /\ start < stop /\ Octet(stop - 1) \in {SP, HT}
    BY DEF TrimBlank, TrailingBlank, Goto, outputs
  <1>2. PICK f \in Nat, q \in Nat, e \in Nat :
          /\ Headed(Stream, kind, line, slots, count, f, q)
          /\ InField(Stream, count, q, Current.name, start, e)
          /\ BreakAt(Stream, e, pos)
          /\ start <= stop /\ stop <= e /\ Only(Stream, {SP, HT}, stop, e)
    BY <1>1 DEF HeadReads, InBlock, FieldsSoFar
  <1>3. Stream' = Stream /\ kind' = kind
    BY <1>1, GoesOn
  <1>4. /\ start \in Nat /\ stop \in Nat /\ pos \in Nat /\ stop < pos /\ pos <= Len(buf)
    BY <1>1 DEF HInv, HeadTypeOK, CursorsInBuffer
  <1>5. Stream[stop] \in {SP, HT}
    <2>1. stop \in 1 .. fed /\ (stop - 1) + 1 = stop
      BY <1>1, <1>4, Received
    <2>. QED
      BY <1>1, <2>1, Received DEF Octet
  <1>6. Only(Stream, {SP, HT}, stop - 1, e) /\ start <= stop - 1 /\ stop - 1 <= e
    BY <1>1, <1>2, <1>4, <1>5 DEF Only
  <1>7. /\ Headed(Stream', kind', line', slots', count', f, q)
        /\ InField(Stream', count', q, slots'[count' + 1].name, start', e)
        /\ BreakAt(Stream', e, pos')
        /\ start' <= stop' /\ stop' <= e /\ Only(Stream', {SP, HT}, stop', e)
    BY <1>1, <1>2, <1>3, <1>6 DEF Current
  <1>8. InBlock'
    BY <1>1, <1>7 DEF InBlock, FieldsSoFar, Current
  <1>. QED
    BY <1>1, <1>8, NowInBlock

LEMMA HeaderDoneReads ==
  ASSUME HeadReads, HInv, HInv', HeaderDone, UNCHANGED <<exchange, fed>>
  PROVE  HeadReads'
  <1>1. /\ pc = "trim" /\ pc' = "line"
        /\ UNCHANGED <<args, ret, line, start, stop, pos>> /\ count' = count + 1
        /\ set_value(Span(start, stop))
        /\ start = stop \/ Octet(stop - 1) \notin {SP, HT}
    <2>1. start <= stop /\ start \in Nat /\ stop \in Nat
      BY DEF HeaderDone, HInv, HeadTypeOK, CursorsInBuffer
    <2>. QED
      BY <2>1 DEF HeaderDone, TrailingBlank, Goto, cursors
  <1>2. PICK f \in Nat, q \in Nat, e \in Nat :
          /\ Headed(Stream, kind, line, slots, count, f, q)
          /\ InField(Stream, count, q, Current.name, start, e)
          /\ BreakAt(Stream, e, pos)
          /\ start <= stop /\ stop <= e /\ Only(Stream, {SP, HT}, stop, e)
    BY <1>1 DEF HeadReads, InBlock, FieldsSoFar
  <1>3. Stream' = Stream /\ kind' = kind
    BY <1>1, GoesOn
  <1>4. /\ start \in Nat /\ stop \in Nat /\ pos \in Nat /\ stop < pos /\ pos <= Len(buf)
        /\ count < cap /\ count \in Nat /\ Stream \in Seq(Byte)
    BY <1>1, Received DEF HInv, HeadTypeOK, CursorsInBuffer, SlotsInOrder, Writing
  <1>5. stop = start \/ Stream[stop] \notin {SP, HT}
    <2>1. CASE start < stop
      <3>1. stop \in 1 .. fed /\ (stop - 1) + 1 = stop
        BY <1>1, <1>4, <2>1, Received
      <3>. QED
        BY <1>1, <2>1, <3>1, Received DEF Octet
    <2>. QED
      BY <1>2, <1>4, <2>1
  <1>6. /\ \A i \in 1 .. count : slots'[i] = slots[i]
        /\ slots'[count + 1] = Header(Current.name, Span(start, stop))
    <2>1. cap \in Nat /\ slots \in [1 .. cap -> Slots]
      BY DEF HInv, HeadTypeOK
    <2>2. count + 1 \in 1 .. cap /\ slots[count + 1] \in Slots
      BY <1>4, <2>1
    <2>. QED
      BY <1>1, <1>4, <2>1, <2>2 DEF set_value, Slots, Header, Current
  <1>7. slots' \in Seq(Slots) /\ Len(slots') = cap /\ slots \in Seq(Slots) /\ Len(slots) = cap
    BY <1>1, <1>4, <1>6, SlotWritten, SlotsAre DEF args
  <1>8. count = 0 <=> q = f
    BY <1>2 DEF Headed
  <1>9. /\ Ends(Stream, q, e, pos) /\ q < e
        /\ Says(Stream, f, q, Header(Current.name, Span(start, stop)))
    BY <1>2, <1>4, <1>5, <1>8, FieldWritten
  <1>10. Headed(Stream, kind, line, slots', count + 1, f, pos)
    <2>1. Says(Stream, f, q, slots'[count + 1])
      BY <1>6, <1>9
    <2>. QED
      BY <1>2, <1>4, <1>6, <1>7, <1>9, <2>1, HeadedGrows
  <1>11. Headed(Stream', kind', line', slots', count', f, pos')
    BY <1>1, <1>3, <1>10
  <1>12. InBlock'
    BY <1>1, <1>11 DEF InBlock, FieldsSoFar
  <1>. QED
    BY <1>1, <1>12, NowInBlock

(* The length of a head fits the C int that the call returns. *)
LEMMA Fits ==
  ASSUME NEW n \in Nat, NEW m \in Nat, n <= m, 2 * m < CIntMod
  PROVE  c_int(n) = n
  <1>1. CIntMod \in Nat /\ 0 < CIntMod /\ n < CIntMod /\ 2 * n < CIntMod
    BY CIntAssumption
  <1>2. n % CIntMod = n
    BY <1>1
  <1>. QED
    BY <1>1, <1>2 DEF c_int

LEMMA BlockEndReads ==
  ASSUME HeadReads, HInv, BlockEnd, UNCHANGED <<exchange, fed>>
  PROVE  HeadReads'
  <1>1. /\ pc = "line" /\ pc' = "idle" /\ UNCHANGED <<args, line, slots, count>>
        /\ pos' = pos + LineBreak /\ ret' = c_int(pos') /\ Sees(Breaks) /\ LineBreak > 0
    BY DEF BlockEnd, Return, outputs
  <1>2. PICK f \in Nat : Headed(Stream, kind, line, slots, count, f, pos)
    BY <1>1 DEF HeadReads, InBlock, FieldsSoFar
  <1>3. /\ BreakAt(Stream, pos, pos') /\ pos \in Nat /\ pos' \in Nat
    BY <1>1, BreakInStream
  <1>4. /\ Stream \in Seq(Byte) /\ kind = exchange.kind /\ kind' = kind
        /\ exchange \in Exchanges /\ cap = exchange.cap
    BY <1>1, Received DEF HeadReads, Receiving, args
  <1>5. slots \in Seq(Slots) /\ count \in Nat /\ count <= Len(slots) /\ count <= cap
    BY SlotsAre
  <1>6. HeadOver(Stream, Meaning(kind, Stream), pos', line, slots, count)
    BY <1>2, <1>3, <1>4, <1>5, BlockOver
  <1>7. Meaning(kind, Stream) = Whole /\ Whole' = Whole
    BY <1>4 DEF Whole, Stream
  <1>8. ret' = pos'
    <2>1. 2 * Len(Stream) < CIntMod /\ Len(Stream) \in Nat
      BY <1>4, LengthAssumption DEF Stream
    <2>2. pos' <= Len(Stream)
      BY <1>6 DEF HeadOver
    <2>. QED
      BY <1>1, <1>3, <2>1, <2>2, Fits
  <1>9. AcceptsTheHead'
    <2>1. Whole.ok /\ Len(Whole.fields) <= exchange.cap
      BY <1>4, <1>5, <1>6, <1>7 DEF HeadOver
    <2>. QED
      BY <1>1, <1>6, <1>7, <1>8, <2>1 DEF AcceptsTheHead, Valid, HeadOver
  <1>10. PrefixSurvives'
    <2>1. count > 0 => /\ count <= Len(Whole.fields)
                       /\ SubSeq(slots, 1, count) = SubSeq(Whole.fields, 1, count)
      BY <1>1, <1>5, PrefixHolds
    <2>. QED
      BY <1>1, <1>7, <2>1 DEF PrefixSurvives
  <1>11. Receiving'
    BY <1>1, <1>4 DEF HeadReads, Receiving
  <1>12. InFirstLine' /\ InBlock'
    BY <1>1 DEF InFirstLine, InBlock
  <1>. QED
    BY <1>9, <1>10, <1>11, <1>12 DEF HeadReads

-----------------------------------------------------------------------------
(***************************************************************************)
(* Every step of a session.                                                *)
(***************************************************************************)
LEMMA RefusalReads ==
  ASSUME HeadReads, HInv, UNCHANGED <<exchange, fed>>,
         \/ Starved \/ BadLineBreak \/ TooManyHeaders \/ NameBad \/ ValueBad
         \/ MethodBad \/ PathBad
  PROVE  HeadReads'
  <1>1. CASE BadLineBreak
    <2>1. LineBreak \in Int /\ LineBreak < 0 /\ Fail(LineBreak) /\ pc # "idle"
      BY <1>1, LineBreaks DEF HInv, BadLineBreak, PARTIAL, MALFORMED
    <2>. QED
      BY <2>1, SomeFail
  <1>2. CASE ~BadLineBreak
    <2>1. pc # "idle" /\ \E error \in {PARTIAL, MALFORMED} : Fail(error)
      BY <1>2 DEF Starved, TooManyHeaders, NameBad, ValueBad, MethodBad, PathBad, Reading
    <2>2. \A error \in {PARTIAL, MALFORMED} : error \in Int /\ error < 0
      BY DEF PARTIAL, MALFORMED
    <2>. QED
      BY <2>1, <2>2, SomeFail
  <1>. QED
    BY <1>1, <1>2

LEMMA ScanReads ==
  ASSUME HeadReads, HInv, SkipWords \/ ValueByte, UNCHANGED <<exchange, fed>>
  PROVE  HeadReads'
  <1>1. Scanned /\ pc \in Scanning
    BY SkipScans, ByteScans
  <1>. QED
    BY <1>1, ReasonScanned, ValueScanned DEF Scanning

LEMMA CoreStepReads ==
  ASSUME HeadReads, HInv, HInv', CoreStep, UNCHANGED <<exchange, fed>>
  PROVE  HeadReads'
  <1>1. CASE \/ Starved \/ BadLineBreak \/ TooManyHeaders \/ NameBad \/ ValueBad
    BY <1>1, RefusalReads
  <1>2. CASE SkipWords \/ ValueByte
    BY <1>2, ScanReads
  <1>3. CASE GateByte \/ GateBreak \/ Version
    BY <1>3, GateByteReads, GateBreakReads, VersionReads
  <1>4. CASE BlockEnd \/ Continuation \/ NewHeader \/ NameByte \/ NameEnd
    BY <1>4, BlockEndReads, ContinuationReads, NewHeaderReads, NameByteReads, NameEndReads
  <1>5. CASE BeforeValue \/ ValueEnd \/ TrimBlank \/ HeaderDone
    BY <1>5, BeforeValueReads, ValueEndReads, TrimBlankReads, HeaderDoneReads
  <1>. QED
    BY <1>1, <1>2, <1>3, <1>4, <1>5 DEF CoreStep

LEMMA StepReads ==
  ASSUME HeadReads, HInv, HInv', Step, UNCHANGED <<exchange, fed>>
  PROVE  HeadReads'
  <1>1. CASE MethodBad \/ PathBad
    BY <1>1, RefusalReads
  <1>2. CASE RequestStep /\ ~(MethodBad \/ PathBad)
    BY <1>2, LeadingLineReads, MethodByteReads, MethodEndReads, BeforePathReads,
       PathByteReads, PathEndReads, BeforeVersionReads, RequestEolReads DEF RequestStep
  <1>3. CASE StatusStep
    BY <1>3, SpaceRequiredReads, MoreSpacesReads, StatusCodeReads, ReasonEndReads,
       StripSpacesReads DEF StatusStep
  <1>. QED
    BY <1>1, <1>2, <1>3, CoreStepReads DEF Step

LEMMA ExchangeIs ==
  ASSUME HeadReads
  PROVE  /\ exchange.kind \in Kinds /\ exchange.stream \in Seq(Byte) /\ exchange.cap \in Nat
         /\ fed \in 0 .. Len(exchange.stream)
  BY ExchangeAssumption DEF HeadReads, Receiving

LEMMA SessionNextKeeps ==
  ASSUME HeadReads, HInv, [SessionNext]_headvars
  PROVE  HInv' /\ HeadReads'
  <1>1. ASSUME NEW n \in 1 .. Len(exchange.stream) - fed, Deliver(n)
        PROVE  HInv' /\ HeadReads'
    <2>1. /\ exchange.kind \in Kinds /\ exchange.stream \in Seq(Byte) /\ exchange.cap \in Nat
          /\ fed \in Nat /\ fed' \in 1 .. Len(exchange.stream)
          /\ Enter(exchange.kind, SubSeq(exchange.stream, 1, fed'), fed, exchange.cap)
      BY <1>1, ExchangeIs DEF Deliver
    <2>2. SubSeq(exchange.stream, 1, fed') \in Seq(Byte)
      BY <2>1
    <2>3. HInv'
      BY <2>1, <2>2, EnterKeeps
    <2>. QED
      BY <1>1, <2>3, DeliverReads
  <1>2. CASE Step /\ UNCHANGED <<exchange, fed>>
    <2>1. HInv'
      BY <1>2, CoreStepKeeps, RequestStepKeeps, StatusStepKeeps DEF Step
    <2>. QED
      BY <1>2, <2>1, StepReads
  <1>3. CASE UNCHANGED headvars
    <2>1. HInv'
      BY <1>3, StutterKeeps DEF headvars
    <2>. USE <1>3 DEF headvars, vars, args, cursors, outputs
    <2>2. Receiving'
      BY DEF HeadReads, Receiving
    <2>3. InFirstLine'
      BY DEF HeadReads, InFirstLine, Stream
    <2>4. InBlock'
      BY DEF HeadReads, InBlock, FieldsSoFar, Stream, Current
    <2>5. AcceptsTheHead' /\ PrefixSurvives'
      BY DEF HeadReads, AcceptsTheHead, PrefixSurvives, Valid, Whole
    <2>. QED
      BY <2>1, <2>2, <2>3, <2>4, <2>5 DEF HeadReads
  <1>. QED
    BY <1>1, <1>2, <1>3 DEF SessionNext

LEMMA SessionBegins ==
  ASSUME SessionInit
  PROVE  HInv /\ HeadReads
  <1>1. /\ Init /\ pc = "idle" /\ count = 0 /\ ret = PARTIAL
        /\ kind = exchange.kind /\ fed = 0
    BY DEF SessionInit, Init
  <1>2. exchange.stream \in Seq(Byte) /\ exchange \in Exchanges
    BY ExchangeAssumption DEF SessionInit
  <1>3. 0 \in 0 .. Len(exchange.stream)
    BY <1>2
  <1>. QED
    BY <1>1, <1>2, <1>3, InitHolds DEF HeadReads, Receiving, InFirstLine, InBlock, AcceptsTheHead,
                          PrefixSurvives, PARTIAL

LEMMA HeadReadsAlways == SessionSpec => [](HInv /\ HeadReads)
  <1>1. SessionInit => HInv /\ HeadReads
    BY SessionBegins
  <1>2. HInv /\ HeadReads /\ [SessionNext]_headvars => (HInv /\ HeadReads)'
    BY SessionNextKeeps
  <1>. QED
    BY <1>1, <1>2, PTL DEF SessionSpec

(***************************************************************************)
(* A call that answers with a length (core.rs, parse_headers: "bytes       *)
(* consumed" of a complete head) has read a head of the grammar, all of it *)
(* and no more, and publishes its parts: whatever stream is sent, however  *)
(* it is cut into calls and whatever the word at a time scan skips.        *)
(***************************************************************************)
THEOREM AcceptsOnlyHeads == SessionSpec => []AcceptsTheHead
  <1>1. HInv /\ HeadReads => AcceptsTheHead
    BY DEF HeadReads
  <1>. QED
    BY <1>1, HeadReadsAlways, PTL

(***************************************************************************)
(* "Completed headers (prefix survives errors)" (ffi.rs, write_headers_out *)
(* and the sinks): after an error the headers that num_headers counts are  *)
(* the first ones of the message, complete and in order.                   *)
(***************************************************************************)
THEOREM PrefixKept == SessionSpec => []PrefixSurvives
  <1>1. HInv /\ HeadReads => PrefixSurvives
    BY DEF HeadReads
  <1>. QED
    BY <1>1, HeadReadsAlways, PTL

-----------------------------------------------------------------------------
(***************************************************************************)
(* The other direction: what a line is, a first line, a field, if the      *)
(* grammar has them.                                                       *)
(***************************************************************************)
LEMMA Before ==
  ASSUME NEW b, NEW S, NEW f \in Nat, NEW p \in Nat, NEW x \in Nat, f <= x,
         Only(b, S, f, p), b[x + 1] \notin S
  PROVE  p <= x
  <1>1. CASE x < p
    <2>1. x + 1 \in f + 1 .. p
      BY <1>1
    <2>. QED
      BY <2>1 DEF Only
  <1>. QED
    BY <1>1

LEMMA MinSays ==
  ASSUME NEW T \in SUBSET Nat, T # {}
  PROVE  Min(T) \in T /\ \A y \in T : Min(T) <= y
  <1>1. PICK x \in T : \A y \in T : x <= y
    BY Least
  <1>2. Min(T) = x
    BY <1>1, MinIs
  <1>. QED
    BY <1>1, <1>2

(* The first offset x of from .. to whose byte is not in S. *)
Stops(b, S, from, to, x) ==
  x \in from .. to /\ Only(b, S, from, x) /\ (x < to => b[x + 1] \notin S)

LEMMA PastSays ==
  ASSUME NEW b, NEW S, NEW from \in Nat, NEW to \in Nat, from <= to
  PROVE  Stops(b, S, from, to, Past(b, S, from, to))
  <1>. DEFINE T == {i \in from .. to - 1 : b[i + 1] \notin S} \cup {to}
  <1>1. T \in SUBSET Nat /\ to \in T
    OBVIOUS
  <1>2. PICK x \in T : Min(T) = x /\ \A y \in T : x <= y
    <2>. HIDE DEF T
    <2>1. Min(T) \in T /\ \A y \in T : Min(T) <= y
      BY <1>1, MinSays
    <2>. QED
      BY <2>1
  <1>3. x \in from .. to
    BY <1>2
  <1>4. x < to => b[x + 1] \notin S
    BY <1>2
  <1>5. Only(b, S, from, x)
    <2>. SUFFICES ASSUME NEW i \in from + 1 .. x, b[i] \notin S PROVE FALSE
      BY DEF Only
    <2>1. i - 1 \in from .. to - 1 /\ (i - 1) + 1 = i /\ i - 1 < x
      BY <1>3
    <2>2. i - 1 \in T
      BY <2>1
    <2>. QED
      BY <1>2, <2>1, <2>2
  <1>. HIDE DEF T
  <1>6. Past(b, S, from, to) = x
    BY <1>2 DEF Past, T
  <1>. QED
    BY <1>3, <1>4, <1>5, <1>6 DEF Stops

(* The line of offset p: up to offset e, the next one from n on. *)
IsLine(b, p, e, n) ==
  /\ e \in Nat /\ n \in Nat /\ p <= e /\ BreakAt(b, e, n)
  /\ p < e /\ n = e + 1 => b[e] # CR

LEMMA LineSays ==
  ASSUME NEW b \in Seq(Byte), NEW p \in Nat, HasLine(b, p)
  PROVE  IsLine(b, p, Line(b, p).to, Line(b, p).next) /\ Line(b, p).from = p
  <1>. DEFINE T == {i \in p .. Len(b) - 1 : b[i + 1] = LF}
  <1>1. Len(b) \in Nat /\ T \in SUBSET Nat /\ T # {}
    <2>1. PICK i \in p .. Len(b) - 1 : b[i + 1] = LF
      BY DEF HasLine
    <2>2. i \in T /\ Len(b) \in Nat
      BY <2>1
    <2>3. T \in SUBSET Nat
      OBVIOUS
    <2>. QED
      BY <2>2, <2>3
  <1>2. PICK lf \in T : Min(T) = lf /\ \A y \in T : lf <= y
    BY <1>1, MinSays
  <1>3. lf \in p .. Len(b) - 1 /\ b[lf + 1] = LF /\ lf \in Nat
    BY <1>1, <1>2
  <1>. HIDE DEF T
  <1>4. Line(b, p) = [from |-> p, next |-> lf + 1,
                      to |-> IF lf > p /\ b[lf] = CR THEN lf - 1 ELSE lf]
    BY <1>2 DEF Line, T
  <1>5. CASE lf > p /\ b[lf] = CR
    <2>1. Line(b, p).to = lf - 1 /\ Line(b, p).next = lf + 1
      BY <1>4, <1>5
    <2>2. (lf - 1) + 1 = lf /\ (lf - 1) + 2 = lf + 1 /\ lf - 1 \in Nat /\ p <= lf - 1
          /\ lf + 1 <= Len(b)
      BY <1>1, <1>3, <1>5
    <2>3. IsLine(b, p, lf - 1, lf + 1)
      BY <1>3, <1>5, <2>2 DEF IsLine, BreakAt
    <2>. QED
      BY <1>4, <2>1, <2>3
  <1>6. CASE ~(lf > p /\ b[lf] = CR)
    <2>1. Line(b, p).to = lf /\ Line(b, p).next = lf + 1
      BY <1>4, <1>6
    <2>2. IsLine(b, p, lf, lf + 1)
      BY <1>1, <1>3, <1>6 DEF IsLine, BreakAt
    <2>. QED
      BY <1>4, <2>1, <2>2
  <1>. QED
    BY <1>5, <1>6

(* The line from offset q to e is a field, the nth and one more. *)
FieldShape(b, n, q, e) ==
  /\ q \in Nat /\ e \in Nat /\ q < e
  /\ \/ n > 0 /\ b[q + 1] \in {SP, HT} /\ Only(b, ValueChars, q, e)
     \/ /\ n > 0 => b[q + 1] \notin {SP, HT}
        /\ \E c \in Nat : /\ q < c /\ c < e /\ Only(b, TokenChars, q, c)
                          /\ b[c + 1] = COLON /\ Only(b, ValueChars, c + 1, e)

LEMMA FieldSays ==
  ASSUME NEW b \in Seq(Byte), NEW f, NEW q \in Nat, NEW n \in Nat, n = 0 <=> q = f,
         HasLine(b, q), ~Empty(Line(b, q)), FieldOf(b, Line(b, q), q = f).ok
  PROVE  FieldShape(b, n, q, Line(b, q).to)
  <1>. DEFINE l == Line(b, q)
              e == l.to
              colon == Past(b, Byte \ {COLON}, q, e)
  <1>1. l.from = q /\ e \in Nat /\ q < e /\ e <= Len(b)
    <2>1. IsLine(b, q, e, l.next) /\ l.from = q
      BY LineSays
    <2>. QED
      BY <2>1 DEF IsLine, BreakAt, Empty
  <1>. HIDE DEF l, e
  <1>2. FieldOf(b, l, q = f).ok /\ e = l.to
    BY DEF l, e
  <1>3. CASE n > 0 /\ b[q + 1] \in {SP, HT}
    <2>1. Only(b, ValueChars, q, e)
      BY <1>1, <1>2, <1>3 DEF FieldOf, Refused
    <2>. QED
      BY <1>1, <1>3, <2>1 DEF FieldShape, l, e
  <1>4. CASE ~(n > 0 /\ b[q + 1] \in {SP, HT})
    <2>1. Stops(b, Byte \ {COLON}, q, e, colon)
      BY <1>1, PastSays
    <2>. HIDE DEF colon
    <2>2. /\ q < colon /\ colon < e /\ Only(b, TokenChars, q, colon)
          /\ Only(b, ValueChars, colon + 1, e)
      BY <1>1, <1>2, <1>4 DEF FieldOf, Refused, colon
    <2>3. colon \in Nat /\ b[colon + 1] = COLON
      <3>1. colon \in q .. e /\ b[colon + 1] \notin Byte \ {COLON}
        BY <1>1, <2>1, <2>2 DEF Stops
      <3>2. colon + 1 \in 1 .. Len(b)
        BY <1>1, <2>2, <3>1
      <3>. QED
        BY <3>1, <3>2
    <2>4. FieldShape(b, n, q, e)
      BY <1>1, <1>4, <2>2, <2>3 DEF FieldShape
    <2>. QED
      BY <2>4 DEF l, e
  <1>. QED
    BY <1>3, <1>4

LEMMA FieldUnbroken ==
  ASSUME NEW b, NEW n \in Nat, NEW q, NEW e, FieldShape(b, n, q, e)
  PROVE  Only(b, Byte \ Breaks, q, e) /\ q \in Nat /\ e \in Nat /\ q < e
  <1>1. q \in Nat /\ e \in Nat /\ q < e
    BY DEF FieldShape
  <1>2. CASE Only(b, ValueChars, q, e)
    BY <1>1, <1>2, ValueFacts, OnlyAll
  <1>3. CASE \E c \in Nat : /\ q < c /\ c < e /\ Only(b, TokenChars, q, c)
                            /\ b[c + 1] = COLON /\ Only(b, ValueChars, c + 1, e)
    <2>1. PICK c \in Nat : /\ q < c /\ c < e /\ Only(b, TokenChars, q, c)
                           /\ b[c + 1] = COLON /\ Only(b, ValueChars, c + 1, e)
      BY <1>3
    <2>2. Only(b, Byte \ Breaks, q, c) /\ c + 1 \in Nat
      BY <1>1, <2>1, TokenFacts, OnlyAll
    <2>3. Only(b, Byte \ Breaks, q, c + 1)
      BY <1>1, <2>1, <2>2, TokenFacts, OnlyGrows
    <2>4. Only(b, Byte \ Breaks, c + 1, e)
      BY <1>1, <2>1, <2>2, ValueFacts, OnlyAll
    <2>. QED
      BY <1>1, <2>2, <2>3, <2>4, OnlyJoins
  <1>. QED
    BY <1>1, <1>2, <1>3 DEF FieldShape

LEMMA RequestSays ==
  ASSUME NEW b \in Seq(Byte), NEW a \in Nat, NEW e \in Nat, a <= e, e <= Len(b),
         NEW l, l.from = a, l.to = e, RequestOf(b, l).ok
  PROVE  \E m, q, r, v \in Nat : RequestShape(b, a, m, q, r, v) /\ e = v + 8
  <1>. DEFINE m == Past(b, Byte \ {SP}, a, e)
              q == Past(b, {SP}, m, e)
              r == Past(b, Byte \ {SP}, q, e)
              v == Past(b, {SP}, r, e)
  <1>1. Stops(b, Byte \ {SP}, a, e, m)
    BY PastSays
  <1>2. m \in Nat /\ m <= e
    BY <1>1 DEF Stops
  <1>. HIDE DEF m
  <1>3. Stops(b, {SP}, m, e, q)
    BY <1>2, PastSays
  <1>4. q \in Nat /\ q <= e /\ m <= q
    BY <1>2, <1>3 DEF Stops
  <1>. HIDE DEF q
  <1>5. Stops(b, Byte \ {SP}, q, e, r)
    BY <1>4, PastSays
  <1>6. r \in Nat /\ r <= e
    BY <1>4, <1>5 DEF Stops
  <1>. HIDE DEF r
  <1>7. Stops(b, {SP}, r, e, v)
    BY <1>6, PastSays
  <1>8. v \in Nat /\ v <= e
    BY <1>6, <1>7 DEF Stops
  <1>. HIDE DEF v
  <1>9. /\ m > a /\ Only(b, TokenChars, a, m)
        /\ r > q /\ Only(b, PathChars, q, r)
        /\ v > r /\ e = v + 8 /\ VersionAt(b, v)
    BY DEF RequestOf, Refused, m, q, r, v
  <1>10. b[m + 1] = SP /\ b[q + 1] # SP /\ b[r + 1] = SP /\ b[v + 1] # SP
    <2>1. m < e /\ q < e /\ r < e /\ v < e
      BY <1>2, <1>4, <1>6, <1>8, <1>9
    <2>2. m + 1 \in 1 .. Len(b) /\ r + 1 \in 1 .. Len(b)
      BY <1>2, <1>6, <2>1
    <2>. QED
      BY <1>1, <1>3, <1>5, <1>7, <2>1, <2>2 DEF Stops
  <1>11. m < q
    <2>1. m # q
      BY <1>10
    <2>. QED
      BY <1>2, <1>4, <2>1
  <1>12. Only(b, {SP}, m, q) /\ Only(b, {SP}, r, v)
    BY <1>3, <1>7 DEF Stops
  <1>13. RequestShape(b, a, m, q, r, v)
    BY <1>2, <1>4, <1>6, <1>8, <1>9, <1>10, <1>11, <1>12 DEF RequestShape
  <1>. QED
    BY <1>2, <1>4, <1>6, <1>8, <1>9, <1>13

(* A status line up to offset e, with its code from c on. *)
CodeShape(b, c, e) ==
  /\ c \in Nat /\ e \in Nat /\ VersionAt(b, 0) /\ 8 < c /\ Only(b, {SP}, 8, c)
  /\ c + 3 <= e /\ Only(b, Digits, c, c + 3) /\ b[c + 1] \in Digits
  /\ Only(b, ValueChars, c + 3, e) /\ (c + 3 < e => b[c + 4] = SP)

LEMMA StatusSays ==
  ASSUME NEW b \in Seq(Byte), NEW e \in Nat, e <= Len(b),
         NEW l, l.from = 0, l.to = e, StatusOf(b, l).ok
  PROVE  \E c \in Nat : CodeShape(b, c, e)
  <1>. DEFINE c == Past(b, {SP}, l.from + 8, l.to)
              x == Past(b, {SP}, c + 3, l.to)
  <1>1. l.from + 8 = 8 /\ l.to = e /\ 8 \in Nat
    OBVIOUS
  <1>2. /\ VersionAt(b, 0) /\ c > 8 /\ c + 3 <= e
        /\ Only(b, Digits, c, c + 3) /\ Only(b, ValueChars, c + 3, e)
        /\ x > c + 3 \/ x = e
    BY <1>1 DEF StatusOf, Refused
  <1>3. 8 <= e
    <2>1. CASE e < 8
      <3>1. {i \in 8 .. e - 1 : b[i + 1] \notin {SP}} \cup {e} = {e}
        BY <2>1
      <3>2. Min({e}) = e
        BY MinIs
      <3>3. c = e
        BY <1>1, <3>1, <3>2 DEF Past
      <3>. QED
        BY <1>2, <3>3
    <2>. QED
      BY <2>1
  <1>4. Stops(b, {SP}, 8, e, c)
    BY <1>1, <1>3, PastSays
  <1>5. c \in Nat /\ Only(b, {SP}, 8, c) /\ c + 3 \in Nat
    BY <1>4 DEF Stops
  <1>. HIDE DEF c
  <1>6. Stops(b, {SP}, c + 3, e, x)
    <2>1. \A z \in Nat : z <= e => Stops(b, {SP}, z, e, Past(b, {SP}, z, e))
      BY PastSays
    <2>. QED
      BY <1>1, <1>2, <1>5, <2>1
  <1>. HIDE DEF x
  <1>7. b[c + 1] \in Digits
    <2>1. c + 1 \in c + 1 .. c + 3
      BY <1>5
    <2>. QED
      BY <1>2, <2>1 DEF Only
  <1>8. c + 3 < e => b[c + 4] = SP
    <2>1. CASE c + 3 < e
      <3>1. x > c + 3 /\ x \in Nat
        BY <1>2, <1>5, <1>6, <2>1 DEF Stops
      <3>2. (c + 3) + 1 \in (c + 3) + 1 .. x /\ (c + 3) + 1 = c + 4
        BY <1>5, <3>1
      <3>. QED
        BY <1>6, <3>2 DEF Stops, Only
    <2>. QED
      BY <2>1
  <1>9. CodeShape(b, c, e)
    BY <1>2, <1>5, <1>7, <1>8 DEF CodeShape
  <1>. QED
    BY <1>5, <1>9

(* From offset from to end no CR stands alone. *)
Closed(b, from, end) ==
  /\ from \in Nat /\ end \in Nat /\ from < end /\ end <= Len(b)
  /\ \A i \in from + 1 .. end : b[i] = CR => i < end /\ b[i + 1] = LF

(* The last line but one breaks at x, the empty one after it at y. *)
TwoBreaks(b, x, y, end) ==
  /\ x \in Nat /\ y \in Nat /\ 0 < x /\ x < y /\ b[x] # CR
  /\ BreakAt(b, x, y) /\ BreakAt(b, y, end)

LastBreaks(b, end) == \E x, y \in Nat : TwoBreaks(b, x, y, end)

Ending(b, from, end) ==
  Closed(b, from, end) /\ (BreakAt(b, from, end) \/ LastBreaks(b, end))

LEMMA ClosedJoins ==
  ASSUME NEW b, NEW from, NEW mid, NEW end, Closed(b, from, mid), Closed(b, mid, end)
  PROVE  Closed(b, from, end)
  BY DEF Closed

LEMMA LineClosed ==
  ASSUME NEW b \in Seq(Byte), NEW q \in Nat, NEW e \in Nat, q <= e,
         Only(b, Byte \ Breaks, q, e), NEW n \in Nat, BreakAt(b, e, n)
  PROVE  Closed(b, q, n)
  <1>1. q < n /\ n <= Len(b) /\ Len(b) \in Nat
    BY DEF BreakAt
  <1>2. ASSUME NEW i \in q + 1 .. n, b[i] = CR
        PROVE  i < n /\ b[i + 1] = LF
    <2>1. i \notin q + 1 .. e
      BY <1>2 DEF Only, Breaks
    <2>2. i = e + 1 \/ i = e + 2
      BY <2>1 DEF BreakAt
    <2>3. CR # LF
      BY DEF CR, LF
    <2>. QED
      BY <1>2, <2>2, <2>3 DEF BreakAt
  <1>. QED
    BY <1>1, <1>2 DEF Closed

LEMMA LineEnds ==
  ASSUME NEW b \in Seq(Byte), NEW q \in Nat, NEW e \in Nat, q < e,
         Only(b, Byte \ Breaks, q, e), NEW n \in Nat, BreakAt(b, e, n),
         NEW end, Ending(b, n, end)
  PROVE  Closed(b, q, end) /\ LastBreaks(b, end)
  <1>1. Closed(b, q, end)
    <2>1. Closed(b, q, n)
      BY LineClosed
    <2>2. Closed(b, n, end)
      BY DEF Ending
    <2>. QED
      BY <2>1, <2>2, ClosedJoins
  <1>2. CASE BreakAt(b, n, end)
    <2>1. b[e] # CR
      <3>1. e \in q + 1 .. e
        OBVIOUS
      <3>. QED
        BY <3>1 DEF Only, Breaks
    <2>2. e < n
      BY DEF BreakAt
    <2>3. TwoBreaks(b, e, n, end)
      BY <1>2, <2>1, <2>2 DEF TwoBreaks
    <2>. QED
      BY <1>1, <2>3 DEF LastBreaks
  <1>. QED
    BY <1>1, <1>2 DEF Ending

LEMMA FieldEnds ==
  ASSUME NEW b \in Seq(Byte), NEW f \in Nat, NEW at \in f .. Len(b), NEW g, NEW S,
         \A i \in at + 1 .. Len(b) : g[i] \in Said(S),
         \A i \in at + 1 .. Len(b) : g[i].ok => Ending(b, i, g[i].end),
         Field(b, f, at, g).ok
  PROVE  /\ Ending(b, at, Field(b, f, at, g).end)
         /\ Empty(Line(b, at)) \/ LastBreaks(b, Field(b, f, at, g).end)
  <1>. DEFINE l == Line(b, at)
              e == l.to
              n == l.next
              r == g[n]
  <1>1. at \in Nat /\ HasLine(b, at)
    BY DEF Field, Nothing
  <1>2. IsLine(b, at, e, n) /\ l.from = at /\ n \in at + 1 .. Len(b)
    BY <1>1, LineSays, LineNext
  <1>3. CASE Empty(l)
    <2>1. Field(b, f, at, g).end = n
      BY <1>1, <1>3 DEF Field, Over
    <2>2. BreakAt(b, at, n) /\ n \in Nat
      BY <1>2, <1>3 DEF Empty, IsLine
    <2>3. Closed(b, at, n)
      BY <1>1, <2>2, LineClosed, OnlyNone
    <2>. QED
      BY <1>3, <2>1, <2>2, <2>3 DEF Ending
  <1>4. CASE ~Empty(l)
    <2>. DEFINE m == IF at = f THEN 0 ELSE 1
    <2>1. FieldOf(b, Line(b, at), at = f).ok
      BY <1>1, <1>4 DEF Field, Nothing
    <2>2. m \in Nat /\ (m = 0 <=> at = f)
      OBVIOUS
    <2>3. FieldShape(b, m, at, e)
      <3>. HIDE DEF m
      <3>. QED
        BY <1>1, <1>4, <2>1, <2>2, FieldSays
    <2>4. Only(b, Byte \ Breaks, at, e) /\ e \in Nat /\ at < e
      <3>. HIDE DEF m, e
      <3>. QED
        BY <2>2, <2>3, FieldUnbroken
    <2>5. r \in Said(S)
      BY <1>2
    <2>6. Field(b, f, at, g)
            = Put(r, <<FieldOf(b, Line(b, at), at = f).out>>)
      BY <1>1, <1>4, <2>1 DEF Field, Put
    <2>7. \A list : Put(r, list).ok = r.ok /\ Put(r, list).end = r.end
      BY <2>5 DEF Said, Put
    <2>8. r.ok /\ Field(b, f, at, g).end = r.end
      BY <2>6, <2>7
    <2>9. Ending(b, n, r.end)
      BY <1>2, <2>8
    <2>10. BreakAt(b, e, n) /\ n \in Nat
      BY <1>2 DEF IsLine
    <2>11. Closed(b, at, r.end) /\ LastBreaks(b, r.end)
      <3>. HIDE DEF l, e, n, r
      <3>. QED
        BY <1>1, <2>4, <2>9, <2>10, LineEnds
    <2>. QED
      BY <2>8, <2>11 DEF Ending
  <1>. QED
    BY <1>3, <1>4

LEMMA FieldsEnd ==
  ASSUME NEW b \in Seq(Byte), NEW f \in 0 .. Len(b), NEW at \in f .. Len(b),
         Fields(b, f)[at].ok
  PROVE  /\ Ending(b, at, Fields(b, f)[at].end)
         /\ Empty(Line(b, at)) \/ LastBreaks(b, Fields(b, f)[at].end)
  <1>. DEFINE R == Fields(b, f)
              From(m) == Len(b) - m
              Bad == {m \in 0 .. Len(b) - f :
                        R[From(m)].ok /\ ~Ending(b, From(m), R[From(m)].end)}
  <1>1. Len(b) \in Nat
    OBVIOUS
  <1>2. Bad = {}
    <2>. SUFFICES ASSUME Bad # {} PROVE FALSE
      OBVIOUS
    <2>1. Bad \subseteq Nat
      BY <1>1
    <2>2. PICK m \in Bad : \A j \in Bad : m <= j
      BY <2>1, Least
    <2>. DEFINE k == From(m)
    <2>3. k \in f .. Len(b) /\ m \in 0 .. Len(b) - f /\ m + k = Len(b)
      BY <1>1, <2>2
    <2>4. ASSUME NEW i \in k + 1 .. Len(b), R[i].ok
          PROVE  Ending(b, i, R[i].end)
      <3>. DEFINE j == Len(b) - i
      <3>1. j \in 0 .. Len(b) - f /\ j < m /\ From(j) = i
        BY <1>1, <2>3
      <3>2. j \notin Bad
        <4>1. m \in Nat /\ j \in Nat /\ ~(m <= j)
          BY <1>1, <2>3, <3>1
        <4>. HIDE DEF Bad, j
        <4>. QED
          BY <2>2, <4>1
      <3>. HIDE DEF R, j, From
      <3>. QED
        BY <2>4, <3>1, <3>2
    <2>5. \A i \in k + 1 .. Len(b) : R[i] \in Said(Outs(b, f))
      BY <2>3, FieldsTyped
    <2>6. R[k] = Field(b, f, k, R)
      BY <2>3, FieldsUnfold
    <2>7. R[k].ok /\ ~Ending(b, k, R[k].end)
      BY <2>2
    <2>. HIDE DEF R, k
    <2>8. Ending(b, k, Field(b, f, k, R).end)
      BY <2>3, <2>4, <2>5, <2>6, <2>7, FieldEnds
    <2>. QED
      BY <2>6, <2>7, <2>8
  <1>3. Len(b) - at \in 0 .. Len(b) - f /\ From(Len(b) - at) = at
    BY <1>1
  <1>4. Ending(b, at, R[at].end)
    BY <1>2, <1>3
  <1>5. \A i \in at + 1 .. Len(b) : R[i] \in Said(Outs(b, f))
    BY FieldsTyped
  <1>6. \A i \in at + 1 .. Len(b) : R[i].ok => Ending(b, i, R[i].end)
    <2>. SUFFICES ASSUME NEW i \in at + 1 .. Len(b), R[i].ok PROVE Ending(b, i, R[i].end)
      OBVIOUS
    <2>1. Len(b) - i \in 0 .. Len(b) - f /\ From(Len(b) - i) = i
      BY <1>1
    <2>. QED
      BY <1>2, <2>1
  <1>7. R[at] = Field(b, f, at, R)
    BY FieldsUnfold
  <1>. HIDE DEF R
  <1>8. Empty(Line(b, at)) \/ LastBreaks(b, Field(b, f, at, R).end)
    BY <1>5, <1>6, <1>7, FieldEnds DEF R
  <1>. QED
    BY <1>4, <1>7, <1>8 DEF R

-----------------------------------------------------------------------------
(***************************************************************************)
(* A head that is owed: it is valid, so the answer must be its length once *)
(* all of it is there.                                                     *)
(***************************************************************************)
Owed == Valid /\ ~EmptyBlock

(* The first line of a head that ends at end: from a to e, and the block   *)
(* of its fields from n on.                                                *)
FirstLine(b, a, e, n, end) ==
  /\ a \in Nat /\ e \in Nat /\ n \in Nat /\ a < e
  /\ Only(b, Byte \ Breaks, a, e) /\ BreakAt(b, e, n) /\ n < end
  /\ a > 0 => BreakAt(b, 0, a)

OwedFrom(b, a, e, n, end) ==
  /\ FirstLine(b, a, e, n, end) /\ Closed(b, 0, end) /\ LastBreaks(b, end)

LEMMA BlockSays ==
  ASSUME NEW b \in Seq(Byte), NEW f \in 0 .. Len(b), NEW out
  PROVE  /\ Block(b, out, f).ok = Fields(b, f)[f].ok
         /\ Block(b, out, f).end = Fields(b, f)[f].end
         /\ Block(b, out, f).fields = Fields(b, f)[f].fields
  <1>1. Fields(b, f)[f] \in Said(Outs(b, f))
    BY FieldsTyped
  <1>. DEFINE r == Fields(b, f)[f]
  <1>. HIDE DEF r
  <1>2. \A o : [r EXCEPT !.line = o].ok = r.ok /\ [r EXCEPT !.line = o].end = r.end
               /\ [r EXCEPT !.line = o].fields = r.fields
    BY <1>1 DEF Said, r
  <1>. QED
    BY <1>2 DEF Block, r

LEMMA FirstLineEnds ==
  ASSUME NEW b \in Seq(Byte), NEW a \in Nat, NEW e \in Nat, a < e,
         Only(b, Byte \ Breaks, a, e), NEW n \in Nat, BreakAt(b, e, n),
         a > 0 => BreakAt(b, 0, a), Fields(b, n)[n].ok
  PROVE  OwedFrom(b, a, e, n, Fields(b, n)[n].end)
  <1>. DEFINE end == Fields(b, n)[n].end
  <1>1. n \in 0 .. Len(b)
    BY DEF BreakAt
  <1>2. Ending(b, n, end)
    <2>1. n \in n .. Len(b)
      BY <1>1
    <2>. QED
      BY <1>1, <2>1, FieldsEnd
  <1>. HIDE DEF end
  <1>3. Closed(b, a, end) /\ LastBreaks(b, end)
    BY <1>2, LineEnds
  <1>4. n < end
    BY <1>2 DEF Ending, Closed
  <1>5. Closed(b, 0, end)
    <2>1. CASE a > 0
      <3>1. Closed(b, 0, a)
        BY <2>1, LineClosed, OnlyNone
      <3>. QED
        BY <1>3, <3>1, ClosedJoins
    <2>. QED
      BY <1>3, <2>1
  <1>. QED
    BY <1>3, <1>4, <1>5 DEF OwedFrom, FirstLine, end

LEMMA LeadingSays ==
  ASSUME NEW b \in Seq(Byte), NEW a, Leading("request", b) = a
  PROVE  a \in Nat /\ (a > 0 => BreakAt(b, 0, a))
  <1>1. CASE HasLine(b, 0) /\ Empty(Line(b, 0))
    <2>1. IsLine(b, 0, Line(b, 0).to, Line(b, 0).next) /\ Line(b, 0).from = 0
      BY <1>1, LineSays
    <2>. QED
      BY <1>1, <2>1 DEF IsLine, Empty, Leading
  <1>2. CASE ~(HasLine(b, 0) /\ Empty(Line(b, 0)))
    BY <1>2 DEF Leading
  <1>. QED
    BY <1>1, <1>2

(* The stream of a request that is owed. *)
RequestOwed(b, end) ==
  \E a, m, q, r, v, n \in Nat :
    /\ Leading("request", b) = a /\ RequestShape(b, a, m, q, r, v)
    /\ OwedFrom(b, a, v + 8, n, end)

ResponseOwed(b, end) ==
  \E c, e, n \in Nat : CodeShape(b, c, e) /\ OwedFrom(b, 0, e, n, end)

LEMMA RequestUnbroken ==
  ASSUME NEW b \in Seq(Byte), NEW a, NEW m, NEW q, NEW r, NEW v,
         RequestShape(b, a, m, q, r, v)
  PROVE  Only(b, Byte \ Breaks, a, v + 8) /\ a < v + 8 /\ v + 8 \in Nat /\ v + 8 <= Len(b)
  <1>1. /\ a \in Nat /\ m \in Nat /\ q \in Nat /\ r \in Nat /\ v \in Nat
        /\ a < m /\ m < q /\ q < r /\ r < v
    BY DEF RequestShape
  <1>2. Only(b, Byte \ Breaks, v, v + 8) /\ v + 8 <= Len(b)
    BY VersionBytes DEF RequestShape
  <1>3. Only(b, Byte \ Breaks, a, m)
    BY <1>1, TokenFacts, OnlyAll DEF RequestShape
  <1>4. {SP} \subseteq Byte \ Breaks
    BY PathFacts
  <1>5. Only(b, Byte \ Breaks, m, q)
    <2>1. Only(b, {SP}, m, q)
      BY DEF RequestShape
    <2>. QED
      BY <1>1, <1>4, <2>1, OnlyAll
  <1>6. Only(b, Byte \ Breaks, q, r)
    BY <1>1, PathFacts, OnlyAll DEF RequestShape
  <1>7. Only(b, Byte \ Breaks, r, v)
    <2>1. Only(b, {SP}, r, v)
      BY DEF RequestShape
    <2>. QED
      BY <1>1, <1>4, <2>1, OnlyAll
  <1>8. Only(b, Byte \ Breaks, a, q)
    BY <1>1, <1>3, <1>5, OnlyJoins
  <1>9. Only(b, Byte \ Breaks, a, r)
    BY <1>1, <1>8, <1>6, OnlyJoins
  <1>10. Only(b, Byte \ Breaks, a, v)
    BY <1>1, <1>9, <1>7, OnlyJoins
  <1>11. v + 8 \in Nat /\ a < v + 8
    BY <1>1
  <1>12. Only(b, Byte \ Breaks, a, v + 8)
    BY <1>1, <1>2, <1>10, <1>11, OnlyJoins
  <1>. QED
    BY <1>2, <1>11, <1>12

LEMMA CodeUnbroken ==
  ASSUME NEW b \in Seq(Byte), NEW c, NEW e, CodeShape(b, c, e)
  PROVE  Only(b, Byte \ Breaks, 0, e) /\ 0 < e
  <1>1. c \in Nat /\ e \in Nat /\ 8 < c /\ c + 3 <= e /\ c + 3 \in Nat
    BY DEF CodeShape
  <1>2. Only(b, Byte \ Breaks, 0, 8)
    <2>1. Only(b, Byte \ Breaks, 0, 0 + 8)
      BY VersionBytes DEF CodeShape
    <2>. QED
      BY <2>1
  <1>3. Only(b, Byte \ Breaks, 8, c)
    <2>1. Only(b, {SP}, 8, c) /\ {SP} \subseteq Byte \ Breaks
      BY PathFacts DEF CodeShape
    <2>. QED
      BY <1>1, <2>1, OnlyAll
  <1>4. Only(b, Byte \ Breaks, c, c + 3)
    <2>1. Only(b, Digits, c, c + 3) /\ Digits \subseteq Byte \ Breaks
      BY DigitFacts DEF CodeShape
    <2>2. \A y \in Nat : Only(b, Digits, c, y) => Only(b, Byte \ Breaks, c, y)
      BY <1>1, <2>1, OnlyAll
    <2>. QED
      BY <1>1, <2>1, <2>2
  <1>5. Only(b, Byte \ Breaks, c + 3, e)
    <2>1. Only(b, ValueChars, c + 3, e) /\ ValueChars \subseteq Byte \ Breaks
      BY ValueFacts DEF CodeShape
    <2>2. \A y \in Nat : Only(b, ValueChars, y, e) => Only(b, Byte \ Breaks, y, e)
      BY <1>1, <2>1, OnlyAll
    <2>. QED
      BY <1>1, <2>1, <2>2
  <1>6. Only(b, Byte \ Breaks, 0, c)
    BY <1>1, <1>2, <1>3, OnlyJoins
  <1>7. \A y \in Nat : Only(b, Byte \ Breaks, c, y) /\ Only(b, Byte \ Breaks, y, e)
                         => Only(b, Byte \ Breaks, 0, e)
    <2>. SUFFICES ASSUME NEW y \in Nat, Only(b, Byte \ Breaks, c, y),
                         Only(b, Byte \ Breaks, y, e)
                  PROVE  Only(b, Byte \ Breaks, 0, e)
      OBVIOUS
    <2>1. Only(b, Byte \ Breaks, 0, y)
      BY <1>1, <1>6, OnlyJoins
    <2>. QED
      BY <1>1, <2>1, OnlyJoins
  <1>8. \E y \in Nat : Only(b, Byte \ Breaks, c, y) /\ Only(b, Byte \ Breaks, y, e)
    BY <1>1, <1>4, <1>5
  <1>9. Only(b, Byte \ Breaks, 0, e)
    BY <1>7, <1>8
  <1>. QED
    BY <1>1, <1>9

LEMMA RequestIsOwed ==
  ASSUME NEW b \in Seq(Byte), Meaning("request", b).ok
  PROVE  RequestOwed(b, Meaning("request", b).end)
  <1>. DEFINE a == Leading("request", b)
              l == Line(b, a)
              e == l.to
              n == l.next
  <1>1. HasLine(b, a) /\ ~Empty(l) /\ RequestOf(b, l).ok
        /\ Meaning("request", b) = Block(b, RequestOf(b, l).out, n)
    BY DEF Meaning, FirstOf, Nothing
  <1>2. a \in Nat /\ (a > 0 => BreakAt(b, 0, a))
    BY LeadingSays
  <1>3. IsLine(b, a, e, n) /\ l.from = a
    BY <1>1, <1>2, LineSays
  <1>4. e \in Nat /\ n \in Nat /\ a < e /\ e <= Len(b) /\ BreakAt(b, e, n) /\ n \in 0 .. Len(b)
    BY <1>1, <1>2, <1>3 DEF IsLine, BreakAt, Empty
  <1>5. Meaning("request", b).ok = Fields(b, n)[n].ok
        /\ Meaning("request", b).end = Fields(b, n)[n].end
    BY <1>1, <1>4, BlockSays
  <1>. HIDE DEF n, e, l, a
  <1>6. l.to = e
    BY DEF e
  <1>7. PICK m, q, r, v \in Nat : RequestShape(b, a, m, q, r, v) /\ e = v + 8
    BY <1>1, <1>2, <1>3, <1>4, <1>6, RequestSays
  <1>8. Only(b, Byte \ Breaks, a, e)
    BY <1>7, RequestUnbroken
  <1>9. OwedFrom(b, a, e, n, Fields(b, n)[n].end)
    BY <1>2, <1>4, <1>5, <1>8, FirstLineEnds
  <1>. QED
    BY <1>2, <1>4, <1>5, <1>7, <1>9 DEF RequestOwed, a

LEMMA ResponseIsOwed ==
  ASSUME NEW b \in Seq(Byte), Meaning("response", b).ok
  PROVE  ResponseOwed(b, Meaning("response", b).end)
  <1>. DEFINE l == Line(b, 0)
              e == l.to
              n == l.next
  <1>1. HasLine(b, 0) /\ ~Empty(l) /\ StatusOf(b, l).ok
        /\ Meaning("response", b) = Block(b, StatusOf(b, l).out, n)
    BY DEF Meaning, FirstOf, Nothing, Leading
  <1>3. IsLine(b, 0, e, n) /\ l.from = 0
    BY <1>1, LineSays
  <1>4. e \in Nat /\ n \in Nat /\ 0 < e /\ e <= Len(b) /\ BreakAt(b, e, n) /\ n \in 0 .. Len(b)
    BY <1>1, <1>3 DEF IsLine, BreakAt, Empty
  <1>5. Meaning("response", b).ok = Fields(b, n)[n].ok
        /\ Meaning("response", b).end = Fields(b, n)[n].end
    BY <1>1, <1>4, BlockSays
  <1>. HIDE DEF n, e, l
  <1>6. l.to = e
    BY DEF e
  <1>7. PICK c \in Nat : CodeShape(b, c, e)
    BY <1>1, <1>3, <1>4, <1>6, StatusSays
  <1>8. Only(b, Byte \ Breaks, 0, e)
    BY <1>7, CodeUnbroken
  <1>9. OwedFrom(b, 0, e, n, Fields(b, n)[n].end)
    <2>1. 0 \in Nat /\ (0 > 0 => BreakAt(b, 0, 0)) /\ Fields(b, n)[n].ok
      BY <1>5
    <2>. QED
      BY <1>4, <1>8, <2>1, FirstLineEnds
  <1>. QED
    BY <1>4, <1>5, <1>7, <1>9 DEF ResponseOwed

(* Every head that is owed, its first line or not, ends in two line breaks *)
(* and no CR stands alone in it.                                           *)
LEMMA HeadEnds ==
  ASSUME NEW b \in Seq(Byte), NEW k \in Kinds, Meaning(k, b).ok,
         k = "headers" => Meaning(k, b).fields # << >>
  PROVE  Closed(b, 0, Meaning(k, b).end) /\ LastBreaks(b, Meaning(k, b).end)
  <1>1. CASE k = "request"
    BY <1>1, RequestIsOwed DEF RequestOwed, OwedFrom
  <1>2. CASE k = "response"
    BY <1>2, ResponseIsOwed DEF ResponseOwed, OwedFrom
  <1>3. CASE k = "headers"
    <2>1. Meaning(k, b) = Block(b, NoLine, 0) /\ 0 \in 0 .. Len(b)
      BY <1>3 DEF Meaning
    <2>2. /\ Fields(b, 0)[0].ok /\ Meaning(k, b).end = Fields(b, 0)[0].end
          /\ Fields(b, 0)[0].fields # << >>
      BY <1>3, <2>1, BlockSays
    <2>3. Fields(b, 0)[0] = Field(b, 0, 0, Fields(b, 0))
      BY <2>1, FieldsUnfold
    <2>4. ~Empty(Line(b, 0))
      BY <2>2, <2>3 DEF Field, Over, Nothing
    <2>. QED
      BY <2>1, <2>2, <2>4, FieldsEnd DEF Ending
  <1>. QED
    BY <1>1, <1>2, <1>3 DEF Kinds

-----------------------------------------------------------------------------
(***************************************************************************)
(* What comes next of a head that is owed: at each part of a call the byte *)
(* at the read offset is there before the end of the head, and is one that *)
(* the part accepts.                                                       *)
(***************************************************************************)
Turns(b, S, T, from, x) ==
  /\ from \in Nat /\ x \in Nat /\ from <= x
  /\ Only(b, S, from, x) /\ b[x + 1] \in T /\ b[x + 1] \notin S

Until(b, S, T, x, p) ==
  /\ p <= x
  /\ b[p + 1] \in S \/ b[p + 1] \in T
  /\ b[p + 1] \notin S => p = x

LEMMA Within ==
  ASSUME NEW b, NEW S, NEW T, NEW from, NEW x, Turns(b, S, T, from, x),
         NEW p \in Nat, from <= p, Only(b, S, from, p)
  PROVE  Until(b, S, T, x, p)
  <1>1. from \in Nat /\ x \in Nat
    BY DEF Turns
  <1>2. p <= x
    BY <1>1, Before DEF Turns
  <1>3. p < x => b[p + 1] \in S
    <2>1. p < x => p + 1 \in from + 1 .. x
      BY <1>1
    <2>. QED
      BY <2>1 DEF Only, Turns
  <1>. QED
    BY <1>1, <1>2, <1>3 DEF Turns, Until

(* What the parts of a request line are, once it is known to be one. *)
LEMMA RequestReads ==
  ASSUME NEW b, NEW a, NEW m, NEW q, NEW r, NEW v, RequestShape(b, a, m, q, r, v),
         NEW p \in Nat
  PROVE  /\ a <= p /\ Only(b, TokenChars, a, p)
              => /\ p <= m /\ b[p + 1] \in TokenChars \cup {SP}
                 /\ b[p + 1] = SP => p = m
         /\ Spaces(b, m, p) => p <= q /\ (b[p + 1] # SP => p = q)
         /\ q <= p /\ Only(b, PathChars, q, p)
              => /\ p <= r /\ b[p + 1] \in PathChars \cup {SP}
                 /\ b[p + 1] = SP => p = r
         /\ Spaces(b, r, p) => p <= v /\ (b[p + 1] # SP => p = v)
  <1>1. /\ a \in Nat /\ m \in Nat /\ q \in Nat /\ r \in Nat /\ v \in Nat
        /\ a < m /\ m < q /\ q < r /\ r < v
    BY DEF RequestShape
  <1>2. SP \notin TokenChars /\ SP \notin PathChars
    BY TokenFacts, PathFacts
  <1>3. /\ Turns(b, TokenChars, {SP}, a, m) /\ Turns(b, {SP}, {b[q + 1]}, m, q)
        /\ Turns(b, PathChars, {SP}, q, r) /\ Turns(b, {SP}, {b[v + 1]}, r, v)
    BY <1>1, <1>2 DEF Turns, RequestShape
  <1>4. a <= p /\ Only(b, TokenChars, a, p) => Until(b, TokenChars, {SP}, m, p)
    BY <1>3, Within
  <1>5. Spaces(b, m, p) => Until(b, {SP}, {b[q + 1]}, q, p)
    <2>1. Spaces(b, m, p) => m <= p /\ Only(b, {SP}, m, p)
      BY <1>1 DEF Spaces
    <2>. QED
      BY <1>3, <2>1, Within
  <1>6. q <= p /\ Only(b, PathChars, q, p) => Until(b, PathChars, {SP}, r, p)
    BY <1>3, Within
  <1>7. Spaces(b, r, p) => Until(b, {SP}, {b[v + 1]}, v, p)
    <2>1. Spaces(b, r, p) => r <= p /\ Only(b, {SP}, r, p)
      BY <1>1 DEF Spaces
    <2>. QED
      BY <1>3, <2>1, Within
  <1>. QED
    BY <1>2, <1>4, <1>5, <1>6, <1>7 DEF Until

(* Two request lines that begin at one offset end at one. *)
LEMMA RequestOnce ==
  ASSUME NEW b, NEW a, NEW m, NEW q, NEW r, NEW v, RequestShape(b, a, m, q, r, v),
         NEW m1, NEW q1, NEW r1, NEW v1, RequestShape(b, a, m1, q1, r1, v1)
  PROVE  v = v1
  <1>1. /\ a \in Nat /\ m1 \in Nat /\ q1 \in Nat /\ r1 \in Nat /\ v1 \in Nat
        /\ a < m1 /\ m1 < q1 /\ q1 < r1 /\ r1 < v1
        /\ Only(b, TokenChars, a, m1) /\ b[m1 + 1] = SP
    BY DEF RequestShape
  <1>2. Spaces(b, m1, q1) /\ b[q1 + 1] # SP /\ Spaces(b, r1, v1) /\ b[v1 + 1] # SP
        /\ Only(b, PathChars, q1, r1) /\ b[r1 + 1] = SP
    BY DEF RequestShape, Spaces
  <1>3. m1 = m
    BY <1>1, RequestReads
  <1>4. q1 = q
    BY <1>1, <1>2, <1>3, RequestReads
  <1>5. r1 = r
    BY <1>1, <1>2, <1>4, RequestReads
  <1>. QED
    BY <1>1, <1>2, <1>5, RequestReads

(* What the stream of a head that is owed is. *)
LEMMA OwedSays ==
  ASSUME HeadReads, Owed
  PROVE  /\ Closed(Stream, 0, Whole.end) /\ LastBreaks(Stream, Whole.end)
         /\ kind = "request" => RequestOwed(Stream, Whole.end)
         /\ kind = "response" => ResponseOwed(Stream, Whole.end)
         /\ Whole = Meaning(kind, Stream) /\ Whole.ok
         /\ Len(Whole.fields) <= exchange.cap
         /\ Stream \in Seq(Byte) /\ kind \in Kinds /\ Whole.end \in Nat
         /\ fed \in Nat /\ fed <= Len(Stream)
  <1>1. /\ exchange.kind \in Kinds /\ Stream \in Seq(Byte) /\ kind = exchange.kind
        /\ fed \in 0 .. Len(Stream)
    BY ExchangeIs DEF Stream, HeadReads, Receiving
  <1>2. Whole = Meaning(kind, Stream)
    BY <1>1 DEF Whole, Stream
  <1>3. Whole.ok /\ Len(Whole.fields) <= exchange.cap
        /\ (kind = "headers" => Whole.fields # << >>)
    BY <1>1 DEF Owed, Valid, EmptyBlock
  <1>4. Closed(Stream, 0, Whole.end) /\ LastBreaks(Stream, Whole.end)
    BY <1>1, <1>2, <1>3, HeadEnds
  <1>5. /\ kind = "request" => RequestOwed(Stream, Whole.end)
        /\ kind = "response" => ResponseOwed(Stream, Whole.end)
    BY <1>1, <1>2, <1>3, RequestIsOwed, ResponseIsOwed
  <1>6. Whole.end \in Nat
    BY <1>4 DEF Closed
  <1>. QED
    BY <1>1, <1>2, <1>3, <1>4, <1>5, <1>6

(* The next byte of the stream belongs to the head and is one of S. *)
Due(S) == pos < Whole.end /\ Stream[pos + 1] \in S

RequestDue ==
  /\ pc = "blank" => pos < Whole.end
  /\ pc = "method" => Due(TokenChars \cup {SP})
  /\ pc = "before_path" => pos < Whole.end
  /\ pc = "path" => Due(PathChars \cup {SP})
  /\ pc = "before_version" => pos < Whole.end /\ ~EmptyToken
  /\ pc = "version" => pos + 9 <= Whole.end /\ VersionAt(Stream, pos)
  /\ pc = "eol" => Due(Breaks)

LEMMA LineLengths ==
  ASSUME NEW a \in Nat, NEW m \in Nat, NEW q \in Nat, NEW r \in Nat, a < m, q < r,
         line = PathLine(a, m, q, r)
  PROVE  ~EmptyToken
  BY DEF EmptyToken, PathLine, MethodLine, NoLine, Null, Span

LEMMA RequestIsDue ==
  ASSUME HeadReads, HInv, Owed, kind = "request"
  PROVE  RequestDue
  <1>. DEFINE b == Stream
              end == Whole.end
  <1>1. /\ RequestOwed(b, end) /\ b \in Seq(Byte) /\ end \in Nat /\ Closed(b, 0, end)
    BY OwedSays
  <1>. HIDE DEF b, end
  <1>2. PICK a, m, q, r, v, n \in Nat :
          /\ Leading("request", b) = a /\ RequestShape(b, a, m, q, r, v)
          /\ OwedFrom(b, a, v + 8, n, end)
    BY <1>1 DEF RequestOwed
  <1>3. /\ a < m /\ m < q /\ q < r /\ r < v
        /\ v + 9 <= n /\ n < end /\ b[v + 9] \in Breaks /\ VersionAt(b, v)
        /\ b[m + 1] = SP /\ b[r + 1] = SP /\ b[v + 1] # SP /\ b[q + 1] # SP
        /\ end \in Nat
    <2>1. BreakAt(b, v + 8, n) /\ n < end
      BY <1>2 DEF OwedFrom, FirstLine
    <2>2. (v + 8) + 1 = v + 9
      OBVIOUS
    <2>. QED
      BY <1>1, <1>2, <2>1, <2>2 DEF RequestShape, BreakAt, Breaks
  <1>4. \A p \in Nat :
          /\ a <= p /\ Only(b, TokenChars, a, p)
               => /\ p <= m /\ b[p + 1] \in TokenChars \cup {SP}
                  /\ b[p + 1] = SP => p = m
          /\ Spaces(b, m, p) => p <= q /\ (b[p + 1] # SP => p = q)
          /\ q <= p /\ Only(b, PathChars, q, p)
               => /\ p <= r /\ b[p + 1] \in PathChars \cup {SP}
                  /\ b[p + 1] = SP => p = r
          /\ Spaces(b, r, p) => p <= v /\ (b[p + 1] # SP => p = v)
    BY <1>2, RequestReads
  <1>5. ASSUME NEW a1, NEW p, AtMethod(b, a1, p)
        PROVE  a1 = a /\ p \in Nat /\ p <= m /\ b[p + 1] \in TokenChars \cup {SP}
               /\ (b[p + 1] = SP => p = m)
    BY <1>2, <1>4, <1>5 DEF AtMethod
  <1>6. ASSUME NEW a1, NEW m1, HasMethod(b, a1, m1)
        PROVE  a1 = a /\ m1 = m
    BY <1>5, <1>6 DEF HasMethod
  <1>7. ASSUME NEW q1, NEW p, AtPath(b, m, q1, p)
        PROVE  q1 = q /\ p \in Nat /\ p <= r /\ b[p + 1] \in PathChars \cup {SP}
               /\ (b[p + 1] = SP => p = r)
    BY <1>4, <1>7 DEF AtPath
  <1>8. ASSUME NEW q1, NEW r1, HasPath(b, m, q1, r1)
        PROVE  q1 = q /\ r1 = r
    BY <1>7, <1>8 DEF HasPath
  <1>9. pos \in Nat /\ HInv
    BY DEF HInv, HeadTypeOK
  <1>10. InFirstLine
    BY DEF HeadReads
  <1>11. pc = "blank" => pos < end
    BY <1>3, <1>10 DEF InFirstLine
  <1>12. pc = "method" => pos < end /\ b[pos + 1] \in TokenChars \cup {SP}
    <2>1. pc = "method" => AtMethod(b, start, pos)
      BY <1>10 DEF InFirstLine, b
    <2>. QED
      BY <1>3, <1>5, <2>1
  <1>13. pc = "before_path" => pos < end
    <2>. SUFFICES ASSUME pc = "before_path" PROVE pos < end
      OBVIOUS
    <2>1. PICK a1, m1 \in Nat : HasMethod(b, a1, m1) /\ Spaces(b, m1, pos)
      BY <1>10 DEF InFirstLine, b
    <2>. QED
      BY <1>3, <1>4, <1>6, <1>9, <2>1
  <1>14. pc = "path" => pos < end /\ b[pos + 1] \in PathChars \cup {SP}
    <2>. SUFFICES ASSUME pc = "path"
                  PROVE  pos < end /\ b[pos + 1] \in PathChars \cup {SP}
      OBVIOUS
    <2>1. PICK a1, m1 \in Nat : HasMethod(b, a1, m1) /\ AtPath(b, m1, start, pos)
      BY <1>10 DEF InFirstLine, InPath, b
    <2>. QED
      BY <1>3, <1>6, <1>7, <1>9, <2>1
  <1>15. pc = "before_version" => pos < end /\ ~EmptyToken
    <2>. SUFFICES ASSUME pc = "before_version" PROVE pos < end /\ ~EmptyToken
      OBVIOUS
    <2>1. PICK a1, m1, q1, r1 \in Nat :
            /\ HasMethod(b, a1, m1) /\ HasPath(b, m1, q1, r1)
            /\ line = PathLine(a1, m1, q1, r1) /\ Spaces(b, r1, pos)
      BY <1>10 DEF InFirstLine, b
    <2>2. a1 = a /\ m1 = m
      BY <1>6, <2>1
    <2>3. q1 = q /\ r1 = r
      BY <1>8, <2>1, <2>2
    <2>4. ~EmptyToken
      BY <1>3, <2>1, <2>2, <2>3, LineLengths
    <2>. QED
      BY <1>3, <1>4, <1>9, <2>1, <2>3, <2>4
  <1>16. pc = "version" => pos + 9 <= end /\ VersionAt(b, pos)
    <2>. SUFFICES ASSUME pc = "version" PROVE pos + 9 <= end /\ VersionAt(b, pos)
      OBVIOUS
    <2>1. PICK a1, m1, q1, r1 \in Nat :
            /\ HasMethod(b, a1, m1) /\ HasPath(b, m1, q1, r1)
            /\ Spaces(b, r1, pos) /\ b[pos + 1] # SP
      BY <1>10 DEF InFirstLine, InVersion, b
    <2>2. a1 = a /\ m1 = m
      BY <1>6, <2>1
    <2>3. q1 = q /\ r1 = r
      BY <1>8, <2>1, <2>2
    <2>4. pos = v
      BY <1>4, <1>9, <2>1, <2>3
    <2>. QED
      BY <1>3, <2>4
  <1>17. pc = "eol" => pos < end /\ b[pos + 1] \in Breaks
    <2>. SUFFICES ASSUME pc = "eol" PROVE pos < end /\ b[pos + 1] \in Breaks
      OBVIOUS
    <2>1. InEol(b, line, pos)
      BY <1>10 DEF InFirstLine, b
    <2>2. pos <= Len(b)
      BY <1>9, Received DEF HInv, CursorsInBuffer, b
    <2>3. PICK i : i = [from |-> a, to |-> pos]
      OBVIOUS
    <2>4. i.from = a /\ i.to = pos
      BY <2>3
    <2>5. RequestOf(b, i) = Parsed(line) /\ a <= pos
      BY <1>2, <1>9, <2>1, <2>4 DEF InEol
    <2>8. RequestOf(b, i).ok
      BY <2>5 DEF Parsed
    <2>6. PICK m1, q1, r1, v1 \in Nat : RequestShape(b, a, m1, q1, r1, v1) /\ pos = v1 + 8
      BY <1>1, <1>2, <1>9, <2>2, <2>4, <2>5, <2>8, RequestSays
    <2>7. v1 = v
      BY <1>2, <2>6, RequestOnce
    <2>. QED
      BY <1>3, <2>6, <2>7
  <1>. QED
    BY <1>11, <1>12, <1>13, <1>14, <1>15, <1>16, <1>17 DEF RequestDue, Due, b, end

ResponseDue ==
  /\ pc = "version" => pos + 9 <= Whole.end /\ VersionAt(Stream, pos)
  /\ pc = "space" => Due({SP})
  /\ pc = "spaces" => pos < Whole.end
  /\ pc = "status" => start + 4 <= Whole.end /\ Due(Digits)
  /\ pc = "reason" =>
       /\ Due(ValueChars \cup Breaks)
       /\ Stream[pos + 1] \in Breaks => start = pos \/ Stream[start + 1] = SP

LEMMA CodeReads ==
  ASSUME NEW b, NEW c, NEW e, CodeShape(b, c, e), b[e + 1] \in Breaks, NEW p \in Nat
  PROVE  /\ Spaces(b, 8, p) => p <= c /\ (b[p + 1] # SP => p = c)
         /\ c <= p /\ p < c + 3 => b[p + 1] \in Digits
         /\ c + 3 <= p /\ Only(b, ValueChars, c + 3, p)
              => /\ p <= e /\ b[p + 1] \in ValueChars \cup Breaks
                 /\ b[p + 1] \in Breaks => p = e
  <1>1. c \in Nat /\ e \in Nat /\ 8 < c /\ c + 3 <= e
    BY DEF CodeShape
  <1>2. SP \notin Digits /\ ValueChars \cap Breaks = {}
    BY DigitFacts, ValueFacts
  <1>3. Turns(b, {SP}, Digits, 8, c)
    BY <1>1, <1>2 DEF Turns, CodeShape
  <1>4. PICK d \in Nat : d = c + 3
    BY <1>1
  <1>5. Turns(b, ValueChars, Breaks, d, e)
    <2>1. Only(b, ValueChars, d, e) /\ d <= e
      BY <1>1, <1>4 DEF CodeShape
    <2>. QED
      BY <1>1, <1>2, <1>4, <2>1 DEF Turns
  <1>6. Spaces(b, 8, p) => Until(b, {SP}, Digits, c, p)
    <2>1. Spaces(b, 8, p) => 8 <= p /\ Only(b, {SP}, 8, p)
      BY DEF Spaces
    <2>. QED
      BY <1>3, <2>1, Within
  <1>7. d <= p /\ Only(b, ValueChars, d, p) => Until(b, ValueChars, Breaks, e, p)
    BY <1>5, Within
  <1>8. c <= p /\ p < c + 3 => b[p + 1] \in Digits
    <2>1. Only(b, Digits, c, c + 3)
      BY DEF CodeShape
    <2>. QED
      BY <1>1, <2>1 DEF Only
  <1>9. Spaces(b, 8, p) => p <= c /\ (b[p + 1] # SP => p = c)
    BY <1>6 DEF Until
  <1>10. d <= p /\ Only(b, ValueChars, d, p)
           => /\ p <= e /\ b[p + 1] \in ValueChars \cup Breaks
              /\ b[p + 1] \in Breaks => p = e
    BY <1>2, <1>7 DEF Until
  <1>. QED
    BY <1>4, <1>8, <1>9, <1>10

LEMMA ResponseIsDue ==
  ASSUME HeadReads, HInv, Owed, kind = "response"
  PROVE  ResponseDue
  <1>. DEFINE b == Stream
              end == Whole.end
  <1>1. /\ ResponseOwed(b, end) /\ b \in Seq(Byte) /\ end \in Nat
    BY OwedSays
  <1>. HIDE DEF b, end
  <1>2. PICK c, e, n \in Nat : CodeShape(b, c, e) /\ OwedFrom(b, 0, e, n, end)
    BY <1>1 DEF ResponseOwed
  <1>3. /\ 8 < c /\ c + 3 <= e /\ e < n /\ n < end /\ b[e + 1] \in Breaks
        /\ VersionAt(b, 0) /\ end \in Nat /\ (c + 3 < e => b[c + 4] = SP)
        /\ b[c + 1] # SP
    <2>1. BreakAt(b, e, n) /\ n < end
      BY <1>2 DEF OwedFrom, FirstLine
    <2>2. b[c + 1] \in Digits
      BY <1>2 DEF CodeShape
    <2>. QED
      BY <1>1, <1>2, <2>1, <2>2, DigitFacts DEF CodeShape, BreakAt, Breaks
  <1>4. \A p \in Nat :
          /\ Spaces(b, 8, p) => p <= c /\ (b[p + 1] # SP => p = c)
          /\ c <= p /\ p < c + 3 => b[p + 1] \in Digits
          /\ c + 3 <= p /\ Only(b, ValueChars, c + 3, p)
               => /\ p <= e /\ b[p + 1] \in ValueChars \cup Breaks
                  /\ b[p + 1] \in Breaks => p = e
    BY <1>2, <1>3, CodeReads
  <1>5. ASSUME NEW c1, NEW p, AtCode(b, c1, p)
        PROVE  c1 = c
    BY <1>4, <1>5 DEF AtCode
  <1>6. pos \in Nat /\ start \in Nat /\ InFirstLine /\ kind = "response"
    BY DEF HInv, HeadTypeOK, HeadReads
  <1>7. pc = "version" => pos + 9 <= end /\ VersionAt(b, pos)
    BY <1>3, <1>6 DEF InFirstLine, b
  <1>8. pc = "space" => pos < end /\ b[pos + 1] \in {SP}
    <2>. SUFFICES ASSUME pc = "space" PROVE pos < end /\ b[pos + 1] \in {SP}
      OBVIOUS
    <2>1. pos = 8
      BY <1>6 DEF InFirstLine
    <2>2. Only(b, {SP}, 8, c) /\ 9 \in 8 + 1 .. c
      BY <1>2, <1>3 DEF CodeShape
    <2>3. b[9] \in {SP}
      BY <2>2 DEF Only
    <2>. QED
      BY <1>3, <2>1, <2>3
  <1>9. pc = "spaces" => pos < end
    <2>1. pc = "spaces" => Spaces(b, 8, pos)
      BY <1>6 DEF InFirstLine, b
    <2>. QED
      BY <1>3, <1>4, <1>6, <2>1
  <1>10. pc = "status" => start + 4 <= end /\ pos < end /\ b[pos + 1] \in Digits
    <2>. SUFFICES ASSUME pc = "status"
                  PROVE  start + 4 <= end /\ pos < end /\ b[pos + 1] \in Digits
      OBVIOUS
    <2>1. AtCode(b, start, pos)
      BY <1>6 DEF InFirstLine, b
    <2>2. start = c /\ start <= pos /\ pos < start + 3
      BY <1>5, <2>1 DEF AtCode, HInv, CursorsInBuffer
    <2>. QED
      BY <1>3, <1>4, <1>6, <2>2
  <1>11. pc = "reason" =>
           /\ pos < end /\ b[pos + 1] \in ValueChars \cup Breaks
           /\ b[pos + 1] \in Breaks => start = pos \/ b[start + 1] = SP
    <2>. SUFFICES ASSUME pc = "reason"
                  PROVE  /\ pos < end /\ b[pos + 1] \in ValueChars \cup Breaks
                         /\ b[pos + 1] \in Breaks => start = pos \/ b[start + 1] = SP
      OBVIOUS
    <2>1. InReason(b, line, start, pos)
      BY <1>6 DEF InFirstLine, b
    <2>2. PICK c1 \in Nat : /\ AtCode(b, c1, c1 + 3) /\ start = c1 + 3 /\ start <= pos
                            /\ Only(b, ValueChars, start, pos)
      BY <2>1 DEF InReason
    <2>3. c1 = c
      BY <1>5, <2>2
    <2>4. c + 3 <= pos /\ Only(b, ValueChars, c + 3, pos) /\ start = c + 3
      BY <2>2, <2>3
    <2>5. /\ pos <= e /\ b[pos + 1] \in ValueChars \cup Breaks
          /\ b[pos + 1] \in Breaks => pos = e
      BY <1>4, <1>6, <2>4
    <2>6. b[pos + 1] \in Breaks /\ start # pos => b[start + 1] = SP
      <3>1. b[pos + 1] \in Breaks /\ start # pos => c + 3 < e
        BY <2>4, <2>5
      <3>2. start + 1 = c + 4
        BY <2>4
      <3>. QED
        BY <1>3, <3>1, <3>2
    <2>. QED
      BY <1>3, <1>6, <2>5, <2>6
  <1>. QED
    BY <1>7, <1>8, <1>9, <1>10, <1>11 DEF ResponseDue, Due, b, end

(* The line from offset p on is there up to e, before the end of the head: *)
(* it is empty or, after n of them, a field for which the array has room.  *)
LineDue(b, n, room, p, e, end) ==
  /\ e \in Nat /\ p <= e /\ e < end /\ b[e + 1] \in Breaks
  /\ p = e \/ (FieldShape(b, n, p, e) /\ n < room)

LEMMA JoinLonger ==
  ASSUME NEW S, NEW T, NEW s \in Seq(S), NEW t \in Seq(T), Len(t) > 0
  PROVE  Len(s \o t) > Len(s) /\ Len(s \o t) \in Nat
  OBVIOUS

LEMMA LineOwed ==
  ASSUME NEW b \in Seq(Byte), NEW k, NEW l, NEW a \in Seq(Slots), NEW n \in Nat,
         n <= Len(a), NEW f, NEW p, Headed(b, k, l, a, n, f, p), Meaning(k, b).ok
  PROVE  \E e \in Nat : LineDue(b, n, Len(Meaning(k, b).fields), p, e, Meaning(k, b).end)
  <1>. DEFINE m == Meaning(k, b)
              r == Fields(b, f)[p]
              h == Line(b, p)
              e == h.to
              x == h.next
  <1>1. /\ f \in Nat /\ p \in Nat /\ f <= p /\ p <= Len(b) /\ (n = 0 <=> p = f)
        /\ Len(b) \in Nat
    BY DEF Headed
  <1>2. r \in Said(Outs(b, f)) /\ HeadIs(m, l, a, n, r)
    BY HeadedSays
  <1>3. r.ok /\ m.end = r.end /\ m.fields = SubSeq(a, 1, n) \o r.fields
        /\ SubSeq(a, 1, n) \in Seq(Slots) /\ Len(SubSeq(a, 1, n)) = n
        /\ r.fields \in Seq(Outs(b, f))
    BY <1>2 DEF HeadIs, Said
  <1>4. f \in 0 .. Len(b) /\ p \in f .. Len(b)
    BY <1>1
  <1>5. r = Field(b, f, p, Fields(b, f))
    BY <1>4, FieldsUnfold
  <1>6. HasLine(b, p)
    BY <1>3, <1>5 DEF Field, Nothing
  <1>7. IsLine(b, p, e, x) /\ h.from = p /\ x \in p + 1 .. Len(b)
    BY <1>1, <1>6, LineSays, LineNext
  <1>8. e \in Nat /\ p <= e /\ e < x /\ b[e + 1] \in Breaks
    BY <1>7 DEF IsLine, BreakAt, Breaks
  <1>9. CASE Empty(h)
    <2>1. r.end = x
      BY <1>5, <1>6, <1>9 DEF Field, Over
    <2>2. p = e
      BY <1>7, <1>9 DEF Empty
    <2>3. LineDue(b, n, Len(m.fields), p, e, m.end)
      BY <1>3, <1>8, <2>1, <2>2 DEF LineDue
    <2>. QED
      BY <1>8, <2>3
  <1>10. CASE ~Empty(h)
    <2>1. FieldOf(b, h, p = f).ok
      BY <1>3, <1>5, <1>6, <1>10 DEF Field, Nothing
    <2>2. FieldShape(b, n, p, e)
      BY <1>1, <1>6, <1>10, <2>1, FieldSays
    <2>3. x \in f .. Len(b) /\ x \in p + 1 .. Len(b)
      BY <1>1, <1>7
    <2>4. Fields(b, f)[x] \in Said(Outs(b, f))
      BY <1>4, <2>3, FieldsTyped
    <2>5. r = Put(Fields(b, f)[x], <<FieldOf(b, h, p = f).out>>)
      BY <1>5, <1>6, <1>10, <2>1 DEF Field, Put
    <2>6. \A g : \A y \in Said(Outs(b, f)) :
            /\ Put(y, <<g>>).ok = y.ok /\ Put(y, <<g>>).end = y.end
            /\ Put(y, <<g>>).fields = <<g>> \o y.fields
      BY DEF Said, Put
    <2>. HIDE DEF r
    <2>7. r.ok = Fields(b, f)[x].ok /\ r.end = Fields(b, f)[x].end
          /\ r.fields = <<FieldOf(b, h, p = f).out>> \o Fields(b, f)[x].fields
      BY <2>4, <2>5, <2>6
    <2>8. x < r.end
      <3>1. Ending(b, x, Fields(b, f)[x].end)
        BY <1>3, <1>4, <2>3, <2>7, FieldsEnd
      <3>. QED
        BY <2>7, <3>1 DEF Ending, Closed
    <2>9. r.end \in Nat /\ Len(r.fields) > 0
      <3>1. Fields(b, f)[x].fields \in Seq(Outs(b, f)) /\ Fields(b, f)[x].end \in Nat
        BY <2>4 DEF Said
      <3>2. \A S, g : \A s \in Seq(S) : Len(<<g>> \o s) > 0
        OBVIOUS
      <3>. QED
        BY <2>7, <3>1, <3>2
    <2>10. Len(m.fields) > n
      <3>1. Len(SubSeq(a, 1, n) \o r.fields) > Len(SubSeq(a, 1, n))
        BY <1>3, <2>9, JoinLonger
      <3>. QED
        BY <1>3, <3>1
    <2>11. LineDue(b, n, Len(m.fields), p, e, m.end)
      <3>. HIDE DEF m, h, e, x
      <3>1. e < m.end
        BY <1>1, <1>3, <1>7, <1>8, <2>8, <2>9
      <3>. QED
        BY <1>8, <2>2, <2>10, <3>1 DEF LineDue
    <2>. QED
      BY <1>8, <2>11
  <1>. QED
    BY <1>9, <1>10

(* Where the name of a field begins. *)
NameBegins ==
  pc = "name" =>
    /\ Stream[start + 1] \notin Breaks
    /\ count > 0 => Stream[start + 1] \notin {SP, HT}

BlockDue ==
  /\ pc = "line" => pos < Whole.end /\ (Stream[pos + 1] \in Breaks \/ ~Full)
  /\ pc = "name" => /\ Due(TokenChars \cup {COLON})
                    /\ Stream[pos + 1] = COLON => pos # start
  /\ pc = "before_value" => pos < Whole.end
  /\ pc = "value" => Due(ValueChars \cup Breaks)

LEMMA FieldsOwed ==
  ASSUME HeadReads, HInv, Owed, pc # "idle", NEW f, NEW p, FieldsSoFar(f, p)
  PROVE  p \in Nat /\ \E e \in Nat : LineDue(Stream, count, cap, p, e, Whole.end)
  <1>1. slots \in Seq(Slots) /\ Len(slots) = cap /\ count \in Nat /\ count <= cap
    BY SlotsAre
  <1>2. Whole.ok /\ Whole = Meaning(kind, Stream) /\ Len(Whole.fields) <= exchange.cap
        /\ Stream \in Seq(Byte)
    BY OwedSays
  <1>3. cap = exchange.cap
    BY DEF HeadReads, Receiving
  <1>4. Headed(Stream, kind, line, slots, count, f, p) /\ p \in Nat
    BY DEF FieldsSoFar, Headed
  <1>5. PICK e \in Nat :
          LineDue(Stream, count, Len(Meaning(kind, Stream).fields), p, e,
                  Meaning(kind, Stream).end)
    BY <1>1, <1>2, <1>4, LineOwed
  <1>6. Len(Whole.fields) \in Nat
    <2>1. HeadIs(Whole, line, slots, count, Fields(Stream, f)[p])
          /\ Fields(Stream, f)[p] \in Said(Outs(Stream, f))
      BY <1>1, <1>2, <1>4, HeadedSays
    <2>. QED
      BY <2>1 DEF HeadIs, Said
  <1>7. cap \in Nat
    BY DEF HInv, HeadTypeOK
  <1>8. LineDue(Stream, count, cap, p, e, Whole.end)
    BY <1>1, <1>2, <1>3, <1>5, <1>6, <1>7 DEF LineDue
  <1>. QED
    BY <1>4, <1>8

LEMMA BlanksBefore ==
  ASSUME NEW b, NEW c \in Nat, NEW e \in Nat, NEW p \in Nat, c < e,
         Only(b, {SP, HT}, c + 1, p), b[e + 1] \notin {SP, HT}
  PROVE  p <= e
  <1>1. ASSUME e < p PROVE FALSE
    <2>1. e + 1 \in (c + 1) + 1 .. p
      BY <1>1
    <2>. QED
      BY <2>1 DEF Only
  <1>. QED
    BY <1>1

LEMMA BlockIsDue ==
  ASSUME HeadReads, HInv, Owed, NameBegins,
         pc \in {"line", "name", "before_value", "value"}
  PROVE  BlockDue
  <1>. DEFINE b == Stream
              end == Whole.end
  <1>1. /\ b \in Seq(Byte) /\ end \in Nat
        /\ pos \in Nat /\ start \in Nat /\ count \in Nat /\ count <= cap /\ cap \in Nat
    BY OwedSays, SlotsAre DEF HInv, HeadTypeOK
  <1>2. ASSUME NEW f, NEW p, FieldsSoFar(f, p)
        PROVE  p \in Nat /\ \E e \in Nat : LineDue(b, count, cap, p, e, end)
    BY <1>2, FieldsOwed
  <1>3. InBlock
    BY DEF HeadReads
  <1>. HIDE DEF b, end
  <1>4. TokenChars \cap Breaks = {} /\ ValueChars \cap Breaks = {}
        /\ COLON \notin TokenChars /\ COLON \notin Breaks
        /\ TokenChars \cap {SP, HT} = {} /\ {SP, HT} \cap Breaks = {}
    BY TokenFacts, ValueFacts
  <1>5. ASSUME pc = "line"
        PROVE  pos < end /\ (b[pos + 1] \in Breaks \/ ~Full)
    <2>1. PICK e \in Nat : LineDue(b, count, cap, pos, e, end)
      BY <1>2, <1>3, <1>5 DEF InBlock
    <2>. QED
      BY <1>1, <2>1 DEF LineDue, Full
  <1>6. ASSUME NEW q \in Nat, NEW e \in Nat, LineDue(b, count, cap, q, e, end),
               NEW c \in Nat, q < c, Only(b, TokenChars, q, c), b[c + 1] = COLON
        PROVE  c < e /\ Only(b, ValueChars, c + 1, e)
    <2>1. b[q + 1] \in TokenChars
      <3>1. q + 1 \in q + 1 .. c
        BY <1>6
      <3>. QED
        BY <1>6, <3>1 DEF Only
    <2>2. q # e /\ FieldShape(b, count, q, e)
      BY <1>4, <1>6, <2>1 DEF LineDue
    <2>3. PICK d \in Nat : /\ q < d /\ d < e /\ Only(b, TokenChars, q, d)
                           /\ b[d + 1] = COLON /\ Only(b, ValueChars, d + 1, e)
      BY <1>4, <2>1, <2>2 DEF FieldShape
    <2>4. Turns(b, TokenChars, {COLON}, q, d)
      BY <1>4, <2>3 DEF Turns
    <2>5. Until(b, TokenChars, {COLON}, d, c)
      BY <1>6, <2>4, Within
    <2>6. c = d
      BY <1>4, <1>6, <2>5 DEF Until
    <2>. QED
      BY <2>3, <2>6
  <1>7. ASSUME pc = "name"
        PROVE  /\ pos < end /\ b[pos + 1] \in TokenChars \cup {COLON}
               /\ b[pos + 1] = COLON => pos # start
    <2>1. PICK e \in Nat : LineDue(b, count, cap, start, e, end)
      BY <1>2, <1>3, <1>7 DEF InBlock
    <2>2. /\ Only(b, TokenChars, start, pos) /\ start <= pos
          /\ b[start + 1] \notin Breaks /\ (count > 0 => b[start + 1] \notin {SP, HT})
      BY <1>3, <1>7 DEF InBlock, NameBegins, HInv, CursorsInBuffer, b
    <2>3. FieldShape(b, count, start, e) /\ e < end
      BY <2>1, <2>2 DEF LineDue
    <2>4. PICK d \in Nat : /\ start < d /\ d < e /\ Only(b, TokenChars, start, d)
                           /\ b[d + 1] = COLON
      BY <2>2, <2>3 DEF FieldShape
    <2>5. Turns(b, TokenChars, {COLON}, start, d)
      BY <1>1, <1>4, <2>4 DEF Turns
    <2>6. Until(b, TokenChars, {COLON}, d, pos)
      BY <1>1, <2>2, <2>5, Within
    <2>. QED
      BY <1>1, <1>4, <2>3, <2>4, <2>6 DEF Until
  <1>8. ASSUME pc = "before_value"
        PROVE  pos < end
    <2>1. PICK f, q, c \in Nat :
            /\ FieldsSoFar(f, q) /\ q < c /\ c < pos
            /\ Only(b, TokenChars, q, c) /\ b[c + 1] = COLON
            /\ Only(b, {SP, HT}, c + 1, pos)
      BY <1>3, <1>8 DEF InBlock, b
    <2>2. PICK e \in Nat : LineDue(b, count, cap, q, e, end)
      BY <1>2, <2>1
    <2>3. c < e
      BY <1>6, <2>1, <2>2
    <2>4. b[e + 1] \notin {SP, HT} /\ e < end
      BY <1>4, <2>2 DEF LineDue
    <2>6. pos <= e
      BY <1>1, <2>1, <2>3, <2>4, BlanksBefore
    <2>. QED
      BY <1>1, <2>4, <2>6
  <1>9. ASSUME pc = "value"
        PROVE  pos < end /\ b[pos + 1] \in ValueChars \cup Breaks
    <2>1. PICK f, q \in Nat : /\ FieldsSoFar(f, q)
                              /\ InField(b, count, q, Current.name, start, pos)
      BY <1>3, <1>9 DEF InBlock, b
    <2>2. PICK e \in Nat : LineDue(b, count, cap, q, e, end)
      BY <1>2, <2>1
    <2>3. e < end /\ b[e + 1] \in Breaks /\ b[e + 1] \notin {SP, HT}
      BY <1>4, <2>2 DEF LineDue
    <2>4. start <= e /\ Only(b, ValueChars, start, e)
      <3>1. CASE count > 0 /\ start = q /\ b[q + 1] \in {SP, HT}
        <4>1. FieldShape(b, count, q, e)
          BY <1>4, <2>2, <3>1 DEF LineDue
        <4>. QED
          BY <3>1, <4>1 DEF FieldShape
      <3>2. CASE \E c \in Nat : /\ q < c /\ Only(b, TokenChars, q, c) /\ b[c + 1] = COLON
                                /\ c + 1 <= start /\ Only(b, {SP, HT}, c + 1, start)
        <4>1. PICK c \in Nat : /\ q < c /\ Only(b, TokenChars, q, c) /\ b[c + 1] = COLON
                               /\ c + 1 <= start /\ Only(b, {SP, HT}, c + 1, start)
          BY <3>2
        <4>2. c < e /\ Only(b, ValueChars, c + 1, e)
          BY <1>6, <2>2, <4>1
        <4>4. start <= e
          BY <1>1, <2>3, <4>1, <4>2, BlanksBefore
        <4>5. Only(b, ValueChars, start, e)
          BY <1>1, <4>1, <4>2 DEF Only
        <4>. QED
          BY <4>4, <4>5
      <3>. QED
        BY <2>1, <3>1, <3>2 DEF InField
    <2>5. Turns(b, ValueChars, Breaks, start, e)
      BY <1>1, <1>4, <2>3, <2>4 DEF Turns
    <2>6. start <= pos /\ Only(b, ValueChars, start, pos)
      BY <2>1 DEF InField
    <2>7. Until(b, ValueChars, Breaks, e, pos)
      BY <1>1, <2>5, <2>6, Within
    <2>. QED
      BY <1>1, <2>3, <2>7 DEF Until
  <1>. QED
    BY <1>5, <1>7, <1>8, <1>9 DEF BlockDue, Due, b, end

-----------------------------------------------------------------------------
(***************************************************************************)
(* What the calls answer to a head that is owed.                           *)
(***************************************************************************)
(* The gate has the end of the head before it. *)
Gated ==
  pc = "gate" /\ Owed =>
    \E x, y \in Nat : /\ TwoBreaks(Stream, x, y, Whole.end)
                      /\ pos <= x \/ (pos = y /\ breaks = 1)

LEMMA TwoBreaksSay ==
  ASSUME NEW b, NEW x, NEW y, NEW end, TwoBreaks(b, x, y, end)
  PROVE  /\ x \in Nat /\ y \in Nat /\ end \in Nat /\ x < y /\ y < end
         /\ y <= x + 2 /\ end <= y + 2 /\ b[x + 1] \in Breaks /\ b[y + 1] \in Breaks
  BY DEF TwoBreaks, BreakAt, Breaks

LEMMA NextIsDue ==
  ASSUME HeadReads, HInv, Owed, Gated, NameBegins,
         pc \in Reading \cup {"version", "status"}
  PROVE  pos < Whole.end /\ pos \in Nat /\ Whole.end \in Nat
  <1>1. InFirstLine /\ pos \in Nat /\ Whole.end \in Nat /\ kind \in Kinds
    BY OwedSays DEF HeadReads, HInv, HeadTypeOK
  <1>2. CASE pc \in {"blank", "method", "before_path", "path", "before_version", "eol"}
    <2>1. kind = "request"
      BY <1>1, <1>2 DEF InFirstLine
    <2>. QED
      BY <1>1, <1>2, <2>1, RequestIsDue DEF RequestDue, Due
  <1>3. CASE pc \in {"space", "spaces", "status", "reason"}
    <2>1. kind = "response"
      BY <1>1, <1>3 DEF InFirstLine
    <2>. QED
      BY <1>1, <1>3, <2>1, ResponseIsDue DEF ResponseDue, Due
  <1>4. CASE pc = "version"
    <2>1. kind \in {"request", "response"}
      BY <1>1, <1>4 DEF InFirstLine, Kinds
    <2>. QED
      BY <1>1, <1>4, <2>1, RequestIsDue, ResponseIsDue DEF RequestDue, ResponseDue
  <1>5. CASE pc \in {"line", "name", "before_value", "value"}
    BY <1>1, <1>5, BlockIsDue DEF BlockDue, Due
  <1>6. CASE pc = "gate"
    <2>1. PICK x, y \in Nat : /\ TwoBreaks(Stream, x, y, Whole.end)
                              /\ pos <= x \/ (pos = y /\ breaks = 1)
      BY <1>6 DEF Gated
    <2>2. x < y /\ y < Whole.end
      BY <2>1, TwoBreaksSay
    <2>. QED
      BY <1>1, <2>1, <2>2
  <1>. QED
    BY <1>2, <1>3, <1>4, <1>5, <1>6 DEF Reading

(* The answer of a call, if this step gives it, is one that is owed. *)
Answered == pc' = "idle" => /\ ret' # MALFORMED
                            /\ ret' = PARTIAL => fed < Whole.end

LEMMA ShortAnswered ==
  ASSUME Fail(PARTIAL), fed < Whole.end
  PROVE  Answered
  BY DEF Fail, Return, Answered, PARTIAL, MALFORMED

LEMMA StarvedAnswered ==
  ASSUME HeadReads, HInv, Owed, Gated, NameBegins, Starved
  PROVE  Answered
  <1>1. pc \in Reading /\ pos >= Len(buf) /\ Fail(PARTIAL) /\ pc # "idle"
    BY DEF Starved, Reading
  <1>2. pos < Whole.end /\ pos \in Nat /\ Whole.end \in Nat
    BY <1>1, NextIsDue
  <1>3. Len(buf) = fed /\ fed \in Nat
    BY <1>1, Received
  <1>4. fed < Whole.end
    BY <1>1, <1>2, <1>3
  <1>. QED
    BY <1>1, <1>4, ShortAnswered

LEMMA BadLineBreakAnswered ==
  ASSUME HeadReads, HInv, Owed, Gated, NameBegins, BadLineBreak
  PROVE  Answered
  <1>1. /\ pc \in Reading /\ pc # "idle" /\ Sees(Breaks) /\ LineBreak < 0
        /\ Fail(LineBreak)
    BY DEF BadLineBreak, Reading
  <1>2. pos < Whole.end /\ pos \in Nat /\ Whole.end \in Nat
    BY <1>1, NextIsDue
  <1>3. /\ Octet(pos) = Stream[pos + 1] /\ Stream[pos + 1] \in Breaks /\ pos < Len(buf)
    BY <1>1, SeesStream
  <1>4. Len(buf) = fed /\ fed \in Nat /\ (\A i \in 1 .. fed : buf[i] = Stream[i])
    BY <1>1, Received
  <1>5. Octet(pos) = CR
    BY <1>1, <1>3 DEF LineBreak, Breaks, LF
  <1>6. pos + 1 < Whole.end /\ Stream[pos + 2] = LF
    <2>1. Closed(Stream, 0, Whole.end)
      BY OwedSays
    <2>2. pos + 1 \in 0 + 1 .. Whole.end
      BY <1>2
    <2>3. pos + 1 < Whole.end /\ Stream[(pos + 1) + 1] = LF
      BY <1>3, <1>5, <2>1, <2>2 DEF Closed
    <2>. QED
      BY <1>2, <2>3
  <1>7. CASE pos + 1 = Len(buf)
    <2>1. LineBreak = PARTIAL
      BY <1>5, <1>7 DEF LineBreak, CR, LF
    <2>2. fed < Whole.end
      BY <1>4, <1>6, <1>7
    <2>. QED
      BY <1>1, <2>1, <2>2, ShortAnswered
  <1>8. CASE pos + 1 # Len(buf)
    <2>1. pos + 2 \in 1 .. fed /\ (pos + 1) + 1 = pos + 2
      BY <1>2, <1>3, <1>4, <1>8
    <2>2. Octet(pos + 1) = LF
      BY <1>4, <1>6, <2>1 DEF Octet
    <2>3. LineBreak = 2
      BY <1>5, <1>8, <2>2 DEF LineBreak, CR, LF
    <2>. QED
      BY <1>1, <2>3
  <1>. QED
    BY <1>7, <1>8

LEMMA VersionAnswered ==
  ASSUME HeadReads, HInv, Owed, Version
  PROVE  Answered
  <1>1. pc = "version" /\ pc # "idle"
    BY DEF Version
  <1>2. kind \in {"request", "response"}
    <2>1. kind \in Kinds
      BY OwedSays
    <2>. QED
      BY <1>1, <2>1 DEF HeadReads, InFirstLine, Kinds
  <1>3. pos + 9 <= Whole.end /\ VersionAt(Stream, pos)
    BY <1>1, <1>2, RequestIsDue, ResponseIsDue DEF RequestDue, ResponseDue
  <1>4. /\ Len(buf) = fed /\ fed \in Nat /\ (\A i \in 1 .. fed : buf[i] = Stream[i])
        /\ fed <= Len(Stream) /\ Stream \in Seq(Byte)
    BY <1>1, Received
  <1>5. pos \in Nat /\ Whole.end \in Nat /\ buf \in Seq(Byte)
    BY OwedSays DEF HInv, HeadTypeOK
  <1>6. CASE Len(buf) - pos < 9 /\ Fail(PARTIAL)
    <2>1. fed < Whole.end
      BY <1>3, <1>4, <1>5, <1>6
    <2>. QED
      BY <1>6, <2>1, ShortAnswered
  <1>7. CASE Len(buf) - pos >= 9
    <2>1. /\ SubSeq(Stream, pos + 1, pos + 7) = HttpOne /\ Stream[pos + 8] \in Digits
      BY <1>3 DEF VersionAt
    <2>2. Octet(pos + 7) = Stream[pos + 8]
      <3>1. pos + 8 \in 1 .. fed /\ (pos + 7) + 1 = pos + 8
        BY <1>4, <1>5, <1>7
      <3>. QED
        BY <1>4, <3>1 DEF Octet
    <2>3. SubSeq(buf, pos + 1, pos + 7) = SubSeq(Stream, pos + 1, pos + 7)
      <3>1. /\ pos + 1 \in 1 .. Len(buf) /\ pos + 7 \in 1 .. Len(buf)
            /\ pos + 7 <= Len(Stream)
        BY <1>4, <1>5, <1>7
      <3>2. \A i \in pos + 1 .. pos + 7 : buf[i] = Stream[i]
        BY <1>4, <1>5, <1>7
      <3>. HIDE DEF Stream
      <3>. QED
        BY <1>4, <1>5, <3>1, <3>2
    <2>4. VersionHere
      BY <2>1, <2>2, <2>3 DEF VersionHere
    <2>. QED
      <3>1. pc' = AfterVersion
        BY <1>4, <1>5, <1>7, <2>4 DEF Version, Goto
      <3>2. AfterVersion # "idle"
        BY DEF AfterVersion
      <3>. QED
        BY <3>1, <3>2 DEF Answered
  <1>. QED
    BY <1>4, <1>5, <1>6, <1>7 DEF Version

LEMMA BlockEndAnswered ==
  ASSUME HeadReads, HInv, BlockEnd
  PROVE  Answered
  <1>1. pc = "line" /\ pc # "idle" /\ Sees(Breaks) /\ LineBreak > 0
        /\ pos' = pos + LineBreak /\ ret' = c_int(pos')
    BY DEF BlockEnd, Return
  <1>2. /\ BreakAt(Stream, pos, pos + LineBreak) /\ LineBreak \in {1, 2}
        /\ pos \in Nat /\ pos + LineBreak <= fed
    BY <1>1, BreakInStream
  <1>3. fed <= Len(exchange.stream) /\ exchange \in Exchanges /\ Stream \in Seq(Byte)
        /\ fed \in Nat
    BY <1>1, Received DEF Stream
  <1>4. 2 * Len(exchange.stream) < CIntMod /\ Len(exchange.stream) \in Nat
    BY <1>3, LengthAssumption DEF Stream
  <1>5. pos' \in Nat /\ pos' <= Len(exchange.stream)
    BY <1>1, <1>2, <1>3, <1>4
  <1>6. ret' = pos'
    BY <1>1, <1>4, <1>5, Fits
  <1>. QED
    BY <1>5, <1>6 DEF Answered, MALFORMED, PARTIAL

(* What the parser refuses is not due. *)
LEMMA BlockAnswered ==
  ASSUME HeadReads, HInv, Owed, Gated, NameBegins,
         TooManyHeaders \/ NameBad \/ NameEnd \/ (ValueBad /\ pc = "value")
  PROVE  Answered
  <1>1. pc \in {"line", "name", "value"} /\ pc # "idle"
    BY DEF TooManyHeaders, NameBad, NameEnd
  <1>2. BlockDue
    BY <1>1, BlockIsDue
  <1>3. \A S : Sees(S) => Octet(pos) = Stream[pos + 1] /\ Stream[pos + 1] \in S
    BY <1>1, SeesStream
  <1>4. ~TooManyHeaders
    BY <1>2, <1>3 DEF TooManyHeaders, BlockDue
  <1>5. ~NameBad
    BY <1>2, <1>3 DEF NameBad, BlockDue, Due
  <1>6. ~(ValueBad /\ pc = "value")
    BY <1>2, <1>3 DEF ValueBad, BlockDue, Due
  <1>7. CASE NameEnd
    <2>1. pc = "name" /\ Sees({COLON})
      BY <1>7 DEF NameEnd
    <2>2. pos # start
      BY <1>2, <1>3, <2>1 DEF BlockDue
    <2>3. pc' = "before_value"
      BY <1>7, <2>2 DEF NameEnd, Goto
    <2>. QED
      BY <2>3 DEF Answered
  <1>. QED
    BY <1>4, <1>5, <1>6, <1>7

LEMMA RequestAnswered ==
  ASSUME HeadReads, HInv, Owed,
         MethodBad \/ PathBad \/ BeforeVersion \/ RequestEol
  PROVE  Answered
  <1>1. pc \in {"method", "path", "before_version", "eol"} /\ pc # "idle"
    BY DEF MethodBad, PathBad, BeforeVersion, RequestEol
  <1>2. RequestDue
    <2>1. kind = "request"
      BY <1>1 DEF HeadReads, InFirstLine
    <2>. QED
      BY <2>1, RequestIsDue
  <1>3. \A S : Sees(S) => Octet(pos) = Stream[pos + 1] /\ Stream[pos + 1] \in S
    BY <1>1, SeesStream
  <1>4. ~MethodBad
    BY <1>2, <1>3 DEF MethodBad, RequestDue, Due
  <1>5. ~PathBad
    BY <1>2, <1>3 DEF PathBad, RequestDue, Due
  <1>6. CASE BeforeVersion
    <2>1. ~EmptyToken
      BY <1>2, <1>6 DEF BeforeVersion, RequestDue
    <2>2. pc' # "idle"
      BY <1>6, <2>1 DEF BeforeVersion, Advance, Goto
    <2>. QED
      BY <2>2 DEF Answered
  <1>7. CASE RequestEol
    <2>1. ~Sees(Byte \ Breaks)
      BY <1>2, <1>3, <1>7 DEF RequestEol, RequestDue, Due
    <2>2. pc' = "line"
      BY <1>7, <2>1 DEF RequestEol, Goto
    <2>. QED
      BY <2>2 DEF Answered
  <1>. QED
    BY <1>4, <1>5, <1>6, <1>7

LEMMA StatusAnswered ==
  ASSUME HeadReads, HInv, Owed,
         \/ SpaceRequired \/ StatusCode \/ ReasonEnd \/ (ValueBad /\ pc = "reason")
  PROVE  Answered
  <1>1. pc \in {"space", "status", "reason"} /\ pc # "idle"
    BY DEF SpaceRequired, StatusCode, StatusShort, ReasonEnd
  <1>2. ResponseDue
    <2>1. kind = "response"
      BY <1>1 DEF HeadReads, InFirstLine
    <2>. QED
      BY <2>1, ResponseIsDue
  <1>3. \A S : Sees(S) => Octet(pos) = Stream[pos + 1] /\ Stream[pos + 1] \in S
    BY <1>1, SeesStream
  <1>4. pos \in Nat /\ start \in Nat /\ Len(buf) = fed /\ fed \in Nat /\ Whole.end \in Nat
        /\ start <= pos /\ (\A i \in 1 .. fed : buf[i] = Stream[i])
    BY <1>1, Received, OwedSays DEF HInv, HeadTypeOK, CursorsInBuffer
  <1>5. CASE SpaceRequired
    <2>1. ~Sees(Byte \ {SP})
      BY <1>2, <1>3, <1>5 DEF SpaceRequired, ResponseDue, Due
    <2>2. pc' = "spaces"
      BY <1>5, <2>1 DEF SpaceRequired, Goto
    <2>. QED
      BY <2>2 DEF Answered
  <1>6. CASE StatusCode
    <2>1. pc = "status"
      BY <1>6 DEF StatusCode, StatusShort
    <2>2. ~Sees(Byte \ Digits)
      BY <1>2, <1>3, <2>1 DEF ResponseDue, Due
    <2>3. CASE StatusShort /\ Fail(PARTIAL)
      <3>1. fed < Whole.end
        BY <1>2, <1>4, <2>1, <2>3 DEF StatusShort, ResponseDue
      <3>. QED
        BY <2>3, <3>1, ShortAnswered
    <2>4. CASE ~(StatusShort /\ Fail(PARTIAL))
      <3>1. pc' \in {"status", "reason_words"}
        BY <1>6, <2>2, <2>4 DEF StatusCode, Goto
      <3>. QED
        BY <3>1 DEF Answered
    <2>. QED
      BY <2>3, <2>4
  <1>7. CASE ReasonEnd
    <2>1. pc = "reason" /\ Sees(Breaks)
      BY <1>7 DEF ReasonEnd
    <2>2. start = pos \/ Stream[start + 1] = SP
      BY <1>2, <1>3, <2>1 DEF ResponseDue
    <2>3. start # pos => Octet(start) = SP
      <3>1. start + 1 \in 1 .. fed
        BY <1>4, <2>1 DEF Sees
      <3>. QED
        BY <1>4, <2>2, <3>1 DEF Octet
    <2>4. pc' \in {"line", "strip"}
      BY <1>7, <2>3 DEF ReasonEnd, Goto
    <2>. QED
      BY <2>4 DEF Answered
  <1>8. ~(ValueBad /\ pc = "reason")
    BY <1>2, <1>3 DEF ValueBad, ResponseDue, Due
  <1>. QED
    BY <1>5, <1>6, <1>7, <1>8

(* The steps that end no call. *)
LEMMA GoesOnAnswered ==
  ASSUME HeadReads, HInv,
         \/ GateByte \/ GateBreak \/ Continuation \/ NewHeader \/ NameByte
         \/ BeforeValue \/ SkipWords \/ ValueByte \/ ValueEnd \/ TrimBlank \/ HeaderDone
         \/ LeadingLine \/ MethodByte \/ MethodEnd \/ BeforePath \/ PathByte \/ PathEnd
         \/ MoreSpaces \/ StripSpaces
  PROVE  Answered
  <1>1. CASE GateByte \/ GateBreak
    <2>1. FirstPart(kind) # "idle"
      BY DEF HInv, HeadTypeOK, FirstPart, Kinds
    <2>. QED
      BY <1>1, <2>1 DEF GateByte, GateBreak, Goto, Answered
  <1>2. CASE Continuation \/ NewHeader \/ NameByte \/ BeforeValue \/ SkipWords \/ ValueByte
             \/ ValueEnd \/ TrimBlank \/ HeaderDone
    BY <1>2 DEF Continuation, NewHeader, NameByte, BeforeValue, SkipWords, InWords, ValueByte,
                ValueEnd, TrimBlank, HeaderDone, Advance, Goto, Answered
  <1>3. CASE LeadingLine \/ MethodByte \/ MethodEnd \/ BeforePath \/ PathByte \/ PathEnd
             \/ MoreSpaces \/ StripSpaces
    BY <1>3 DEF LeadingLine, MethodByte, MethodEnd, BeforePath, PathByte, PathEnd,
                MoreSpaces, StripSpaces, Advance, Goto, Answered
  <1>. QED
    BY <1>1, <1>2, <1>3

LEMMA StepAnswered ==
  ASSUME HeadReads, HInv, Owed, Gated, NameBegins, Step
  PROVE  Answered
  <1>1. CASE Starved \/ BadLineBreak \/ Version \/ BlockEnd
    BY <1>1, StarvedAnswered, BadLineBreakAnswered, VersionAnswered, BlockEndAnswered
  <1>2. CASE TooManyHeaders \/ NameBad \/ NameEnd \/ (ValueBad /\ pc = "value")
    BY <1>2, BlockAnswered
  <1>3. CASE MethodBad \/ PathBad \/ BeforeVersion \/ RequestEol
    BY <1>3, RequestAnswered
  <1>4. CASE \/ SpaceRequired \/ StatusCode \/ ReasonEnd \/ (ValueBad /\ pc = "reason")
    BY <1>4, StatusAnswered
  <1>5. ValueBad => pc \in {"value", "reason"}
    BY DEF ValueBad
  <1>. QED
    BY <1>1, <1>2, <1>3, <1>4, <1>5, GoesOnAnswered DEF Step, CoreStep, RequestStep, StatusStep

LEMMA ExchangeKept ==
  ASSUME exchange' = exchange
  PROVE  Stream' = Stream /\ Whole' = Whole /\ Owed' = Owed
  BY DEF Stream, Whole, Owed, Valid, EmptyBlock

(* A line break leads the gate on to the end of the head. *)
LEMMA GateAt ==
  ASSUME NEW b, NEW x, NEW y, NEW end, TwoBreaks(b, x, y, end),
         NEW p \in Nat, NEW n \in {1, 2}, BreakAt(b, p, p + n), p <= x
  PROVE  p + n <= x \/ p + n = y
  <1>1. /\ x \in Nat /\ y \in Nat /\ b[x] # CR /\ BreakAt(b, x, y)
    BY DEF TwoBreaks
  <1>2. CR # LF
    BY DEF CR, LF
  <1>3. CASE p = x
    BY <1>1, <1>2, <1>3 DEF BreakAt
  <1>4. CASE p < x
    <2>1. n = 2 => b[p + 1] = CR
      BY DEF BreakAt
    <2>2. n = 2 => p + 1 # x
      BY <1>1, <2>1
    <2>. QED
      BY <1>1, <1>4, <2>2
  <1>. QED
    BY <1>1, <1>3, <1>4

LEMMA GateByteGated ==
  ASSUME HeadReads, HInv, Gated, GateByte, exchange' = exchange
  PROVE  Gated'
  <1>1. pc = "gate" /\ pc # "idle" /\ Sees(Byte \ Breaks) /\ pos' = pos + 1
    BY DEF GateByte
  <1>2. pos \in Nat /\ Stream[pos + 1] \notin Breaks
    BY <1>1, SeesStream
  <1>. SUFFICES ASSUME Owed
                PROVE  \E x, y \in Nat : /\ TwoBreaks(Stream, x, y, Whole.end)
                                         /\ pos' <= x \/ (pos' = y /\ breaks' = 1)
    BY ExchangeKept DEF Gated
  <1>3. PICK x, y \in Nat : /\ TwoBreaks(Stream, x, y, Whole.end)
                            /\ pos <= x \/ (pos = y /\ breaks = 1)
    BY <1>1 DEF Gated
  <1>4. Stream[x + 1] \in Breaks /\ Stream[y + 1] \in Breaks
    BY <1>3, TwoBreaksSay
  <1>5. pos # x /\ pos # y
    BY <1>2, <1>4
  <1>6. pos' <= x
    BY <1>1, <1>2, <1>3, <1>5
  <1>. QED
    BY <1>3, <1>6

LEMMA GateBreakGated ==
  ASSUME HeadReads, HInv, Gated, GateBreak, exchange' = exchange
  PROVE  Gated'
  <1>1. pc = "gate" /\ pc # "idle" /\ Sees(Breaks) /\ LineBreak > 0
        /\ breaks' = breaks + 1
    BY DEF GateBreak
  <1>2. /\ BreakAt(Stream, pos, pos + LineBreak) /\ LineBreak \in {1, 2} /\ pos \in Nat
    BY <1>1, BreakInStream
  <1>3. breaks \in 0 .. 2 /\ FirstPart(kind) # "gate"
    BY DEF HInv, HeadTypeOK, FirstPart, Kinds
  <1>4. CASE breaks' < 2
    <2>1. pos' = pos + LineBreak /\ breaks = 0 /\ breaks' = 1
      BY <1>1, <1>3, <1>4 DEF GateBreak
    <2>. SUFFICES ASSUME Owed
                  PROVE  \E x, y \in Nat : /\ TwoBreaks(Stream, x, y, Whole.end)
                                           /\ pos' <= x \/ (pos' = y /\ breaks' = 1)
      BY ExchangeKept DEF Gated
    <2>2. PICK x, y \in Nat : /\ TwoBreaks(Stream, x, y, Whole.end)
                              /\ pos <= x \/ (pos = y /\ breaks = 1)
      BY <1>1 DEF Gated
    <2>3. pos <= x
      BY <2>1, <2>2
    <2>4. PICK n \in {1, 2} : n = LineBreak
      BY <1>2
    <2>5. pos + n <= x \/ pos + n = y
      BY <1>2, <2>2, <2>3, <2>4, GateAt
    <2>6. pos' <= x \/ pos' = y
      BY <2>1, <2>4, <2>5
    <2>. QED
      BY <2>1, <2>2, <2>6
  <1>5. CASE ~(breaks' < 2)
    <2>1. pc' # "gate"
      BY <1>3, <1>5 DEF GateBreak, Goto
    <2>. QED
      BY <2>1 DEF Gated
  <1>. QED
    BY <1>4, <1>5

(* No other step of a call is one of its gate. *)
LEMMA PastGate ==
  ASSUME HInv, Step, ~GateByte, ~GateBreak
  PROVE  pc' # "gate"
  <1>1. CASE \/ Starved \/ BadLineBreak \/ TooManyHeaders \/ NameBad \/ ValueBad
             \/ MethodBad \/ PathBad
    BY <1>1 DEF Starved, BadLineBreak, TooManyHeaders, NameBad, ValueBad, MethodBad, PathBad,
                Fail, Return
  <1>2. CASE Version
    BY <1>2 DEF Version, Fail, Return, Goto, AfterVersion
  <1>3. CASE \/ BlockEnd \/ Continuation \/ NewHeader \/ NameByte \/ NameEnd
    BY <1>3 DEF BlockEnd, Continuation, NewHeader, NameByte, NameEnd, Advance, Return, Goto
  <1>4. CASE \/ BeforeValue \/ SkipWords \/ ValueByte \/ ValueEnd \/ TrimBlank \/ HeaderDone
    BY <1>4 DEF BeforeValue, SkipWords, InWords, ValueByte, ValueEnd, TrimBlank, HeaderDone,
                Advance, Goto
  <1>5. CASE \/ LeadingLine \/ MethodByte \/ MethodEnd \/ BeforePath \/ PathByte \/ PathEnd
             \/ BeforeVersion \/ RequestEol
    BY <1>5 DEF LeadingLine, MethodByte, MethodEnd, BeforePath, PathByte, PathEnd,
                BeforeVersion, RequestEol, Advance, Fail, Return, Goto
  <1>6. CASE StatusStep
    BY <1>6 DEF StatusStep, SpaceRequired, MoreSpaces, StatusCode, StatusShort, ReasonEnd,
                StripSpaces, Advance, Fail, Return, Goto
  <1>. QED
    BY <1>1, <1>2, <1>3, <1>4, <1>5, <1>6 DEF Step, CoreStep, RequestStep

LEMMA NameBeginsKept ==
  ASSUME HeadReads, HInv, NameBegins, Step, exchange' = exchange
  PROVE  NameBegins'
  <1>. SUFFICES ASSUME pc' = "name"
                PROVE  /\ Stream[start' + 1] \notin Breaks
                       /\ count' > 0 => Stream[start' + 1] \notin {SP, HT}
    BY ExchangeKept DEF NameBegins
  <1>1. NewHeader \/ NameByte
    <2>1. ~(\/ Starved \/ BadLineBreak \/ TooManyHeaders \/ NameBad \/ ValueBad
            \/ MethodBad \/ PathBad)
      BY DEF Starved, BadLineBreak, TooManyHeaders, NameBad, ValueBad, MethodBad, PathBad,
             Fail, Return
    <2>2. ~(GateByte \/ GateBreak \/ Version)
      <3>1. FirstPart(kind) # "name"
        BY DEF HInv, HeadTypeOK, FirstPart, Kinds
      <3>. QED
        BY <3>1 DEF GateByte, GateBreak, Version, Fail, Return, Goto, AfterVersion
    <2>3. ~(BlockEnd \/ Continuation \/ NameEnd)
      BY DEF BlockEnd, Continuation, NameEnd, Return, Goto
    <2>4. ~(\/ BeforeValue \/ SkipWords \/ ValueByte \/ ValueEnd \/ TrimBlank \/ HeaderDone)
      BY DEF BeforeValue, SkipWords, InWords, ValueByte, ValueEnd, TrimBlank, HeaderDone,
             Advance, Goto
    <2>5. ~(\/ LeadingLine \/ MethodByte \/ MethodEnd \/ BeforePath \/ PathByte \/ PathEnd
            \/ BeforeVersion \/ RequestEol)
      BY DEF LeadingLine, MethodByte, MethodEnd, BeforePath, PathByte, PathEnd,
             BeforeVersion, RequestEol, Advance, Fail, Return, Goto
    <2>6. ~StatusStep
      BY DEF StatusStep, SpaceRequired, MoreSpaces, StatusCode, StatusShort, ReasonEnd,
             StripSpaces, Advance, Fail, Return, Goto
    <2>. QED
      BY <2>1, <2>2, <2>3, <2>4, <2>5, <2>6 DEF Step, CoreStep, RequestStep
  <1>2. CASE NewHeader
    <2>1. /\ pc # "idle" /\ Sees(Byte \ Breaks) /\ ~Continues /\ start' = pos /\ count' = count
      BY <1>2 DEF NewHeader, outputs
    <2>2. Octet(pos) = Stream[pos + 1] /\ Stream[pos + 1] \notin Breaks
      BY <2>1, SeesStream
    <2>3. count # 0 => Stream[pos + 1] \notin {SP, HT}
      BY <2>1, <2>2 DEF Continues, Sees
    <2>. QED
      BY <2>1, <2>2, <2>3, SlotsAre
  <1>3. CASE NameByte
    BY <1>3 DEF NameByte, Advance, outputs, NameBegins
  <1>. QED
    BY <1>1, <1>2, <1>3

-----------------------------------------------------------------------------
(***************************************************************************)
(* The invariant: no answer but its length is given to a head that is owed.*)
(***************************************************************************)
HeadServes == Gated /\ NameBegins /\ RejectsNoHead /\ HeadNotMissed

LEMMA AnswersOwed ==
  ASSUME HeadReads, Owed => Answered, UNCHANGED <<exchange, fed>>
  PROVE  RejectsNoHead' /\ HeadNotMissed'
  <1>1. Owed' = Owed /\ Whole' = Whole
    BY ExchangeKept
  <1>2. Owed \/ (~Valid \/ EmptyBlock)'
    BY DEF Owed, Valid, EmptyBlock, Whole
  <1>3. Owed => ~(pc' = "idle" /\ ret' = MALFORMED)
                /\ ~(pc' = "idle" /\ ret' = PARTIAL /\ fed >= Whole.end)
    <2>1. Owed => fed \in Nat /\ Whole.end \in Nat
      BY OwedSays
    <2>. QED
      BY <2>1 DEF Answered
  <1>4. fed' = fed
    OBVIOUS
  <1>. QED
    BY <1>1, <1>2, <1>3, <1>4 DEF RejectsNoHead, HeadNotMissed

LEMMA StepServes ==
  ASSUME HeadReads, HInv, HeadServes, Step, UNCHANGED <<exchange, fed>>
  PROVE  HeadServes'
  <1>1. Owed => Answered
    BY StepAnswered DEF HeadServes
  <1>2. RejectsNoHead' /\ HeadNotMissed'
    BY <1>1, AnswersOwed
  <1>3. NameBegins'
    BY NameBeginsKept DEF HeadServes
  <1>4. Gated'
    <2>1. CASE GateByte \/ GateBreak
      BY <2>1, GateByteGated, GateBreakGated DEF HeadServes
    <2>2. CASE ~GateByte /\ ~GateBreak
      <3>1. pc' # "gate"
        BY <2>2, PastGate
      <3>. QED
        BY <3>1 DEF Gated
    <2>. QED
      BY <2>1, <2>2
  <1>. QED
    BY <1>2, <1>3, <1>4 DEF HeadServes

(* The gate goes back far enough: less than the whole head was there.      *)
LEMMA DeliverServes ==
  ASSUME HeadReads, HInv, HeadServes,
         NEW n \in 1 .. Len(exchange.stream) - fed, Deliver(n)
  PROVE  HeadServes'
  <1>1. /\ pc = "idle" /\ ret = PARTIAL /\ exchange' = exchange /\ kind' = exchange.kind
        /\ pos' = IF fed = 0 THEN 0 ELSE GateFrom(fed)
        /\ pc' \in {"gate", FirstPart(exchange.kind)}
    BY DEF Deliver, Enter
  <1>2. exchange.kind \in Kinds /\ fed \in Nat
    BY ExchangeIs
  <1>3. pc' # "idle" /\ pc' # "name"
    BY <1>1, <1>2 DEF FirstPart, Kinds
  <1>4. RejectsNoHead' /\ HeadNotMissed' /\ NameBegins'
    BY <1>3 DEF RejectsNoHead, HeadNotMissed, NameBegins
  <1>5. Gated'
    <2>. SUFFICES ASSUME Owed
                  PROVE  \E x, y \in Nat : /\ TwoBreaks(Stream, x, y, Whole.end)
                                           /\ pos' <= x \/ (pos' = y /\ breaks' = 1)
      BY <1>1, ExchangeKept DEF Gated
    <2>1. fed < Whole.end
      <3>1. Whole.end \in Nat
        BY OwedSays
      <3>2. ~(fed >= Whole.end)
        BY <1>1 DEF HeadServes, HeadNotMissed, Owed
      <3>. QED
        BY <1>2, <3>1, <3>2
    <2>2. PICK x, y \in Nat : TwoBreaks(Stream, x, y, Whole.end)
      BY OwedSays DEF LastBreaks
    <2>3. x \in Nat /\ y \in Nat /\ Whole.end \in Nat /\ y <= x + 2 /\ Whole.end <= y + 2
      BY <2>2, TwoBreaksSay
    <2>4. pos' <= x
      BY <1>1, <1>2, <2>1, <2>3 DEF GateFrom
    <2>. QED
      BY <2>2, <2>4
  <1>. QED
    BY <1>4, <1>5 DEF HeadServes

LEMMA SessionServes ==
  ASSUME HeadReads, HInv, HeadServes, [SessionNext]_headvars
  PROVE  HeadServes'
  <1>1. CASE UNCHANGED headvars
    <2>1. /\ UNCHANGED <<pc, pos, start, breaks, count, ret, exchange, fed>>
      BY <1>1 DEF headvars, vars, cursors, outputs
    <2>2. Owed' = Owed /\ Whole' = Whole /\ Stream' = Stream /\ Valid' = Valid
          /\ EmptyBlock' = EmptyBlock
      BY <2>1 DEF Owed, Whole, Valid, EmptyBlock, Stream
    <2>. QED
      BY <2>1, <2>2 DEF HeadServes, Gated, NameBegins, RejectsNoHead, HeadNotMissed
  <1>. QED
    BY <1>1, StepServes, DeliverServes DEF SessionNext

LEMMA ServesFirst ==
  ASSUME SessionInit, HeadReads
  PROVE  HeadServes
  <1>1. pc = "idle" /\ ret = PARTIAL /\ fed = 0
    BY DEF SessionInit, Init
  <1>2. Owed => 0 < Whole.end /\ Whole.end \in Nat
    BY OwedSays DEF Closed
  <1>. QED
    BY <1>1, <1>2 DEF HeadServes, Gated, NameBegins, RejectsNoHead, HeadNotMissed, Owed,
                      PARTIAL, MALFORMED

LEMMA HeadServesAlways == SessionSpec => []HeadServes
  <1>1. SessionInit => HInv /\ HeadReads /\ HeadServes
    BY SessionBegins, ServesFirst
  <1>2. HInv /\ HeadReads /\ HeadServes /\ [SessionNext]_headvars
          => (HInv /\ HeadReads /\ HeadServes)'
    BY SessionNextKeeps, SessionServes
  <1>. QED
    BY <1>1, <1>2, PTL DEF SessionSpec

(***************************************************************************)
(* "Malformed: input can never become valid no matter how it is extended"  *)
(* (the comment on Error): no call answers malformed to the beginning of a *)
(* head, however the stream is cut.                                        *)
(***************************************************************************)
THEOREM NoHeadRejected == SessionSpec => []RejectsNoHead
  <1>1. HeadServes => RejectsNoHead
    BY DEF HeadServes
  <1>. QED
    BY <1>1, HeadServesAlways, PTL

(***************************************************************************)
(* is_complete (core.rs) looks for the two line breaks from three bytes    *)
(* before the last length on, and never passes by the end of a head: once  *)
(* a whole head has arrived the caller is not asked for more.              *)
(***************************************************************************)
THEOREM NoHeadMissed == SessionSpec => []HeadNotMissed
  <1>1. HeadServes => HeadNotMissed
    BY DEF HeadServes
  <1>. QED
    BY <1>1, HeadServesAlways, PTL
=============================================================================
