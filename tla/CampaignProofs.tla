--------------------------- MODULE CampaignProofs ---------------------------
(***************************************************************************)
(* The differential programs, for files of every length, every list of     *)
(* capacities and every limit: what their exit codes and snapshots tell,   *)
(* which calls a sweep makes, and that the oracle is only called where C   *)
(* defines what it does.                                                   *)
(***************************************************************************)
EXTENDS Campaign, WellFoundedInduction, TLAPS

(* Naturals are well founded: an argument by the least counterexample.     *)
LEMMA Least ==
  ASSUME NEW T, T \subseteq Nat, T # {}
  PROVE  \E x \in T : \A y \in T : x <= y
<1>1. IsWellFoundedOn(OpToRel(<, Nat), Nat)
  BY NatLessThanWellFounded
<1>2. PICK x \in T : \A y \in T : ~ (<<y, x>> \in OpToRel(<, Nat))
  BY <1>1, WFMin
<1>3. \A y \in T : y \in Nat /\ ~(y < x) /\ x \in Nat
  BY <1>2 DEF OpToRel
<1> QED BY <1>3

(* f is what FlattenSeq computes of the first m of the sequences ss.       *)
Flattens(f, ss, m) == f = [i \in 1 .. m |-> IF i = 1 THEN ss[i] ELSE f[i - 1] \o ss[i]]

LEMMA FlattenExists ==
  ASSUME NEW ss, NEW n \in Nat
  PROVE  \E f : Flattens(f, ss, n)
<1> DEFINE Bad == {m \in Nat : ~ \E f : Flattens(f, ss, m)}
<1>1. SUFFICES ASSUME Bad # {} PROVE FALSE
  BY <1>1
<1>2. PICK m \in Bad : \A k \in Bad : m <= k
  BY <1>1, Least
<1>3. CASE m = 0
  <2> DEFINE f == [i \in 1 .. 0 |-> ss[i]]
  <2>1. f = [i \in 1 .. 0 |-> IF i = 1 THEN ss[i] ELSE f[i - 1] \o ss[i]]
    OBVIOUS
  <2> QED BY <1>2, <1>3, <2>1 DEF Flattens
<1>4. CASE m # 0
  <2>1. m - 1 \in Nat /\ m - 1 \notin Bad
    BY <1>2, <1>4
  <2>2. PICK f : Flattens(f, ss, m - 1)
    BY <2>1
  <2> DEFINE g == [i \in 1 .. m |-> IF i < m THEN f[i]
                                    ELSE IF i = 1 THEN ss[i] ELSE f[i - 1] \o ss[i]]
  <2>3. ASSUME NEW i \in 1 .. m
        PROVE  g[i] = IF i = 1 THEN ss[i] ELSE g[i - 1] \o ss[i]
    <3>1. CASE i < m
      <4>1. f[i] = IF i = 1 THEN ss[i] ELSE f[i - 1] \o ss[i]
        <5>1. i \in 1 .. m - 1
          BY <1>2, <3>1
        <5> QED BY <5>1, <2>2 DEF Flattens
      <4>2. i # 1 => i - 1 \in 1 .. m /\ i - 1 < m
        BY <1>2
      <4> QED BY <3>1, <4>1, <4>2
    <3>2. CASE i = m
      <4>1. i # 1 => i - 1 \in 1 .. m /\ i - 1 < m
        BY <1>2
      <4> QED BY <3>2, <4>1
    <3> QED BY <3>1, <3>2, <1>2
  <2>4. g = [i \in 1 .. m |-> IF i = 1 THEN ss[i] ELSE g[i - 1] \o ss[i]]
    BY <2>3
  <2>5. Flattens(g, ss, m)
    BY <2>4 DEF Flattens
  <2> QED BY <2>5, <1>2
<1> QED BY <1>3, <1>4

(* FlattenSeq chooses a function that need not exist: it does. *)
LEMMA FlattenIs ==
  ASSUME NEW ss, Len(ss) \in Nat \ {0}
  PROVE  \E f : Flattens(f, ss, Len(ss)) /\ FlattenSeq(ss) = f[Len(ss)]
<1> DEFINE f == CHOOSE g : Flattens(g, ss, Len(ss))
<1>1. Flattens(f, ss, Len(ss))
  BY FlattenExists
<1>2. FlattenSeq(ss) = f[Len(ss)]
  BY DEF FlattenSeq, Flattens
<1> QED BY <1>1, <1>2

LEMMA ConcatFacts ==
  ASSUME NEW S, NEW a \in Seq(S), NEW b \in Seq(S)
  PROVE  /\ a \o b \in Seq(S) /\ Len(a \o b) = Len(a) + Len(b)
         /\ Len(a) \in Nat /\ Len(b) \in Nat
         /\ DOMAIN a = 1 .. Len(a) /\ DOMAIN b = 1 .. Len(b)
         /\ DOMAIN (a \o b) = 1 .. (Len(a) + Len(b))
         /\ \A l \in 1 .. Len(a) : (a \o b)[l] = a[l]
         /\ \A l \in 1 .. Len(b) : (a \o b)[Len(a) + l] = b[l]
OBVIOUS

LEMMA ConcatRange ==
  ASSUME NEW S, NEW a \in Seq(S), NEW b \in Seq(S)
  PROVE  Range(a \o b) = Range(a) \cup Range(b)
<1>1. ASSUME NEW x \in Range(a \o b) PROVE x \in Range(a) \cup Range(b)
  <2>1. PICK l \in 1 .. (Len(a) + Len(b)) : x = (a \o b)[l]
    BY <1>1, ConcatFacts DEF Range
  <2>2. CASE l <= Len(a)
    BY <2>1, <2>2, ConcatFacts DEF Range
  <2>3. CASE l > Len(a)
    <3>1. l - Len(a) \in 1 .. Len(b) /\ Len(a) + (l - Len(a)) = l
      BY <2>1, <2>3, ConcatFacts
    <3> QED BY <2>1, <3>1, ConcatFacts DEF Range
  <2> QED BY <2>1, <2>2, <2>3, ConcatFacts
<1>2. ASSUME NEW x \in Range(a) PROVE x \in Range(a \o b)
  <2>1. PICK l \in 1 .. Len(a) : x = a[l]
    BY <1>2, ConcatFacts DEF Range
  <2>2. l \in 1 .. (Len(a) + Len(b))
    BY ConcatFacts
  <2> QED BY <2>1, <2>2, ConcatFacts DEF Range
<1>3. ASSUME NEW x \in Range(b) PROVE x \in Range(a \o b)
  <2>1. PICK l \in 1 .. Len(b) : x = b[l]
    BY <1>3, ConcatFacts DEF Range
  <2>2. Len(a) + l \in DOMAIN (a \o b) /\ (a \o b)[Len(a) + l] = x
    BY <2>1, ConcatFacts
  <2> QED BY <2>2 DEF Range
<1> QED BY <1>1, <1>2, <1>3

LEMMA ConcatLast ==
  ASSUME NEW S, NEW a \in Seq(S), NEW b \in Seq(S), b # <<>>
  PROVE  a \o b # <<>> /\ Last(a \o b) = Last(b)
<1>1. Len(b) \in Nat /\ Len(b) # 0
  OBVIOUS
<1>2. Len(b) \in 1 .. Len(b)
  BY <1>1
<1>3. (a \o b)[Len(a) + Len(b)] = b[Len(b)]
  BY <1>2, ConcatFacts
<1> QED BY <1>1, <1>3, ConcatFacts DEF Last

(* Sequences one after another: what is in one of them is in the whole,    *)
(* which ends as the last of them does.                                    *)
LEMMA FlattenFacts ==
  ASSUME NEW S, NEW ss \in Seq(Seq(S)), ss # <<>>
  PROVE  /\ FlattenSeq(ss) \in Seq(S)
         /\ \A j \in DOMAIN ss : Range(ss[j]) \subseteq Range(FlattenSeq(ss))
         /\ Last(ss) # <<>> => FlattenSeq(ss) # <<>> /\ Last(FlattenSeq(ss)) = Last(Last(ss))
<1>1. Len(ss) \in Nat \ {0} /\ DOMAIN ss = 1 .. Len(ss) /\ \A j \in 1 .. Len(ss) : ss[j] \in Seq(S)
  OBVIOUS
<1>2. PICK f : Flattens(f, ss, Len(ss)) /\ FlattenSeq(ss) = f[Len(ss)]
  BY <1>1, FlattenIs
<1> DEFINE Good(i) == /\ f[i] \in Seq(S)
                      /\ \A j \in 1 .. i : Range(ss[j]) \subseteq Range(f[i])
                      /\ ss[i] # <<>> => f[i] # <<>> /\ Last(f[i]) = Last(ss[i])
           Bad == {i \in 1 .. Len(ss) : ~Good(i)}
<1>3. ASSUME NEW i \in 1 .. Len(ss), i # 1 => Good(i - 1)
      PROVE  Good(i)
  <2>1. f[i] = IF i = 1 THEN ss[i] ELSE f[i - 1] \o ss[i]
    BY <1>2 DEF Flattens
  <2>2. ss[i] \in Seq(S)
    BY <1>1
  <2>3. CASE i = 1
    <3>1. f[i] = ss[i] /\ \A j \in 1 .. i : j = i
      BY <2>1, <2>3
    <3> QED BY <2>2, <3>1
  <2>4. CASE i # 1
    <3>1. f[i] = f[i - 1] \o ss[i] /\ f[i - 1] \in Seq(S)
      BY <2>1, <2>4, <1>3
    <3>2. f[i] \in Seq(S) /\ Range(f[i]) = Range(f[i - 1]) \cup Range(ss[i])
      BY <3>1, <2>2, ConcatRange
    <3>3. \A j \in 1 .. i : j = i \/ j \in 1 .. (i - 1)
      OBVIOUS
    <3>4. \A j \in 1 .. i : Range(ss[j]) \subseteq Range(f[i])
      BY <3>2, <3>3, <2>4, <1>3
    <3>5. ss[i] # <<>> => f[i] # <<>> /\ Last(f[i]) = Last(ss[i])
      BY <3>1, <2>2, ConcatLast
    <3> QED BY <3>2, <3>4, <3>5
  <2> QED BY <2>3, <2>4
<1> HIDE DEF Good
<1>4. Bad = {}
  <2>1. SUFFICES ASSUME Bad # {} PROVE FALSE
    OBVIOUS
  <2>2. Bad \subseteq Nat
    BY <1>1
  <2>3. PICK i \in Bad : \A j \in Bad : i <= j
    BY <2>1, <2>2, Least
  <2>4. i # 1 => i - 1 \in 1 .. Len(ss) /\ i - 1 \notin Bad
    BY <2>3, <1>1
  <2>5. Good(i)
    BY <2>3, <2>4, <1>3
  <2> QED BY <2>3, <2>5
<1>5. Good(Len(ss))
  BY <1>1, <1>4
<1> QED BY <1>1, <1>2, <1>5 DEF Good, Last

-----------------------------------------------------------------------------
(* The calls C defines on a buffer of n bytes. *)
HeadHows(n) == {h \in [cap : Nat, prefix : 0 .. n, last_len : 0 .. n] : h.last_len <= h.prefix}
Structs == {s \in [st : 0 .. 3, bytes_left : Nat, hex : 0 .. 16, overhead : Nat, read : Nat] :
              s.overhead <= s.read}
DecodeHows(n) == {h \in [struct : Structs, trailer : {0, 1}, lens : Seq(Nat)] : Total(h.lens) <= n}
CallsOn(name, n) == [entry : {name}, how : IF name = "chunked" THEN DecodeHows(n) ELSE HeadHows(n)]

(* The calls to come are defined, and the last of them ends a stream that  *)
(* covers the buffer.                                                      *)
CallsDefined ==
  /\ todo \in Seq(CallsOn(entry, len))
  /\ phase # "calls" => todo = <<>>
  /\ entry = "chunked" /\ todo # <<>> => Total(Last(todo).how.lens) = len

Limit == IF entry = "chunked" THEN MaxReports ELSE MAX_CASES

(* A fuzzer below its limit makes calls, and leaves off at the limit.      *)
RoomToReport ==
  program = "fuzz" =>
    /\ mismatches <= Limit
    /\ phase = "mutate" \/ todo # <<>> => mismatches < Limit
    /\ entry # "chunked" => Len(todo) <= 1

(* The snapshot on disk is the buffer the calls are made on. *)
SnapshotTaken ==
  program = "fuzz" /\ phase \in {"calls", "crashed"} /\ writable => snapshot = len

(* Every difference was reported; decoders apart are one that was.         *)
Tallied ==
  /\ phase # "crashed" => (differed <=> mismatches > 0)
  /\ IF phase = "done" THEN rc = 2 \/ rc = IF mismatches = 0 THEN 0 ELSE 1 ELSE rc = none
  /\ apart => entry = "chunked" /\ mismatches > 0

(* A difference in a call promised was reported or is still to be met.     *)
StillToFind ==
  program = "difftest" /\ phase = "calls"
    /\ defect.call.entry = entry /\ defect.call.how \in Promised(len)
    => mismatches > 0 \/ defect.call \in Range(todo)

(* In the files swept it was reported. *)
FoundInSwept ==
  program = "difftest" /\ defect.call.entry = entry
    /\ (\E n \in swept : defect.call.how \in Promised(n))
    => mismatches > 0

(* Only a tester has files to come to, and it comes to all of them.        *)
FilesTaken ==
  /\ program = "fuzz" => argv = 0
  /\ phase = "done" /\ rc # 2 => argv = 0

(* The inductive invariant. *)
CInv ==
  /\ CampaignTypeOK
  /\ triage => case \in Nat
  /\ CallsDefined /\ RoomToReport /\ SnapshotTaken /\ Tallied /\ StillToFind
  /\ FoundInSwept /\ FilesTaken

-----------------------------------------------------------------------------
(* Min of FiniteSetsExt on two lengths. *)
LEMMA MinTwo ==
  ASSUME NEW a \in Nat, NEW b \in Nat
  PROVE  Min({a, b}) \in Nat /\ Min({a, b}) <= a /\ Min({a, b}) <= b
<1>1. \E x \in {a, b} : \A y \in {a, b} : x =< y
  OBVIOUS
<1> QED BY <1>1 DEF Min

(* The running sums of lens, and so what Total computes of it and of each  *)
(* beginning of it.                                                        *)
Sums(g, lens, n) ==
  /\ g \in [0 .. Len(lens) -> 0 .. n] /\ g[0] = 0
  /\ \A i \in 1 .. Len(lens) : g[i] = g[i - 1] + lens[i]

LEMMA TotalIs ==
  ASSUME NEW lens \in Seq(Nat), NEW n \in Nat, NEW g, Sums(g, lens, n)
  PROVE  Total(lens) = g[Len(lens)]
<1> DEFINE Recursive(f) ==
             f = [i \in 0 .. Len(lens) |-> IF i = 0 THEN 0 ELSE f[i - 1] + lens[i]]
           f == CHOOSE h : Recursive(h)
           Bad == {i \in 0 .. Len(lens) : f[i] # g[i]}
<1>1. Len(lens) \in Nat
  OBVIOUS
<1>2. Recursive(g)
  <2>1. \A i \in 0 .. Len(lens) : i = 0 \/ i \in 1 .. Len(lens)
    BY <1>1
  <2> QED BY <2>1 DEF Sums
<1>3. Recursive(f)
  BY <1>2
<1>4. Total(lens) = f[Len(lens)]
  BY DEF Total
<1> HIDE DEF f
<1>5. \A i \in 0 .. Len(lens) : f[i] = IF i = 0 THEN 0 ELSE f[i - 1] + lens[i]
  BY <1>3
<1>6. Bad = {}
  <2>1. SUFFICES ASSUME Bad # {} PROVE FALSE
    OBVIOUS
  <2> Bad \subseteq Nat
    BY <1>1
  <2>2. PICK i \in Bad : \A j \in Bad : i <= j
    BY <2>1, Least
  <2>3. i # 0
    BY <1>5, <2>2, <1>1 DEF Sums
  <2>4. i \in 1 .. Len(lens) /\ i - 1 \in 0 .. Len(lens) /\ i - 1 \notin Bad
    BY <2>2, <2>3, <1>1
  <2>5. f[i] = g[i]
    BY <1>5, <2>3, <2>4 DEF Sums
  <2> QED BY <2>2, <2>5
<1> QED BY <1>1, <1>4, <1>6

LEMMA SumsOfBeginning ==
  ASSUME NEW lens \in Seq(Nat), NEW n \in Nat, NEW g, Sums(g, lens, n),
         NEW j \in 1 .. Len(lens)
  PROVE  /\ SubSeq(lens, 1, j) \in Seq(Nat)
         /\ Total(SubSeq(lens, 1, j)) = g[j]
         /\ g[j] \in 0 .. n
<1> DEFINE part == SubSeq(lens, 1, j)
           h == [i \in 0 .. j |-> g[i]]
<1>1. /\ part \in Seq(Nat) /\ Len(part) = j /\ j \in Nat
      /\ \A i \in 1 .. j : part[i] = lens[i]
  OBVIOUS
<1>2. \A i \in 1 .. j : i \in 1 .. Len(lens) /\ i - 1 \in 0 .. j /\ i \in 0 .. j
  BY <1>1
<1>3. h \in [0 .. j -> 0 .. n] /\ h[0] = 0
  <2>1. \A i \in 0 .. j : i \in 0 .. Len(lens)
    BY <1>1
  <2>2. (\A i \in 0 .. j : g[i] \in 0 .. n) /\ g[0] = 0
    BY <2>1 DEF Sums
  <2>3. 0 \in 0 .. j
    BY <1>1
  <2>4. h \in [0 .. j -> 0 .. n]
    BY <2>2
  <2> QED BY <2>2, <2>3, <2>4
<1>4. \A i \in 1 .. j : h[i] = h[i - 1] + part[i]
  BY <1>1, <1>2 DEF Sums
<1>5. Sums(h, part, n)
  BY <1>1, <1>3, <1>4 DEF Sums
<1>6. Total(part) = h[j]
  BY <1>1, <1>5, TotalIs
<1> QED BY <1>1, <1>6, <1>3 DEF Sums

(* A stream whose lengths add up to n is made of calls defined on n bytes. *)
LEMMA StreamFacts ==
  ASSUME NEW struct \in Structs, NEW t \in {0, 1}, NEW lens \in Seq(Nat), lens # <<>>,
         NEW n \in Nat, NEW g, Sums(g, lens, n), g[Len(lens)] = n
  PROVE  /\ Stream(struct, t, lens) \in Seq(CallsOn("chunked", n))
         /\ Stream(struct, t, lens) # <<>>
         /\ Last(Stream(struct, t, lens)).how = [struct |-> struct, trailer |-> t, lens |-> lens]
         /\ Total(lens) = n
<1> DEFINE s == Stream(struct, t, lens)
           S == CallsOn("chunked", n)
<1>1. Len(lens) \in Nat \ {0} /\ DOMAIN lens = 1 .. Len(lens)
  OBVIOUS
<1>2. SubSeq(lens, 1, Len(lens)) = lens
  OBVIOUS
<1>3. ASSUME NEW i \in 1 .. Len(lens)
      PROVE  [entry |-> "chunked", how |-> [struct |-> struct, trailer |-> t,
                                            lens |-> SubSeq(lens, 1, i)]] \in S
  <2>1. /\ SubSeq(lens, 1, i) \in Seq(Nat)
        /\ Total(SubSeq(lens, 1, i)) \in 0 .. n
    BY SumsOfBeginning
  <2>2. ASSUME NEW p \in Seq(Nat), Total(p) \in 0 .. n
        PROVE  [struct |-> struct, trailer |-> t, lens |-> p] \in DecodeHows(n)
    <3> DEFINE h == [struct |-> struct, trailer |-> t, lens |-> p]
    <3>1. h \in [struct : Structs, trailer : {0, 1}, lens : Seq(Nat)] /\ h.lens = p
      OBVIOUS
    <3> QED BY <2>2, <3>1 DEF DecodeHows
  <2>3. [struct |-> struct, trailer |-> t, lens |-> SubSeq(lens, 1, i)] \in DecodeHows(n)
    BY <2>1, <2>2
  <2> QED BY <2>3 DEF CallsOn
<1>4. s = [i \in 1 .. Len(lens) |->
            [entry |-> "chunked", how |-> [struct |-> struct, trailer |-> t,
                                           lens |-> SubSeq(lens, 1, i)]]]
  BY <1>1 DEF Stream
<1>5. s \in Seq(S) /\ Len(s) = Len(lens)
  BY <1>1, <1>3, <1>4
<1>6. Last(s).how = [struct |-> struct, trailer |-> t, lens |-> lens]
  BY <1>1, <1>2, <1>4, <1>5 DEF Last
<1>7. Total(lens) = n
  BY TotalIs
<1> QED BY <1>1, <1>5, <1>6, <1>7

(* Quarters of a length are within it, in order. *)
LEMMA QuarterFacts ==
  ASSUME NEW n \in Nat
  PROVE  /\ \A i \in 0 .. 3 : Quarter(n, i) \in 0 .. n
         /\ \A i \in 0 .. 3, j \in 0 .. 3 : i < j => Quarter(n, i) <= Quarter(n, j)
<1>1. /\ Quarter(n, 0) = 0
      /\ Quarter(n, 1) \in Nat /\ Quarter(n, 1) <= Quarter(n, 2)
      /\ Quarter(n, 2) \in Nat /\ Quarter(n, 2) <= Quarter(n, 3)
      /\ Quarter(n, 3) \in Nat /\ Quarter(n, 3) <= n
  BY DEF Quarter
<1>2. \A i \in 0 .. 3 : i = 0 \/ i = 1 \/ i = 2 \/ i = 3
  OBVIOUS
<1> QED BY <1>1, <1>2

(* The ways the tester divides a file all add up to it. *)
LEMMA OneCall ==
  ASSUME NEW n \in Nat
  PROVE  <<n>> \in Seq(Nat) /\ <<n>> # <<>> /\ \E g : Sums(g, <<n>>, n) /\ g[Len(<<n>>)] = n
<1> DEFINE g == [i \in 0 .. 1 |-> IF i = 0 THEN 0 ELSE n]
<1>1. Sums(g, <<n>>, n) /\ g[1] = n
  BY DEF Sums
<1> QED BY <1>1

LEMMA TwoCallsFacts ==
  ASSUME NEW n \in Nat, NEW k \in 0 .. n
  PROVE  LET lens == TwoCalls(n, k) IN
         lens \in Seq(Nat) /\ lens # <<>> /\ \E g : Sums(g, lens, n) /\ g[Len(lens)] = n
<1> DEFINE lens == TwoCalls(n, k)
           g == [i \in 0 .. 2 |-> IF i = 0 THEN 0 ELSE IF i = 1 THEN k ELSE n]
<1>1. lens \in Seq(Nat) /\ lens # <<>> /\ Len(lens) = 2 /\ lens[1] = k /\ lens[2] = n - k
  BY DEF TwoCalls
<1>2. g \in [0 .. 2 -> 0 .. n] /\ g[0] = 0 /\ g[1] = k /\ g[2] = n
  OBVIOUS
<1>3. \A i \in 1 .. 2 : g[i] = g[i - 1] + lens[i]
  <2>1. \A i \in 1 .. 2 : i = 1 \/ i = 2
    OBVIOUS
  <2> QED BY <1>1, <1>2, <2>1
<1> HIDE DEF g, lens
<1>4. Sums(g, lens, n) /\ g[Len(lens)] = n
  BY <1>1, <1>2, <1>3 DEF Sums
<1> QED BY <1>1, <1>4 DEF lens

LEMMA ThreeCallsFacts ==
  ASSUME NEW n \in Nat, NEW q, q[1] \in 0 .. 3, q[2] \in 0 .. 3, q[1] < q[2]
  PROVE  LET lens == ThreeCalls(n, q) IN
         lens \in Seq(Nat) /\ lens # <<>> /\ \E g : Sums(g, lens, n) /\ g[Len(lens)] = n
<1> DEFINE lens == ThreeCalls(n, q)
           a == Quarter(n, q[1])
           b == Quarter(n, q[2])
           g == [i \in 0 .. 3 |-> IF i = 0 THEN 0 ELSE IF i = 1 THEN a ELSE IF i = 2 THEN b ELSE n]
<1>0. a \in 0 .. n /\ b \in 0 .. n /\ a <= b
  BY QuarterFacts
<1>1. lens = <<a, b - a, n - b>>
  BY DEF ThreeCalls
<1> HIDE DEF a, b, lens
<1>2. /\ lens \in Seq(Nat) /\ lens # <<>> /\ Len(lens) = 3
      /\ lens[1] = a /\ lens[2] = b - a /\ lens[3] = n - b
  BY <1>0, <1>1
<1>3. g \in [0 .. 3 -> 0 .. n] /\ g[0] = 0 /\ g[1] = a /\ g[2] = b /\ g[3] = n
  BY <1>0
<1>4. \A i \in 1 .. 3 : g[i] = g[i - 1] + lens[i]
  <2>1. \A i \in 1 .. 3 : i = 1 \/ i = 2 \/ i = 3
    OBVIOUS
  <2> QED BY <1>0, <1>2, <1>3, <2>1
<1> HIDE DEF g
<1>5. Sums(g, lens, n) /\ g[Len(lens)] = n
  BY <1>2, <1>3, <1>4 DEF Sums
<1> QED BY <1>2, <1>5 DEF lens

(* What the fuzzer's cut points make of the body. *)
LEMMA PartsFacts ==
  ASSUME NEW n \in Nat, len \in Nat, NEW cuts \in Cuts(n), n > 1
  PROVE  LET lens == Parts(cuts) IN
         lens \in Seq(Nat) /\ lens # <<>> /\ \E g : Sums(g, lens, len) /\ g[Len(lens)] = len
<1> DEFINE lens == Parts(cuts)
           g == [i \in 0 .. n |-> IF i = 0 THEN 0 ELSE IF i <= n - 1 THEN cuts[i] ELSE len]
<1>1. /\ cuts \in [1 .. n - 1 -> 0 .. len]
      /\ \A i, j \in 1 .. n - 1 : i < j => cuts[i] <= cuts[j]
  BY DEF Cuts
<1>2. cuts \in Seq(0 .. len) /\ Len(cuts) = n - 1
  BY <1>1
<1>3. g \in [0 .. n -> 0 .. len] /\ g[0] = 0 /\ g[n] = len
  BY <1>1
<1>4. \A i \in 1 .. n : g[i - 1] <= g[i] /\ g[i - 1] \in 0 .. len /\ g[i] \in 0 .. len
  <2> TAKE i \in 1 .. n
  <2>1. CASE i = 1
    BY <2>1, <1>1
  <2>2. CASE i # 1 /\ i <= n - 1
    <3>1. i - 1 \in 1 .. n - 1 /\ i \in 1 .. n - 1 /\ i - 1 < i
      BY <2>2
    <3>2. cuts[i - 1] <= cuts[i] /\ cuts[i - 1] \in 0 .. len /\ cuts[i] \in 0 .. len
      BY <3>1, <1>1
    <3> QED BY <3>1, <3>2
  <2>3. CASE i # 1 /\ i = n
    BY <2>3, <1>1
  <2> QED BY <2>1, <2>2, <2>3
<1>5. lens = [j \in 1 .. n |-> (IF j <= n - 1 THEN cuts[j] ELSE len) - (IF j = 1 THEN 0 ELSE cuts[j - 1])]
  BY <1>2 DEF Parts
<1>6. \A i \in 1 .. n : lens[i] = g[i] - g[i - 1]
  <2> TAKE i \in 1 .. n
  <2>1. i - 1 \in 0 .. n /\ i \in 0 .. n /\ i - 1 <= n - 1
    OBVIOUS
  <2> QED BY <1>5, <2>1
<1> HIDE DEF g
<1>7. \A i \in 1 .. n : lens[i] \in Nat /\ g[i] = g[i - 1] + lens[i]
  BY <1>4, <1>6
<1>8. lens \in [1 .. n -> Nat]
  BY <1>5, <1>7
<1>9. lens \in Seq(Nat) /\ Len(lens) = n
  BY <1>8
<1>10. Sums(g, lens, len) /\ g[Len(lens)] = len
  BY <1>3, <1>7, <1>9 DEF Sums
<1> QED BY <1>9, <1>10

-----------------------------------------------------------------------------
(* Calls that end with the last of a stream that covers the buffer. *)
Whole(s, n) ==
  s \in Seq(CallsOn("chunked", n)) /\ s # <<>> /\ Total(Last(s).how.lens) = n

ChunkedCall(struct, t, lens) ==
  [entry |-> "chunked", how |-> [struct |-> struct, trailer |-> t, lens |-> lens]]

LEMMA LastInRange ==
  ASSUME NEW S, NEW s \in Seq(S), s # <<>>
  PROVE  Last(s) \in Range(s) /\ Last(s) \in S
<1>1. Len(s) \in Nat /\ Len(s) # 0 /\ DOMAIN s = 1 .. Len(s)
  OBVIOUS
<1>2. Len(s) \in DOMAIN s
  BY <1>1
<1> QED BY <1>1, <1>2 DEF Last, Range

(* One of the calls of s. *)
Among(call, s) == call \in Range(s)

LEMMA WholeStream ==
  ASSUME NEW struct \in Structs, NEW t \in {0, 1}, NEW n \in Nat,
         NEW lens \in Seq(Nat), lens # <<>>, \E g : Sums(g, lens, n) /\ g[Len(lens)] = n
  PROVE  /\ Whole(Stream(struct, t, lens), n)
         /\ Among(ChunkedCall(struct, t, lens), Stream(struct, t, lens))
<1>1. PICK g : Sums(g, lens, n) /\ g[Len(lens)] = n
  OBVIOUS
<1> DEFINE s == Stream(struct, t, lens)
<1>2. /\ s \in Seq(CallsOn("chunked", n)) /\ s # <<>> /\ Total(lens) = n
      /\ Last(s).how = [struct |-> struct, trailer |-> t, lens |-> lens]
  BY <1>1, StreamFacts
<1> HIDE DEF s
<1>3. Last(s) \in Range(s) /\ Last(s) \in CallsOn("chunked", n)
  BY <1>2, LastInRange
<1>4. Last(s) = [entry |-> "chunked", how |-> Last(s).how]
  BY <1>3 DEF CallsOn
<1> QED BY <1>2, <1>3, <1>4 DEF Whole, ChunkedCall, Among, s

LEMMA WholeConcat ==
  ASSUME NEW n, NEW a, NEW b, Whole(a, n), Whole(b, n)
  PROVE  /\ Whole(a \o b, n)
         /\ \A call : Among(call, a) \/ Among(call, b) => Among(call, a \o b)
<1> DEFINE S == CallsOn("chunked", n)
<1>1. /\ a \in Seq(S) /\ a # <<>> /\ b \in Seq(S) /\ b # <<>>
      /\ Total(Last(b).how.lens) = n
  BY DEF Whole
<1> HIDE DEF S
<1>2. a \o b \in Seq(S) /\ a \o b # <<>> /\ Last(a \o b) = Last(b)
  BY <1>1, ConcatFacts, ConcatLast
<1>3. Range(a \o b) = Range(a) \cup Range(b)
  BY <1>1, ConcatRange
<1> QED BY <1>1, <1>2, <1>3 DEF Whole, S, Among

LEMMA WholeConcatThree ==
  ASSUME NEW n, NEW a, NEW b, NEW c, Whole(a, n), Whole(b, n), Whole(c, n)
  PROVE  /\ Whole(a \o b \o c, n)
         /\ \A call : Among(call, a) \/ Among(call, b) \/ Among(call, c)
                        => Among(call, a \o b \o c)
<1>1. /\ Whole(a \o b, n)
      /\ \A call : Among(call, a) \/ Among(call, b) => Among(call, a \o b)
  BY WholeConcat
<1>2. /\ Whole((a \o b) \o c, n)
      /\ \A call : Among(call, a \o b) \/ Among(call, c) => Among(call, (a \o b) \o c)
  BY <1>1, WholeConcat
<1> QED BY <1>1, <1>2

LEMMA WholeFlatten ==
  ASSUME NEW n, NEW m \in Nat \ {0}, NEW ss, DOMAIN ss = 1 .. m, ss = [i \in 1 .. m |-> ss[i]],
         \A i \in 1 .. m : Whole(ss[i], n)
  PROVE  /\ Whole(FlattenSeq(ss), n)
         /\ \A i \in 1 .. m : \A call : Among(call, ss[i]) => Among(call, FlattenSeq(ss))
<1> DEFINE S == CallsOn("chunked", n)
<1>1. \A i \in 1 .. m : ss[i] \in Seq(S)
  BY DEF Whole
<1> HIDE DEF S
<1>2. ss \in Seq(Seq(S)) /\ Len(ss) = m /\ ss # <<>>
  BY <1>1
<1>3. Last(ss) = ss[m] /\ m \in 1 .. m
  BY <1>2 DEF Last
<1>4. /\ FlattenSeq(ss) \in Seq(S)
      /\ \A j \in 1 .. m : Range(ss[j]) \subseteq Range(FlattenSeq(ss))
      /\ Last(ss) # <<>> => FlattenSeq(ss) # <<>> /\ Last(FlattenSeq(ss)) = Last(Last(ss))
  BY <1>2, FlattenFacts
<1>5. Whole(ss[m], n)
  BY <1>3
<1>6. FlattenSeq(ss) # <<>> /\ Last(FlattenSeq(ss)) = Last(ss[m])
  BY <1>3, <1>4, <1>5 DEF Whole
<1> QED BY <1>4, <1>5, <1>6 DEF Whole, S, Among

(* The structs the tester begins with, and the pairs of its quarters. *)
LEMMA StructFacts == Zeroed \in Structs /\ \A i \in 1 .. 5 : Dirty[i] \in Structs
<1>1. ASSUME NEW st \in 0 .. 3, NEW l \in Nat, NEW h \in 0 .. 16 PROVE Struct(st, l, h) \in Structs
  <2> DEFINE s == Struct(st, l, h)
  <2>1. s \in [st : 0 .. 3, bytes_left : Nat, hex : 0 .. 16, overhead : Nat, read : Nat]
    BY DEF Struct
  <2>2. s.overhead = 0 /\ s.read = 0
    BY DEF Struct
  <2> QED BY <2>1, <2>2 DEF Structs
<1>2. Zeroed \in Structs
  BY <1>1 DEF Zeroed
<1>3. /\ Dirty[1] = Struct(0, 5, 2) /\ Dirty[2] = Struct(1, 0, 0) /\ Dirty[3] = Struct(2, 0, 0)
      /\ Dirty[4] = Struct(3, 10, 0) /\ Dirty[5] = Struct(0, 0, 7)
  BY DEF Dirty
<1>4. Dirty[1] \in Structs /\ Dirty[2] \in Structs /\ Dirty[3] \in Structs
      /\ Dirty[4] \in Structs /\ Dirty[5] \in Structs
  BY <1>1, <1>3
<1>5. \A i \in 1 .. 5 : i = 1 \/ i = 2 \/ i = 3 \/ i = 4 \/ i = 5
  OBVIOUS
<1> QED BY <1>2, <1>4, <1>5

LEMMA PairFacts ==
  /\ DOMAIN QuarterPairs = 1 .. 6
  /\ \A i \in 1 .. 6 : LET q == QuarterPairs[i] IN
       q[1] \in 0 .. 3 /\ q[2] \in 0 .. 3 /\ q[1] < q[2]
  /\ \A a, b \in 0 .. 3 : a < b => \E i \in 1 .. 6 : QuarterPairs[i] = <<a, b>>
<1>1. /\ QuarterPairs[1] = <<0, 1>> /\ QuarterPairs[2] = <<0, 2>> /\ QuarterPairs[3] = <<0, 3>>
      /\ QuarterPairs[4] = <<1, 2>> /\ QuarterPairs[5] = <<1, 3>> /\ QuarterPairs[6] = <<2, 3>>
  BY DEF QuarterPairs
<1>2. DOMAIN QuarterPairs = 1 .. 6
  BY DEF QuarterPairs
<1>3. \A i \in 1 .. 6 : i = 1 \/ i = 2 \/ i = 3 \/ i = 4 \/ i = 5 \/ i = 6
  OBVIOUS
<1>4. \A i \in 1 .. 6 : LET q == QuarterPairs[i] IN
        q[1] \in 0 .. 3 /\ q[2] \in 0 .. 3 /\ q[1] < q[2]
  BY <1>1, <1>3
<1>5. \A a, b \in 0 .. 3 : a < b =>
        <<a, b>> \in {<<0, 1>>, <<0, 2>>, <<0, 3>>, <<1, 2>>, <<1, 3>>, <<2, 3>>}
  OBVIOUS
<1> QED BY <1>1, <1>2, <1>4, <1>5

(* The cut points are within the file and are those promised. *)
LEMMA CuttingFacts ==
  ASSUME NEW n \in Nat
  PROVE  \E m \in Nat \ {0} :
           /\ Cuttings(n) \in [1 .. m -> 0 .. n]
           /\ \A k \in 0 .. n :
                n <= BigFile \/ (\E i \in 1 .. 3 : k = Quarter(n, i))
                  => \E i \in 1 .. m : Cuttings(n)[i] = k
<1>1. CASE n <= BigFile
  <2>1. Cuttings(n) = [k \in 1 .. n + 1 |-> k - 1]
    BY <1>1 DEF Cuttings
  <2>2. Cuttings(n) \in [1 .. n + 1 -> 0 .. n]
    BY <2>1
  <2>3. \A k \in 0 .. n : k + 1 \in 1 .. n + 1 /\ Cuttings(n)[k + 1] = k
    BY <2>1
  <2>4. n + 1 \in Nat \ {0}
    OBVIOUS
  <2> HIDE DEF Cuttings
  <2> QED BY <2>2, <2>3, <2>4
<1>2. CASE ~(n <= BigFile)
  <2>1. Cuttings(n) = [i \in 1 .. 3 |-> Quarter(n, i)]
    BY <1>2 DEF Cuttings
  <2>2. \A i \in 1 .. 3 : Quarter(n, i) \in 0 .. n
    BY QuarterFacts
  <2>3. Cuttings(n) \in [1 .. 3 -> 0 .. n] /\ \A i \in 1 .. 3 : Cuttings(n)[i] = Quarter(n, i)
    BY <2>1, <2>2
  <2> QED BY <1>2, <2>3
<1> QED BY <1>1, <1>2

(* The calls of one setting of consume_trailer cover the file, and all of  *)
(* them are made that the tester promises.                                 *)
LEMMA MatrixFacts ==
  ASSUME NEW n \in Nat, NEW t \in {0, 1}
  PROVE  LET M == ChunkedMatrix(n, t) IN
         /\ Whole(M, n)
         /\ Among(ChunkedCall(Zeroed, t, <<n>>), M)
         /\ \A k \in 0 .. n :
              n <= BigFile \/ (\E i \in 1 .. 3 : k = Quarter(n, i))
                => Among(ChunkedCall(Zeroed, t, TwoCalls(n, k)), M)
         /\ \A a, b \in 0 .. 3 :
              a < b => Among(ChunkedCall(Zeroed, t, ThreeCalls(n, <<a, b>>)), M)
         /\ n <= BigFile =>
              \A i \in 1 .. 5 : Among(ChunkedCall(Dirty[i], t, <<n>>), M)
<1> DEFINE A == Stream(Zeroed, t, <<n>>)
           Bs == [i \in DOMAIN Cuttings(n) |-> Stream(Zeroed, t, TwoCalls(n, Cuttings(n)[i]))]
           Cs == [i \in DOMAIN QuarterPairs |-> Stream(Zeroed, t, ThreeCalls(n, QuarterPairs[i]))]
           Ds == [i \in DOMAIN Dirty |-> Stream(Dirty[i], t, <<n>>)]
           B == FlattenSeq(Bs)
           C == FlattenSeq(Cs)
           D == FlattenSeq(Ds)
           M == ChunkedMatrix(n, t)
<1>1. Whole(A, n) /\ Among(ChunkedCall(Zeroed, t, <<n>>), A)
  BY StructFacts, OneCall, WholeStream
<1>2. /\ Whole(B, n)
      /\ \A k \in 0 .. n :
           n <= BigFile \/ (\E i \in 1 .. 3 : k = Quarter(n, i))
             => Among(ChunkedCall(Zeroed, t, TwoCalls(n, k)), B)
  <2>1. PICK m \in Nat \ {0} :
           /\ Cuttings(n) \in [1 .. m -> 0 .. n]
           /\ \A k \in 0 .. n :
                n <= BigFile \/ (\E i \in 1 .. 3 : k = Quarter(n, i))
                  => \E i \in 1 .. m : Cuttings(n)[i] = k
    BY CuttingFacts
  <2>2. ASSUME NEW k \in 0 .. n
        PROVE  /\ Whole(Stream(Zeroed, t, TwoCalls(n, k)), n)
               /\ Among(ChunkedCall(Zeroed, t, TwoCalls(n, k)), Stream(Zeroed, t, TwoCalls(n, k)))
    BY StructFacts, TwoCallsFacts, WholeStream
  <2>3. /\ DOMAIN Bs = 1 .. m
        /\ \A i \in 1 .. m : Bs[i] = Stream(Zeroed, t, TwoCalls(n, Cuttings(n)[i]))
        /\ Bs = [i \in 1 .. m |-> Bs[i]]
        /\ \A i \in 1 .. m : Cuttings(n)[i] \in 0 .. n
    BY <2>1
  <2> HIDE DEF Bs
  <2>4. \A i \in 1 .. m : Whole(Bs[i], n)
    BY <2>2, <2>3
  <2>5. Whole(B, n) /\ \A i \in 1 .. m : \A call : Among(call, Bs[i]) => Among(call, B)
    BY <2>3, <2>4, WholeFlatten
  <2> QED BY <2>1, <2>2, <2>3, <2>5
<1>3. /\ Whole(C, n)
      /\ \A a, b \in 0 .. 3 :
           a < b => Among(ChunkedCall(Zeroed, t, ThreeCalls(n, <<a, b>>)), C)
  <2>1. ASSUME NEW q, q[1] \in 0 .. 3, q[2] \in 0 .. 3, q[1] < q[2]
        PROVE  /\ Whole(Stream(Zeroed, t, ThreeCalls(n, q)), n)
               /\ Among(ChunkedCall(Zeroed, t, ThreeCalls(n, q)), Stream(Zeroed, t, ThreeCalls(n, q)))
    BY <2>1, StructFacts, ThreeCallsFacts, WholeStream
  <2>2. /\ DOMAIN Cs = 1 .. 6
        /\ \A i \in 1 .. 6 : Cs[i] = Stream(Zeroed, t, ThreeCalls(n, QuarterPairs[i]))
        /\ Cs = [i \in 1 .. 6 |-> Cs[i]]
    BY PairFacts
  <2> HIDE DEF Cs
  <2>3. \A i \in 1 .. 6 :
          /\ Whole(Cs[i], n)
          /\ Among(ChunkedCall(Zeroed, t, ThreeCalls(n, QuarterPairs[i])), Cs[i])
    BY <2>1, <2>2, PairFacts
  <2>4. Whole(C, n) /\ \A i \in 1 .. 6 : \A call : Among(call, Cs[i]) => Among(call, C)
    <3>1. 6 \in Nat \ {0}
      OBVIOUS
    <3>2. \A i \in 1 .. 6 : Whole(Cs[i], n)
      BY <2>3
    <3> QED BY <2>2, <3>1, <3>2, WholeFlatten
  <2>5. \A a, b \in 0 .. 3 : a < b => \E i \in 1 .. 6 : QuarterPairs[i] = <<a, b>>
    BY PairFacts
  <2> QED BY <2>3, <2>4, <2>5
<1>4. Whole(D, n) /\ \A i \in 1 .. 5 : Among(ChunkedCall(Dirty[i], t, <<n>>), D)
  <2>1. DOMAIN Dirty = 1 .. 5
    BY DEF Dirty
  <2>2. /\ DOMAIN Ds = 1 .. 5
        /\ \A i \in 1 .. 5 : Ds[i] = Stream(Dirty[i], t, <<n>>)
        /\ Ds = [i \in 1 .. 5 |-> Ds[i]]
    BY <2>1
  <2> HIDE DEF Ds
  <2>3. \A i \in 1 .. 5 : Whole(Ds[i], n) /\ Among(ChunkedCall(Dirty[i], t, <<n>>), Ds[i])
    <3>1. ASSUME NEW d \in Structs
          PROVE  /\ Whole(Stream(d, t, <<n>>), n)
                 /\ Among(ChunkedCall(d, t, <<n>>), Stream(d, t, <<n>>))
      BY OneCall, WholeStream
    <3> QED BY <2>2, <3>1, StructFacts
  <2>4. Whole(D, n) /\ \A i \in 1 .. 5 : \A call : Among(call, Ds[i]) => Among(call, D)
    <3>1. 5 \in Nat \ {0}
      OBVIOUS
    <3>2. \A i \in 1 .. 5 : Whole(Ds[i], n)
      BY <2>3
    <3> QED BY <2>2, <3>1, <3>2, WholeFlatten
  <2> QED BY <2>3, <2>4
<1>5. M = A \o B \o C \o (IF n <= BigFile THEN D ELSE <<>>)
  BY DEF ChunkedMatrix
<1> HIDE DEF A, B, C, D, M
<1>6. /\ Whole(A \o B \o C, n)
      /\ \A call : Among(call, A) \/ Among(call, B) \/ Among(call, C) => Among(call, A \o B \o C)
  <2>1. Whole(A, n) /\ Whole(B, n) /\ Whole(C, n)
    BY <1>1, <1>2, <1>3
  <2> QED BY <2>1, WholeConcatThree
<1>7. CASE n <= BigFile
  <2> DEFINE E == A \o B \o C
  <2>1. M = E \o D
    BY <1>5, <1>7
  <2>2. Whole(E, n) /\ Whole(D, n)
    BY <1>4, <1>6
  <2> HIDE DEF E
  <2>3. Whole(E \o D, n) /\ \A call : Among(call, E) \/ Among(call, D) => Among(call, E \o D)
    BY <2>2, WholeConcat
  <2>4. Whole(M, n) /\ \A call : Among(call, A) \/ Among(call, B) \/ Among(call, C)
                                   \/ Among(call, D) => Among(call, M)
    BY <1>6, <2>1, <2>3 DEF E
  <2> QED BY <1>1, <1>2, <1>3, <1>4, <2>4 DEF M
<1>8. CASE ~(n <= BigFile)
  <2>1. M = (A \o B \o C) \o <<>>
    BY <1>5, <1>8
  <2>2. M = A \o B \o C
    BY <1>6, <2>1 DEF Whole
  <2> QED BY <1>1, <1>2, <1>3, <1>6, <1>8, <2>2 DEF M
<1> QED BY <1>7, <1>8

(* Both settings: the sweep of the decoder is what it promises to be. *)
LEMMA ChunkedCallsFacts ==
  ASSUME NEW n \in Nat
  PROVE  /\ Whole(ChunkedCalls(n), n)
         /\ entry = "chunked" =>
              \A how \in Promised(n) : Among([entry |-> "chunked", how |-> how], ChunkedCalls(n))
<1> DEFINE M(t) == ChunkedMatrix(n, t)
           InAll(struct, lens) == \A t \in {0, 1} : Among(ChunkedCall(struct, t, lens), ChunkedCalls(n))
<1>1. /\ Whole(M(0) \o M(1), n)
      /\ \A call : Among(call, M(0)) \/ Among(call, M(1)) => Among(call, M(0) \o M(1))
  <2>1. Whole(M(0), n) /\ Whole(M(1), n)
    BY MatrixFacts
  <2> HIDE DEF M
  <2> QED BY <2>1, WholeConcat
<1>2. ChunkedCalls(n) = M(0) \o M(1)
  BY DEF ChunkedCalls
<1>3. \A t \in {0, 1} : \A call : Among(call, M(t)) => Among(call, ChunkedCalls(n))
  BY <1>1, <1>2
<1>4. /\ InAll(Zeroed, <<n>>)
      /\ \A k \in 0 .. n :
           n <= BigFile \/ (\E i \in 1 .. 3 : k = Quarter(n, i)) => InAll(Zeroed, TwoCalls(n, k))
      /\ \A a, b \in 0 .. 3 : a < b => InAll(Zeroed, ThreeCalls(n, <<a, b>>))
      /\ n <= BigFile => \A i \in 1 .. 5 : InAll(Dirty[i], <<n>>)
  <2>1. ASSUME NEW t \in {0, 1}
        PROVE  /\ Among(ChunkedCall(Zeroed, t, <<n>>), M(t))
               /\ \A k \in 0 .. n :
                    n <= BigFile \/ (\E i \in 1 .. 3 : k = Quarter(n, i))
                      => Among(ChunkedCall(Zeroed, t, TwoCalls(n, k)), M(t))
               /\ \A a, b \in 0 .. 3 :
                    a < b => Among(ChunkedCall(Zeroed, t, ThreeCalls(n, <<a, b>>)), M(t))
               /\ n <= BigFile =>
                    \A i \in 1 .. 5 : Among(ChunkedCall(Dirty[i], t, <<n>>), M(t))
    BY MatrixFacts
  <2> HIDE DEF M
  <2> QED BY <1>3, <2>1
<1>5. ASSUME entry = "chunked", NEW how \in Promised(n)
      PROVE  Among([entry |-> "chunked", how |-> how], ChunkedCalls(n))
  <2> HIDE DEF M, InAll
  <2>1. \E struct, lens : \E t \in {0, 1} :
          /\ how = [struct |-> struct, trailer |-> t, lens |-> lens]
          /\ InAll(struct, lens)
    <3> DEFINE Cut == IF n <= BigFile THEN 0 .. n ELSE {(n * i) \div 4 : i \in 1 .. 3}
               Three == {<<(n * q[1]) \div 4, (n * q[2]) \div 4 - (n * q[1]) \div 4,
                           n - (n * q[2]) \div 4>> : q \in {p \in (0 .. 3) \X (0 .. 3) : p[1] < p[2]}}
    <3>1. \/ \E lens \in Division(n) : how \in DecodesFrom(Holding(0, 0, 0), lens)
          \/ ~(n > BigFile) /\ \E d \in Soiled : how \in DecodesFrom(d, <<n>>)
      BY <1>5 DEF Promised, PromisedDecodes
    <3>2. Zeroed = Holding(0, 0, 0)
      BY DEF Zeroed, Struct, Holding
    <3>3. \A d \in Soiled : \E i \in 1 .. 5 : d = Dirty[i]
      BY DEF Dirty, Struct, Soiled, Holding
    <3>4. \A lens \in Division(n) : InAll(Zeroed, lens)
      <4>1. \A k \in Cut : InAll(Zeroed, <<k, n - k>>)
        <5> TAKE k \in Cut
        <5>1. k \in 0 .. n /\ (n <= BigFile \/ (\E i \in 1 .. 3 : k = Quarter(n, i)))
          <6>1. CASE n <= BigFile
            BY <6>1
          <6>2. CASE ~(n <= BigFile)
            <7>1. PICK i \in 1 .. 3 : k = Quarter(n, i)
              BY <6>2 DEF Quarter
            <7> QED BY <7>1, QuarterFacts
          <6> QED BY <6>1, <6>2
        <5> QED BY <5>1, <1>4 DEF TwoCalls
      <4>2. \A lens \in Three : InAll(Zeroed, lens)
        <5> TAKE lens \in Three
        <5>1. PICK q \in (0 .. 3) \X (0 .. 3) : q[1] < q[2] /\ lens = ThreeCalls(n, q)
          BY DEF ThreeCalls, Quarter
        <5>2. q = <<q[1], q[2]>> /\ q[1] \in 0 .. 3 /\ q[2] \in 0 .. 3
          OBVIOUS
        <5> QED BY <5>1, <5>2, <1>4
      <4> QED BY <4>1, <4>2, <1>4 DEF Division
    <3> HIDE DEF Cut, Three
    <3>5. CASE \E lens \in Division(n) : how \in DecodesFrom(Holding(0, 0, 0), lens)
      BY <3>5, <3>2, <3>4 DEF DecodesFrom
    <3>6. CASE ~(n > BigFile) /\ \E d \in Soiled : how \in DecodesFrom(d, <<n>>)
      <4>1. PICK d \in Soiled : how \in DecodesFrom(d, <<n>>)
        BY <3>6
      <4>2. n <= BigFile
        BY <3>6, SweepAssumption
      <4>3. InAll(d, <<n>>)
        BY <1>4, <3>3, <4>2
      <4> QED BY <4>1, <4>3 DEF DecodesFrom
    <3> QED BY <3>1, <3>5, <3>6
  <2> QED BY <2>1 DEF ChunkedCall, InAll
<1> QED BY <1>1, <1>2, <1>5

(* So is the sweep of a head parser: every capacity, every prefix.         *)
LEMMA HeadCallsFacts ==
  ASSUME NEW name \in HeadEntries, NEW n \in Nat
  PROVE  /\ HeadCalls(name, n) \in Seq(CallsOn(name, n))
         /\ entry = name =>
              \A how \in Promised(n) : Among([entry |-> name, how |-> how], HeadCalls(name, n))
<1> DEFINE S == CallsOn(name, n)
           Of(cap) == <<Call(name, cap, n, 0)>> \o Chained(name, cap, n) \o Cold(name, cap, n)
           ss == [c \in DOMAIN Caps |-> Of(Caps[c])]
<1>1. ASSUME NEW cap \in Nat, NEW k \in 0 .. n, NEW hint \in 0 .. k
      PROVE  Call(name, cap, k, hint) \in S
  <2> DEFINE h == [cap |-> cap, prefix |-> k, last_len |-> hint]
  <2>1. h \in [cap : Nat, prefix : 0 .. n, last_len : 0 .. n] /\ h.prefix = k /\ h.last_len = hint
    OBVIOUS
  <2>2. h \in HeadHows(n)
    BY <2>1 DEF HeadHows
  <2>3. name # "chunked"
    BY DEF HeadEntries
  <2> QED BY <2>2, <2>3 DEF Call, CallsOn
<1> HIDE DEF S
<1>2. ASSUME NEW cap \in Nat
      PROVE  /\ Of(cap) \in Seq(S)
             /\ Among(Call(name, cap, n, 0), Of(cap))
             /\ \A k \in 0 .. n : Among(Call(name, cap, k, IF k = 0 THEN 0 ELSE k - 1), Of(cap))
             /\ \A k \in 0 .. n : Among(Call(name, cap, k, 0), Of(cap))
  <2> DEFINE A == <<Call(name, cap, n, 0)>>
             B == Chained(name, cap, n)
             C == Cold(name, cap, n)
  <2>1. A \in Seq(S) /\ Range(A) = {Call(name, cap, n, 0)}
    <3>1. Call(name, cap, n, 0) \in S
      BY <1>1
    <3> QED BY <3>1 DEF Range
  <2>2. B \in Seq(S) /\ \A k \in 0 .. n : Call(name, cap, k, IF k = 0 THEN 0 ELSE k - 1) \in Range(B)
    <3>1. B = [i \in 1 .. n + 1 |-> Call(name, cap, i - 1, IF i = 1 THEN 0 ELSE i - 2)]
      BY DEF Chained
    <3>2. \A i \in 1 .. n + 1 : B[i] \in S
      <4> TAKE i \in 1 .. n + 1
      <4>1. i - 1 \in 0 .. n /\ (IF i = 1 THEN 0 ELSE i - 2) \in 0 .. i - 1
        OBVIOUS
      <4> QED BY <3>1, <4>1, <1>1
    <3>3. ASSUME NEW k \in 0 .. n
          PROVE  Call(name, cap, k, IF k = 0 THEN 0 ELSE k - 1) \in Range(B)
      <4>1. k + 1 \in 1 .. n + 1 /\ (k + 1) - 1 = k /\ (k + 1) - 2 = k - 1 /\ (k + 1 = 1 <=> k = 0)
        OBVIOUS
      <4>2. B[k + 1] = Call(name, cap, k, IF k = 0 THEN 0 ELSE k - 1)
        BY <3>1, <4>1
      <4>3. k + 1 \in DOMAIN B
        BY <3>1, <4>1
      <4> HIDE DEF B
      <4> QED BY <4>2, <4>3 DEF Range
    <3>4. n + 1 \in Nat
      OBVIOUS
    <3>5. B \in Seq(S)
      BY <3>1, <3>2, <3>4
    <3> QED BY <3>3, <3>5
  <2>3. C \in Seq(S) /\ \A k \in 0 .. n : k < n => Call(name, cap, k, 0) \in Range(C)
    <3>1. C = [i \in 1 .. n |-> Call(name, cap, i - 1, 0)]
      BY DEF Cold
    <3>2. \A i \in 1 .. n : C[i] \in S
      <4> TAKE i \in 1 .. n
      <4>1. i - 1 \in 0 .. n /\ 0 \in 0 .. i - 1
        OBVIOUS
      <4> QED BY <3>1, <4>1, <1>1
    <3>3. ASSUME NEW k \in 0 .. n, k < n
          PROVE  Call(name, cap, k, 0) \in Range(C)
      <4>1. k + 1 \in 1 .. n /\ (k + 1) - 1 = k
        BY <3>3
      <4>2. C[k + 1] = Call(name, cap, k, 0) /\ k + 1 \in DOMAIN C
        BY <3>1, <4>1
      <4> HIDE DEF C
      <4> QED BY <4>2 DEF Range
    <3>5. C \in Seq(S)
      BY <3>1, <3>2
    <3> QED BY <3>3, <3>5
  <2> HIDE DEF A, B, C
  <2>4. A \o B \in Seq(S) /\ Range(A \o B) = Range(A) \cup Range(B)
    BY <2>1, <2>2, ConcatRange, ConcatFacts
  <2>5. (A \o B) \o C \in Seq(S) /\ Range((A \o B) \o C) = Range(A \o B) \cup Range(C)
    <3> DEFINE E == A \o B
    <3>1. E \in Seq(S) /\ C \in Seq(S)
      BY <2>3, <2>4
    <3> HIDE DEF E
    <3>2. E \o C \in Seq(S) /\ Range(E \o C) = Range(E) \cup Range(C)
      BY <3>1, ConcatRange, ConcatFacts
    <3> QED BY <3>2 DEF E
  <2>6. Of(cap) = (A \o B) \o C
    BY DEF A, B, C
  <2> HIDE DEF Of
  <2>7. \A k \in 0 .. n : k < n \/ k = n
    OBVIOUS
  <2> QED BY <2>1, <2>2, <2>3, <2>4, <2>5, <2>6, <2>7 DEF Among
<1> HIDE DEF Of
<1>3. DOMAIN Caps = 1 .. Len(Caps) /\ Len(Caps) \in Nat /\ \A c \in DOMAIN Caps : Caps[c] \in Nat
  BY DriversAssumption
<1>4. ss \in Seq(Seq(S)) /\ Len(ss) = Len(Caps)
  BY <1>2, <1>3
<1>5. HeadCalls(name, n) = FlattenSeq(ss)
  BY DEF HeadCalls, Of
<1>6. CASE Len(Caps) = 0
  <2>1. DOMAIN Caps = {}
    BY <1>3, <1>6
  <2>2. ss = <<>>
    BY <1>4, <1>6
  <2>3. HeadCalls(name, n) = <<>>
    BY <1>5, <2>2 DEF FlattenSeq
  <2>4. entry = name => Promised(n) = {}
    <3> SUFFICES ASSUME entry = name PROVE Promised(n) = {}
      OBVIOUS
    <3>1. entry # "chunked" /\ Range(Caps) = {}
      BY <2>1 DEF HeadEntries, Range
    <3> QED BY <3>1 DEF Promised, PromisedParses
  <2> QED BY <2>3, <2>4
<1>7. CASE Len(Caps) # 0
  <2>1. ss # <<>> /\ DOMAIN ss = DOMAIN Caps /\ \A c \in DOMAIN Caps : ss[c] = Of(Caps[c])
    BY <1>3, <1>4, <1>7
  <2>2. /\ FlattenSeq(ss) \in Seq(S)
        /\ \A c \in DOMAIN Caps : Range(ss[c]) \subseteq Range(FlattenSeq(ss))
    BY <1>4, <2>1, FlattenFacts
  <2>3. \A c \in DOMAIN Caps : \A call : Among(call, Of(Caps[c])) => Among(call, HeadCalls(name, n))
    BY <1>5, <2>1, <2>2 DEF Among
  <2>4. ASSUME entry = name, NEW how \in Promised(n)
        PROVE  Among([entry |-> name, how |-> how], HeadCalls(name, n))
    <3>1. entry # "chunked"
      BY <2>4 DEF HeadEntries
    <3>2. PICK cap \in Range(Caps) :
             \/ how = [cap |-> cap, prefix |-> n, last_len |-> 0]
             \/ \E k \in 0 .. n : how = [cap |-> cap, prefix |-> k, last_len |-> 0]
             \/ \E k \in 1 .. n : how = [cap |-> cap, prefix |-> k, last_len |-> k - 1]
      BY <2>4, <3>1 DEF Promised, PromisedParses
    <3>3. PICK c \in DOMAIN Caps : cap = Caps[c]
      BY <3>2 DEF Range
    <3>4. cap \in Nat
      BY <1>3, <3>3
    <3>5. \/ [entry |-> name, how |-> how] = Call(name, cap, n, 0)
          \/ \E k \in 0 .. n : [entry |-> name, how |-> how] = Call(name, cap, k, 0)
          \/ \E k \in 0 .. n : [entry |-> name, how |-> how]
                                 = Call(name, cap, k, IF k = 0 THEN 0 ELSE k - 1)
      BY <3>2 DEF Call
    <3>6. Among([entry |-> name, how |-> how], Of(cap))
      BY <1>2, <3>4, <3>5
    <3> QED BY <2>3, <3>3, <3>6
  <2> QED BY <1>5, <2>2, <2>4 DEF S
<1> QED BY <1>6, <1>7

-----------------------------------------------------------------------------
(* A file opened is swept with calls that keep within it, and that have    *)
(* all those promised among them.                                          *)
LEMMA OpensKeeps ==
  ASSUME CInv, NEW name \in Entries, NEW n \in Given, NEW calls, Opens(name, n, calls),
         calls \in Seq(CallsOn(name, n)),
         name = "chunked" => Whole(calls, n),
         entry = name =>
           \A how \in Promised(n) : Among([entry |-> name, how |-> how], calls)
  PROVE  CInv'
<1> USE DEF Opens, fuzzing, tally
<1>1. n \in Nat
  BY DriversAssumption DEF Given, CInv
<1>2. CampaignTypeOK' /\ (triage => case \in Nat)'
  <2>1. argv' \in Nat
    BY DEF CInv, CampaignTypeOK
  <2> QED BY <1>1, <2>1 DEF CInv, CampaignTypeOK
<1>3. CallsDefined'
  <2>1. entry' = name /\ len' = n /\ todo' = calls /\ phase' = "calls"
    OBVIOUS
  <2>2. name = "chunked" => Total(Last(calls).how.lens) = n
    BY DEF Whole
  <2> QED BY <2>1, <2>2 DEF CallsDefined
<1>4. RoomToReport' /\ SnapshotTaken'
  BY DEF RoomToReport, SnapshotTaken
<1>5. Tallied'
  BY DEF CInv, Tallied
<1>6. StillToFind'
  <2> SUFFICES ASSUME (defect.call.entry)' = entry', (defect.call.how \in Promised(len))'
               PROVE  (defect.call \in Range(todo))'
    BY DEF StillToFind
  <2>1. /\ defect' = defect /\ entry' = entry /\ entry = name /\ len' = n /\ todo' = calls
    OBVIOUS
  <2>2. defect.call.entry = name /\ defect.call.how \in Promised(n)
    BY <2>1 DEF Promised
  <2>3. defect.call = [entry |-> name, how |-> defect.call.how]
    BY <2>2, DriversAssumption DEF CInv, CampaignTypeOK
  <2> QED BY <2>1, <2>2, <2>3 DEF Among
<1>7. FoundInSwept' /\ FilesTaken'
  BY DEF CInv, FoundInSwept, FilesTaken, Promised
<1> QED BY <1>2, <1>3, <1>4, <1>5, <1>6, <1>7 DEF CInv

LEMMA HeadSweepKeeps ==
  ASSUME CInv, NEW name \in HeadEntries, NEW n \in Given, Opens(name, n, HeadCalls(name, n))
  PROVE  CInv'
<1>1. n \in Nat
  BY DriversAssumption DEF Given, CInv
<1>2. name \in Entries /\ name # "chunked"
  BY DEF Entries, HeadEntries
<1> QED BY <1>1, <1>2, HeadCallsFacts, OpensKeeps

LEMMA ChunkedSweepKeeps ==
  ASSUME CInv, ChunkedSweep
  PROVE  CInv'
<1>1. PICK n \in Given : Opens("chunked", n, ChunkedCalls(n))
  BY DEF ChunkedSweep
<1>2. n \in Nat
  BY DriversAssumption DEF Given, CInv
<1>3. /\ Whole(ChunkedCalls(n), n)
      /\ entry = "chunked" =>
           \A how \in Promised(n) : Among([entry |-> "chunked", how |-> how], ChunkedCalls(n))
  BY <1>2, ChunkedCallsFacts
<1>4. "chunked" \in Entries /\ ChunkedCalls(n) \in Seq(CallsOn("chunked", n))
  BY <1>3 DEF Entries, Whole
<1> QED BY <1>1, <1>3, <1>4, OpensKeeps

-----------------------------------------------------------------------------
(* What is left of the calls when the first has been made. *)
LEMMA TailFacts ==
  ASSUME NEW S, NEW s \in Seq(S), s # <<>>
  PROVE  /\ Head(s) \in S /\ Tail(s) \in Seq(S) /\ Len(Tail(s)) = Len(s) - 1
         /\ Tail(s) # <<>> => Last(Tail(s)) = Last(s)
         /\ \A x \in Range(s) : x = Head(s) \/ x \in Range(Tail(s))
<1>1. /\ Len(s) \in Nat \ {0} /\ DOMAIN s = 1 .. Len(s) /\ Head(s) = s[1] /\ Head(s) \in S
      /\ Tail(s) \in Seq(S) /\ Len(Tail(s)) = Len(s) - 1
      /\ \A i \in 1 .. Len(s) - 1 : Tail(s)[i] = s[i + 1]
      /\ DOMAIN Tail(s) = 1 .. Len(s) - 1
  OBVIOUS
<1>2. ASSUME Tail(s) # <<>> PROVE Last(Tail(s)) = Last(s)
  <2>1. Len(s) - 1 # 0
    BY <1>1, <1>2
  <2>2. Len(s) - 1 \in 1 .. Len(s) - 1 /\ (Len(s) - 1) + 1 = Len(s)
    BY <1>1, <2>1
  <2> QED BY <1>1, <2>2 DEF Last
<1>3. ASSUME NEW x \in Range(s) PROVE x = Head(s) \/ x \in Range(Tail(s))
  <2>1. PICK i \in 1 .. Len(s) : x = s[i]
    BY <1>1, <1>3 DEF Range
  <2>2. CASE i = 1
    BY <1>1, <2>1, <2>2
  <2>3. CASE i # 1
    <3>1. i - 1 \in 1 .. Len(s) - 1 /\ (i - 1) + 1 = i
      BY <2>3, <1>1
    <3>2. x = Tail(s)[i - 1]
      BY <1>1, <2>1, <3>1
    <3> QED BY <1>1, <3>1, <3>2 DEF Range
  <2> QED BY <2>2, <2>3
<1> QED BY <1>1, <1>2, <1>3

(* A difference in an output of the call is in one of those compared.      *)
LEMMA OutcomeFacts ==
  ASSUME CInv, todo # <<>>, NEW outcome \in Outcomes(Head(todo))
  PROVE  /\ outcome \in Outputs(entry) \cup {"same", "crash"}
         /\ Head(todo).entry = entry
         /\ defect.call = Head(todo) => mismatches > 0 \/ outcome # "same"
<1>1. Head(todo) \in CallsOn(entry, len) /\ Head(todo).entry = entry
  <2>1. Head(todo) \in CallsOn(entry, len)
    BY TailFacts DEF CInv, CallsDefined
  <2> QED BY <2>1 DEF CallsOn
<1>2. entry \in Entries /\ defect \in Defects
  BY DEF CInv, CampaignTypeOK
<1>3. CASE apart /\ Len(Head(todo).how.lens) > 1
  <2>1. entry = "chunked" /\ mismatches > 0
    BY <1>3 DEF CInv, Tallied, CampaignTypeOK
  <2>2. outcome \in {"same", "dec"} /\ "dec" \in Outputs(entry)
    BY <1>3, <2>1 DEF Outcomes, Outputs
  <2> QED BY <1>1, <2>1, <2>2
<1>4. CASE ~(apart /\ Len(Head(todo).how.lens) > 1) /\ Head(todo) = defect.call
  <2>1. outcome = defect.output
    BY <1>4 DEF Outcomes
  <2>2. outcome \in Outputs(entry) \cup {"crash"}
    BY <1>1, <1>2, <1>4, <2>1, DriversAssumption
  <2>3. "same" \notin Outputs(entry)
    BY <1>2 DEF Outputs, Entries, HeadEntries
  <2> QED BY <1>1, <2>2, <2>3
<1>5. CASE ~(apart /\ Len(Head(todo).how.lens) > 1) /\ Head(todo) # defect.call
  BY <1>1, <1>5 DEF Outcomes
<1> QED BY <1>3, <1>4, <1>5

(***************************************************************************)
(* A comparison of all the outputs of the entry point, by a program that   *)
(* stops at its limit of reports.                                          *)
(***************************************************************************)
LEMMA CompareKeeps ==
  ASSUME CInv, phase = "calls", todo # <<>>, NEW compared, NEW stops, Compare(compared, stops),
         compared = Outputs(entry),
         program = "fuzz" /\ entry = "chunked" => \A m \in Nat : m >= MaxReports => m \in stops,
         program = "difftest" => stops = {}
  PROVE  CInv'
<1> DEFINE call == Head(todo)
<1>1. PICK outcome \in Outcomes(call) :
        /\ differed' = (differed \/ outcome # "same")
        /\ mismatches' = IF outcome \in compared THEN mismatches + 1 ELSE mismatches
        /\ case' = IF outcome \in compared /\ program = "fuzz" /\ writable /\ case = none
                   THEN len ELSE case
        /\ Apart(call, outcome)
        /\ IF outcome = "crash" THEN phase' = "crashed" /\ todo' = <<>>
           ELSE /\ todo' = IF mismatches' \in stops THEN <<>> ELSE Tail(todo)
                /\ UNCHANGED phase
        /\ UNCHANGED <<program, entry, defect, given, len, fuzzing, triage, rc>>
  BY DEF Compare
<1>2. /\ outcome \in Outputs(entry) \cup {"same", "crash"} /\ call.entry = entry
      /\ defect.call = call => mismatches > 0 \/ outcome # "same"
  BY <1>1, OutcomeFacts
<1>3. entry \in Entries /\ mismatches \in Nat /\ len \in Nat
  BY DEF CInv, CampaignTypeOK
<1>4. "same" \notin Outputs(entry) /\ "crash" \notin Outputs(entry)
  BY <1>3 DEF Outputs, Entries, HeadEntries
<1>5. /\ Tail(todo) \in Seq(CallsOn(entry, len)) /\ Len(Tail(todo)) = Len(todo) - 1
      /\ Tail(todo) # <<>> => Last(Tail(todo)) = Last(todo)
      /\ \A x \in Range(todo) : x = call \/ x \in Range(Tail(todo))
  BY TailFacts DEF CInv, CallsDefined
<1> HIDE DEF call
<1>6. /\ mismatches' \in Nat /\ mismatches <= mismatches'
      /\ outcome \in compared => mismatches' > 0
      /\ mismatches' > 0 => mismatches > 0 \/ outcome \in compared
  BY <1>1, <1>3
<1>7. CampaignTypeOK' /\ (triage => case \in Nat)'
  <2>1. differed' \in BOOLEAN
    BY <1>1
  <2>2. apart' \in BOOLEAN
    BY <1>1 DEF Apart
  <2>3. case' \in Nat \cup {none} /\ (triage' => case' \in Nat)
    BY <1>1, <1>3 DEF CInv, CampaignTypeOK
  <2>4. phase' \in {"crashed", "calls"}
    BY <1>1
  <2> QED BY <1>1, <1>6, <2>1, <2>2, <2>3, <2>4 DEF CInv, CampaignTypeOK, fuzzing, given
<1>8. CallsDefined'
  <2>1. entry' = entry /\ len' = len
    BY <1>1
  <2>2. CASE todo' = <<>>
    BY <2>1, <2>2 DEF CallsDefined
  <2>3. CASE todo' = Tail(todo) /\ todo' # <<>> /\ phase' = "calls"
    <3>1. entry = "chunked" => Total(Last(todo').how.lens) = len
      BY <1>5, <2>3 DEF CInv, CallsDefined
    <3> QED BY <1>5, <2>1, <2>3, <3>1 DEF CallsDefined
  <2> QED BY <1>1, <2>2, <2>3
<1>9. RoomToReport'
  <2> SUFFICES ASSUME program = "fuzz"
               PROVE  /\ mismatches' <= Limit
                      /\ todo' # <<>> => mismatches' < Limit
                      /\ entry # "chunked" => Len(todo') <= 1
    BY <1>1 DEF RoomToReport, Limit
  <2>1. mismatches < Limit /\ (entry # "chunked" => Len(todo) <= 1) /\ Limit \in Nat
    BY ParseAssumption, BodyAssumption DEF CInv, RoomToReport, Limit
  <2>2. mismatches' <= Limit
    BY <1>1, <1>3, <2>1
  <2>3. Len(todo) \in Nat /\ (todo' # <<>> => todo' = Tail(todo) /\ mismatches' \notin stops)
    BY <1>1 DEF CInv, CallsDefined
  <2>4. CASE entry = "chunked"
    BY <1>6, <2>1, <2>2, <2>3, <2>4 DEF Limit
  <2>5. CASE entry # "chunked"
    <3>1. Tail(todo) = <<>>
      BY <1>5, <2>1, <2>3, <2>5
    <3>2. todo' = <<>>
      BY <2>3, <3>1
    <3> QED BY <2>2, <3>2
  <2> QED BY <2>4, <2>5
<1>10. SnapshotTaken'
  BY <1>1 DEF CInv, SnapshotTaken, fuzzing
<1>11. Tallied'
  <2>1. phase' # "crashed" => outcome # "crash"
    BY <1>1
  <2>2. differed <=> mismatches > 0
    BY DEF CInv, Tallied
  <2>3. phase' # "crashed" => (differed' <=> mismatches' > 0)
    BY <1>1, <1>2, <1>4, <1>6, <2>1, <2>2, <1>3
  <2>4. apart' => entry = "chunked" /\ mismatches' > 0
    <3>1. "dec" \in Outputs("chunked")
      BY DEF Outputs
    <3>2. apart => mismatches > 0
      BY DEF CInv, Tallied
    <3>3. apart' => entry = "chunked" /\ (outcome = "dec" \/ apart)
      BY <1>1, <1>2 DEF Apart
    <3> QED BY <1>3, <1>6, <3>1, <3>2, <3>3
  <2>5. phase' # "done" /\ entry' = entry /\ rc' = none
    BY <1>1 DEF CInv, Tallied
  <2> QED BY <2>3, <2>4, <2>5 DEF Tallied
<1>12. StillToFind'
  <2> SUFFICES ASSUME program = "difftest", phase' = "calls",
                      (defect.call.entry)' = entry', (defect.call.how \in Promised(len))'
               PROVE  mismatches' > 0 \/ (defect.call \in Range(todo))'
    BY <1>1 DEF StillToFind
  <2>1. defect' = defect /\ entry' = entry /\ len' = len
    BY <1>1
  <2>2. defect.call.entry = entry /\ defect.call.how \in Promised(len)
    BY <2>1 DEF Promised
  <2>3. mismatches > 0 \/ defect.call \in Range(todo)
    BY <2>2 DEF CInv, StillToFind
  <2>4. todo' = Tail(todo) /\ outcome # "crash"
    BY <1>1
  <2>5. CASE mismatches > 0
    BY <1>3, <1>6, <2>5
  <2>6. CASE defect.call = call
    BY <1>2, <1>6, <2>4, <2>5, <2>6
  <2>7. CASE defect.call \in Range(Tail(todo))
    BY <2>1, <2>4, <2>7
  <2> QED BY <1>5, <2>3, <2>5, <2>6, <2>7
<1>13. FoundInSwept' /\ FilesTaken'
  <2>1. UNCHANGED <<program, entry, defect, argv, swept>> /\ phase' # "done"
    BY <1>1 DEF given
  <2>2. mismatches > 0 => mismatches' > 0
    BY <1>3, <1>6
  <2> QED BY <2>1, <2>2 DEF CInv, FoundInSwept, FilesTaken, Promised
<1> QED BY <1>7, <1>8, <1>9, <1>10, <1>11, <1>12, <1>13 DEF CInv

-----------------------------------------------------------------------------
(* A step of a fuzzer between its calls. *)
LEMMA QuietKeeps ==
  ASSUME CInv, program = "fuzz", todo = <<>>, phase \in {"start", "mutate", "calls"},
         UNCHANGED <<program, entry, defect, given, writable, todo, apart, tally, triage, rc>>,
         phase' \in {"start", "mutate"}, phase' = "mutate" => mismatches < Limit,
         len' \in Nat, len' <= (IF entry = "chunked" THEN MAX_BODY ELSE MAXLEN),
         left' \in Nat, iter' \in Nat, snapshot' \in Nat \cup {none}
  PROVE  CInv'
<1> USE DEF tally, given
<1>1. CampaignTypeOK' /\ (triage => case \in Nat)'
  BY DEF CInv, CampaignTypeOK
<1>2. CallsDefined'
  BY DEF CallsDefined
<1>3. RoomToReport'
  <2>1. mismatches <= Limit
    BY DEF CInv, RoomToReport
  <2> QED BY <2>1 DEF RoomToReport, Limit
<1>4. SnapshotTaken'
  BY DEF SnapshotTaken
<1>5. Tallied'
  BY DEF CInv, Tallied
<1>6. StillToFind' /\ FoundInSwept' /\ FilesTaken'
  BY DEF StillToFind, FoundInSwept, FilesTaken, CInv
<1> QED BY <1>1, <1>2, <1>3, <1>4, <1>5, <1>6 DEF CInv

(* The calls on one buffer: the snapshot of it has been taken. *)
LEMMA AimedKeeps ==
  ASSUME CInv, program = "fuzz", phase = "mutate",
         UNCHANGED <<program, entry, defect, given, len, left, iter, writable, apart, tally,
                     triage, rc>>,
         phase' = "calls", snapshot' = IF writable THEN len ELSE snapshot,
         todo' \in Seq(CallsOn(entry, len)),
         entry # "chunked" => Len(todo') <= 1,
         entry = "chunked" => Whole(todo', len)
  PROVE  CInv'
<1> USE DEF tally, given
<1>1. CampaignTypeOK' /\ (triage => case \in Nat)'
  BY DEF CInv, CampaignTypeOK
<1>2. CallsDefined'
  BY DEF CallsDefined, Whole
<1>3. RoomToReport'
  <2>1. mismatches <= Limit /\ mismatches < Limit
    BY DEF CInv, RoomToReport
  <2> QED BY <2>1 DEF RoomToReport, Limit
<1>4. SnapshotTaken'
  BY DEF SnapshotTaken
<1>5. Tallied'
  BY DEF CInv, Tallied
<1>6. StillToFind' /\ FoundInSwept' /\ FilesTaken'
  BY DEF StillToFind, FoundInSwept, FilesTaken, CInv
<1> QED BY <1>1, <1>2, <1>3, <1>4, <1>5, <1>6 DEF CInv

(* The seeds are loaded. *)
LEMMA LoadKeeps ==
  ASSUME CInv, program = "fuzz", phase = "load", phase' = "start",
         UNCHANGED <<program, entry, defect, argv, swept, len, fuzzing, todo, apart, tally,
                     triage, rc>>,
         pool' \subseteq Nat, entry \in HeadEntries => \A n \in pool' : n <= MAXLEN
  PROVE  CInv'
<1> USE DEF fuzzing, tally
<1>1. CampaignTypeOK' /\ (triage => case \in Nat)'
  BY DEF CInv, CampaignTypeOK
<1>2. CallsDefined'
  BY DEF CInv, CallsDefined
<1>3. RoomToReport'
  BY DEF CInv, RoomToReport, Limit
<1>4. SnapshotTaken' /\ StillToFind' /\ FoundInSwept' /\ FilesTaken'
  BY DEF CInv, SnapshotTaken, StillToFind, FoundInSwept, FilesTaken
<1>5. Tallied'
  BY DEF CInv, Tallied
<1> QED BY <1>1, <1>2, <1>3, <1>4, <1>5 DEF CInv

(* A program gives up: what it has found stands. *)
LEMMA GivesUpKeeps ==
  ASSUME CInv, phase \in {"load", "start", "calls"}, GivesUp
  PROVE  CInv'
<1> USE DEF GivesUp, fuzzing, tally, given
<1>1. CampaignTypeOK' /\ (triage => case \in Nat)'
  BY DEF CInv, CampaignTypeOK
<1>2. CallsDefined'
  BY DEF CallsDefined
<1>3. RoomToReport'
  <2>1. todo' = <<>> /\ phase' # "mutate" /\ Len(<<>>) <= 1
    OBVIOUS
  <2> QED BY <2>1 DEF CInv, RoomToReport, Limit
<1>4. SnapshotTaken' /\ StillToFind'
  BY DEF SnapshotTaken, StillToFind
<1>5. Tallied'
  BY DEF CInv, Tallied
<1>6. FoundInSwept' /\ FilesTaken'
  BY DEF CInv, FoundInSwept, FilesTaken, Promised
<1> QED BY <1>1, <1>2, <1>3, <1>4, <1>5, <1>6 DEF CInv

(* All calls on a file have been made: it joins the files swept. *)
LEMMA SweptFound ==
  ASSUME CInv, phase = "calls", todo = <<>>, program = "difftest",
         UNCHANGED <<program, entry, defect, mismatches>>, swept' = swept \cup {len}
  PROVE  FoundInSwept'
<1> SUFFICES ASSUME defect.call.entry = entry,
                    \E n \in swept \cup {len} : defect.call.how \in Promised(n)
             PROVE  mismatches > 0
  BY DEF FoundInSwept, Promised
<1>1. CASE \E n \in swept : defect.call.how \in Promised(n)
  BY <1>1 DEF CInv, FoundInSwept
<1>2. CASE defect.call.how \in Promised(len)
  <2>1. Range(todo) = {}
    BY DEF Range
  <2> QED BY <1>2, <2>1 DEF CInv, StillToFind
<1> QED BY <1>1, <1>2

LEMMA NextFileKeeps ==
  ASSUME CInv, NextFile
  PROVE  CInv'
<1> USE DEF NextFile, Swept, fuzzing, tally
<1>1. CampaignTypeOK' /\ (triage => case \in Nat)'
  BY DEF CInv, CampaignTypeOK
<1>2. CallsDefined'
  BY DEF CInv, CallsDefined
<1>3. RoomToReport' /\ SnapshotTaken' /\ StillToFind' /\ FilesTaken'
  BY DEF RoomToReport, SnapshotTaken, StillToFind, FilesTaken
<1>4. Tallied'
  BY DEF CInv, Tallied
<1>5. FoundInSwept'
  BY SweptFound
<1> QED BY <1>1, <1>2, <1>3, <1>4, <1>5 DEF CInv

(* The end of a program: the exit code tells. *)
LEMMA ExitKeeps ==
  ASSUME CInv, phase \in {"start", "calls"}, todo = <<>>, Exit, argv = 0,
         program = "fuzz" => swept' = swept,
         program = "difftest" => phase = "calls" /\ swept' = swept \cup {len}
  PROVE  CInv'
<1> USE DEF Exit, fuzzing, tally
<1>1. CampaignTypeOK' /\ (triage => case \in Nat)'
  <2>1. swept' \subseteq Nat
    BY DEF CInv, CampaignTypeOK
  <2> QED BY <2>1 DEF CInv, CampaignTypeOK
<1>2. CallsDefined'
  BY DEF CInv, CallsDefined
<1>3. RoomToReport'
  BY DEF CInv, RoomToReport, Limit
<1>4. SnapshotTaken'
  BY DEF SnapshotTaken
<1>5. Tallied'
  BY DEF CInv, Tallied
<1>6. StillToFind' /\ FilesTaken'
  BY DEF StillToFind, FilesTaken
<1>7. FoundInSwept'
  <2>1. CASE program = "difftest"
    BY <2>1, SweptFound
  <2>2. CASE program # "difftest"
    BY <2>2 DEF FoundInSwept
  <2> QED BY <2>1, <2>2
<1> QED BY <1>1, <1>2, <1>3, <1>4, <1>5, <1>6, <1>7 DEF CInv

(* What CInv says of a fuzzer. *)
LEMMA FuzzFacts ==
  ASSUME CInv, program = "fuzz"
  PROVE  /\ entry \in Entries /\ len \in Nat /\ left \in Nat /\ iter \in Nat
         /\ snapshot \in Nat \cup {none} /\ mismatches \in Nat
         /\ len <= (IF entry = "chunked" THEN MAX_BODY ELSE MAXLEN)
         /\ phase # "calls" => todo = <<>>
         /\ phase = "mutate" => mismatches < Limit
         /\ pool \subseteq Nat /\ argv = 0
         /\ entry \in HeadEntries => \A n \in pool : n <= MAXLEN
BY DEF CInv, CampaignTypeOK, CallsDefined, RoomToReport, FilesTaken

LEMMA FuzzParseKeeps ==
  ASSUME CInv, FuzzParseNext
  PROVE  CInv'
<1>0. program = "fuzz" /\ entry \in HeadEntries
  BY DEF FuzzParseNext, load_seeds, NoSeeds, PickSeed, mutate, Aim, run_entry, ParseNext, ParseDone, Parsing
<1>1. /\ entry # "chunked" /\ Limit = MAX_CASES
      /\ MAXLEN \in Nat /\ MAX_CASES \in Nat /\ len <= MAXLEN
  BY <1>0, ParseAssumption, FuzzFacts DEF HeadEntries, Limit
<1>8. CASE load_seeds
  <2>1. CASE GivesUp
    BY <1>8, <2>1, GivesUpKeeps DEF load_seeds
  <2>2. CASE ~GivesUp
    <3>1. pool' \subseteq Nat /\ \A n \in pool' : n <= MAXLEN
      BY <1>8, <2>2, DriversAssumption DEF load_seeds
    <3> QED BY <1>0, <1>8, <2>2, <3>1, LoadKeeps DEF load_seeds
  <2> QED BY <2>1, <2>2
<1>9. CASE NoSeeds
  BY <1>9, GivesUpKeeps DEF NoSeeds
<1>2. CASE PickSeed
  <2>1. todo = <<>> /\ mismatches < Limit
    BY <1>0, <1>1, <1>2, FuzzFacts DEF PickSeed, Finished
  <2>2. len' \in Nat /\ len' <= MAXLEN /\ left' \in Nat /\ iter' \in Nat
    BY <1>0, <1>2, FuzzFacts, DriversAssumption, ParseAssumption DEF PickSeed
  <2>3. snapshot' \in Nat \cup {none}
    BY <1>0, <1>2, FuzzFacts DEF PickSeed
  <2> QED BY <1>0, <1>1, <1>2, <2>1, <2>2, <2>3, QuietKeeps DEF PickSeed
<1>3. CASE mutate
  <2>1. todo = <<>> /\ mismatches < Limit
    BY <1>0, <1>3, FuzzFacts DEF mutate
  <2>2. ASSUME NEW n \in Nat, n <= MAXLEN, Mutates(n) PROVE CInv'
    <3>1. /\ len' = n /\ left' \in Nat /\ iter' \in Nat /\ snapshot' \in Nat \cup {none}
          /\ phase' = "mutate" /\ phase = "mutate"
      BY <1>0, <1>3, <2>2, FuzzFacts DEF mutate, Mutates
    <3> QED BY <1>0, <1>1, <2>1, <2>2, <3>1, QuietKeeps DEF Mutates
  <2>3. \A n \in Nat : insert_at(n) \in Nat /\ insert_at(n) <= MAXLEN
    BY <1>0, <1>1, FuzzFacts DEF insert_at
  <2>4. len \in Nat /\ Snippets \subseteq Nat /\ Files \subseteq Nat
    BY <1>0, FuzzFacts, ParseAssumption, DriversAssumption
  <2>5. CASE \E n \in 0 .. len : Mutates(n)
    BY <1>1, <2>2, <2>4, <2>5
  <2>6. CASE \E other \in pool : \E tail \in 0 .. other :
               Mutates(len + Min({tail, MAXLEN - len}))
    <3>1. PICK other \in pool : \E tail \in 0 .. other :
                 Mutates(len + Min({tail, MAXLEN - len}))
      BY <2>6
    <3>2. PICK tail \in 0 .. other : Mutates(len + Min({tail, MAXLEN - len}))
      BY <3>1
    <3> DEFINE more == Min({tail, MAXLEN - len})
    <3>3. tail \in Nat /\ MAXLEN - len \in Nat
      BY <1>0, <1>1, <2>4, <3>1, FuzzFacts
    <3>4. more \in Nat /\ more <= MAXLEN - len
      BY <3>3, MinTwo
    <3> HIDE DEF more
    <3>5. len + more \in Nat /\ len + more <= MAXLEN
      BY <1>1, <2>4, <3>4
    <3>6. Mutates(len + more)
      BY <3>2 DEF more
    <3> QED BY <2>2, <3>5, <3>6
  <2>7. CASE \E n \in Nat : Mutates(insert_at(n))
    BY <2>2, <2>3, <2>7
  <2>8. CASE Mutates(len)
    BY <1>1, <2>2, <2>4, <2>8
  <2> QED
    <3>1. 1 \in Nat /\ \A n \in 1 .. len : n \in Nat
      BY <2>4
    <3> QED BY <1>3, <2>4, <2>5, <2>6, <2>7, <2>8, <3>1 DEF mutate
<1>4. CASE Aim
  <2>1. PICK c \in DOMAIN Caps, hint \in 0 .. len :
          todo' = <<[entry |-> entry,
                     how |-> [cap |-> Caps[c], prefix |-> len, last_len |-> hint]]>>
    BY <1>4 DEF Aim
  <2> DEFINE h == [cap |-> Caps[c], prefix |-> len, last_len |-> hint]
  <2>2. Caps[c] \in Nat /\ len \in Nat
    BY <1>0, FuzzFacts, DriversAssumption
  <2>3. h \in [cap : Nat, prefix : 0 .. len, last_len : 0 .. len] /\ h.last_len <= h.prefix
    BY <2>2
  <2>4. h \in HeadHows(len)
    BY <2>3 DEF HeadHows
  <2> HIDE DEF h
  <2>5. [entry |-> entry, how |-> h] \in CallsOn(entry, len)
    BY <1>1, <2>4 DEF CallsOn
  <2>6. todo' \in Seq(CallsOn(entry, len)) /\ Len(todo') <= 1
    BY <2>1, <2>5 DEF h
  <2> QED BY <1>0, <1>1, <1>4, <2>6, AimedKeeps DEF Aim, snap_current
<1>5. CASE run_entry
  <2>1. /\ Outputs("request") = cmp_request /\ Outputs("response") = cmp_response
        /\ Outputs("headers") = cmp_headers
    BY DEF Outputs, cmp_request, cmp_response, cmp_headers
  <2>2. (CASE entry = "request"  -> cmp_request
           [] entry = "response" -> cmp_response
           [] entry = "headers"  -> cmp_headers) = Outputs(entry)
    BY <1>0, <2>1 DEF HeadEntries
  <2>3. Compare(Outputs(entry), NoStop) /\ phase = "calls" /\ todo # <<>>
    BY <1>5, <2>2 DEF run_entry
  <2> QED BY <1>0, <1>1, <2>3, CompareKeeps
<1>6. CASE ParseNext
  <2>1. /\ len' \in Nat /\ len' <= MAXLEN /\ left' \in Nat /\ iter' \in Nat
        /\ snapshot' \in Nat \cup {none}
    BY <1>0, <1>1, <1>6, FuzzFacts DEF ParseNext, fuzzing
  <2> QED BY <1>0, <1>1, <1>6, <2>1, QuietKeeps DEF ParseNext, fuzzing
<1>7. CASE ParseDone
  <2>1. todo = <<>> /\ argv = 0
    BY <1>0, <1>7, FuzzFacts DEF ParseDone
  <2> QED BY <1>0, <1>7, <2>1, ExitKeeps DEF ParseDone
<1> QED BY <1>2, <1>3, <1>4, <1>5, <1>6, <1>7, <1>8, <1>9 DEF FuzzParseNext

(* The fuzzer of the decoder begins its streams with structs in which no   *)
(* counter has overtaken another.                                          *)
LEMMA DirtyStructs == {fresh_dec} \cup dirty_dec \subseteq Structs
<1> DEFINE With(f, over, read) ==
             [st |-> f[1], bytes_left |-> f[2], hex |-> f[3], overhead |-> over, read |-> read]
<1>1. ASSUME NEW st \in 0 .. 3, NEW l \in Nat, NEW h \in 0 .. 16, NEW over \in Nat, NEW delta \in Nat
      PROVE  [st |-> st, bytes_left |-> l, hex |-> h, overhead |-> over, read |-> over + delta]
               \in Structs
  <2> DEFINE s == [st |-> st, bytes_left |-> l, hex |-> h, overhead |-> over, read |-> over + delta]
  <2>1. over + delta \in Nat
    OBVIOUS
  <2>2. s \in [st : 0 .. 3, bytes_left : Nat, hex : 0 .. 16, overhead : Nat, read : Nat]
    BY <2>1
  <2>3. s.overhead <= s.read
    OBVIOUS
  <2> QED BY <2>2, <2>3 DEF Structs
<1>2. \A f \in DirtyFields : f[1] \in 0 .. 3 /\ f[2] \in Nat /\ f[3] \in 0 .. 16
  <2>1. Lefts \subseteq Nat /\ Hexes \subseteq 0 .. 16
    BY BodyAssumption
  <2> QED BY <2>1 DEF DirtyFields
<1>3. \A f \in DirtyFields, over \in Nat, delta \in Nat : With(f, over, over + delta) \in Structs
  BY <1>1, <1>2
<1>4. Overheads \subseteq Nat /\ Deltas \subseteq Nat /\ 0 \in Nat /\ 0 + 0 = 0
  BY BodyAssumption
<1>5. \A f \in DirtyFields : With(f, 0, 0) \in Structs
  <2> TAKE f \in DirtyFields
  <2> DEFINE nothing == 0
  <2>1. nothing \in Nat /\ nothing + nothing = nothing
    OBVIOUS
  <2> HIDE DEF nothing, With
  <2>2. With(f, nothing, nothing + nothing) \in Structs
    BY <1>3, <2>1
  <2> QED BY <2>1, <2>2 DEF nothing
<1>6. fresh_dec \in Structs
  <2>1. [st |-> 0, bytes_left |-> 0, hex |-> 0, overhead |-> 0, read |-> 0 + 0] \in Structs
    BY <1>1
  <2> QED BY <2>1 DEF fresh_dec
<1> HIDE DEF With
<1>7. \A s \in dirty_dec :
        \/ \E f \in DirtyFields : s = With(f, 0, 0)
        \/ \E f \in DirtyFields, over \in Overheads, delta \in Deltas :
             s = With(f, over, over + delta)
  BY DEF dirty_dec, With
<1>8. \A s \in dirty_dec : s \in Structs
  BY <1>3, <1>4, <1>5, <1>7
<1> QED BY <1>6, <1>8

LEMMA FieldsOfStructs ==
  ASSUME NEW s \in Structs
  PROVE  s.st \in 0 .. 3 /\ s.hex <= 16 /\ s.overhead <= s.read
<1>1. /\ s \in [st : 0 .. 3, bytes_left : Nat, hex : 0 .. 16, overhead : Nat, read : Nat]
      /\ s.overhead <= s.read
  BY DEF Structs
<1> QED BY <1>1

(* However the fuzzer cuts a body, the calls add up to it. *)
LEMMA SplitFacts ==
  ASSUME len \in Nat, NEW lens \in Splits
  PROVE  lens \in Seq(Nat) /\ lens # <<>> /\ \E g : Sums(g, lens, len) /\ g[Len(lens)] = len
<1>1. CASE lens = <<len>>
  BY <1>1, OneCall
<1>2. CASE \E n \in 2 .. MAX_CALLS : \E cuts \in Cuts(n) : lens = Parts(cuts)
  <2>1. PICK n \in 2 .. MAX_CALLS : \E cuts \in Cuts(n) : lens = Parts(cuts)
    BY <1>2
  <2>2. PICK cuts \in Cuts(n) : lens = Parts(cuts)
    BY <2>1
  <2>3. n \in Nat /\ n > 1
    BY BodyAssumption
  <2> QED BY <2>2, <2>3, PartsFacts
<1> QED BY <1>1, <1>2 DEF Splits

(* Windows and growth keep within the body buffer. *)
LEMMA BodyLengths ==
  ASSUME len \in Nat, len <= MAX_BODY
  PROVE  /\ \A n \in Nat : Grown(n) \in Nat /\ Grown(n) <= MAX_BODY
         /\ \A n \in Nat : window_seed(n) \in Nat /\ window_seed(n) <= MAX_BODY
         /\ \A a, b \in Nat : Spliced(a, b) \in Nat /\ Spliced(a, b) <= MAX_BODY
<1>1. MAX_BODY \in Nat /\ MAX_BODY - len \in Nat /\ MAX_BODY \div 2 \in Nat
      /\ MAX_BODY \div 2 <= MAX_BODY
  BY BodyAssumption
<1>2. ASSUME NEW n \in Nat PROVE Grown(n) \in Nat /\ Grown(n) <= MAX_BODY
  <2>1. Min({n, MAX_BODY - len}) \in Nat /\ Min({n, MAX_BODY - len}) <= MAX_BODY - len
    BY <1>1, MinTwo
  <2> QED BY <1>1, <2>1 DEF Grown
<1>3. ASSUME NEW n \in Nat PROVE window_seed(n) \in Nat /\ window_seed(n) <= MAX_BODY
  BY <1>1, MinTwo DEF window_seed
<1>4. ASSUME NEW a \in Nat, NEW b \in Nat
      PROVE  Spliced(a, b) \in Nat /\ Spliced(a, b) <= MAX_BODY
  <2> DEFINE first == Min({a, MAX_BODY \div 2})
             second == Min({b, MAX_BODY - first})
  <2>1. first \in Nat /\ first <= MAX_BODY
    <3>1. first \in Nat /\ first <= MAX_BODY \div 2
      BY <1>1, MinTwo
    <3> HIDE DEF first
    <3> QED BY <1>1, <3>1
  <2>2. Spliced(a, b) = first + second
    BY DEF Spliced
  <2> HIDE DEF first
  <2>3. MAX_BODY - first \in Nat
    BY <1>1, <2>1
  <2>4. second \in Nat /\ second <= MAX_BODY - first
    BY <2>3, MinTwo
  <2> HIDE DEF second
  <2> QED BY <1>1, <2>1, <2>2, <2>4
<1> QED BY <1>2, <1>3, <1>4

LEMMA FuzzChunkedKeeps ==
  ASSUME CInv, FuzzChunkedNext
  PROVE  CInv'
<1>0. program = "fuzz" /\ entry = "chunked"
  BY DEF FuzzChunkedNext, LoadBodies, build_body, BodyMutation, Split, step, BodyNext, BodyDone, Decoding
<1>1. /\ Limit = MaxReports /\ MAX_BODY \in Nat \ {0} /\ MaxReports \in Nat
      /\ len \in Nat /\ len <= MAX_BODY
  BY <1>0, BodyAssumption, FuzzFacts DEF Limit
<1>8. CASE LoadBodies
  <2>1. CASE GivesUp
    BY <1>8, <2>1, GivesUpKeeps DEF LoadBodies
  <2>2. CASE ~GivesUp
    <3>1. pool' \subseteq Nat /\ entry \notin HeadEntries
      BY <1>0, <1>8, <2>2, DriversAssumption DEF LoadBodies, HeadEntries
    <3> QED BY <1>0, <1>8, <2>2, <3>1, LoadKeeps DEF LoadBodies
  <2> QED BY <2>1, <2>2
<1>2. CASE build_body
  <2>1. todo = <<>> /\ mismatches < Limit
    BY <1>0, <1>1, <1>2, FuzzFacts DEF build_body, Enough
  <2>2. len' \in Nat /\ len' <= MAX_BODY
    <3>1. pool \subseteq Nat
      BY <1>0, FuzzFacts
    <3>2. \A n \in pool : window_seed(n) \in Nat /\ window_seed(n) <= MAX_BODY
      BY <1>1, <3>1, BodyLengths
    <3>3. \A a, b \in pool : Spliced(a, b) \in Nat /\ Spliced(a, b) <= MAX_BODY
      BY <1>1, <3>1, BodyLengths
    <3> QED BY <1>2, <3>2, <3>3 DEF build_body
  <2>3. left' \in Nat /\ iter' \in Nat /\ snapshot' \in Nat \cup {none}
    BY <1>0, <1>2, FuzzFacts, BodyAssumption DEF build_body
  <2> QED BY <1>0, <1>2, <2>1, <2>2, <2>3, QuietKeeps DEF build_body
<1>3. CASE BodyMutation
  <2>1. todo = <<>> /\ mismatches < Limit
    BY <1>0, <1>3, FuzzFacts DEF BodyMutation
  <2>2. \A n \in MutatedBody : n \in Nat /\ n <= MAX_BODY
    <3>1. \A n \in pool \cup 1 .. HexRun : n \in Nat
      BY <1>0, FuzzFacts, BodyAssumption
    <3>2. \A n \in pool \cup 1 .. HexRun : Grown(n) \in Nat /\ Grown(n) <= MAX_BODY
      BY <1>1, <3>1, BodyLengths
    <3>3. 1 \in Nat /\ 1 <= MAX_BODY
      BY <1>1
    <3>4. ASSUME NEW n \in MutatedBody, len # 0
          PROVE  n = len \/ (len > 1 /\ n = len - 1) \/ n \in 1 .. len
                   \/ \E k \in pool \cup 1 .. HexRun : n = Grown(k)
      BY <3>4 DEF MutatedBody
    <3>5. CASE len = 0
      BY <3>3, <3>5 DEF MutatedBody
    <3>6. CASE len # 0
      BY <1>1, <3>2, <3>4, <3>6
    <3> QED BY <3>5, <3>6
  <2>3. len' \in Nat /\ len' <= MAX_BODY
    BY <1>3, <2>2 DEF BodyMutation
  <2>4. left' \in Nat /\ iter' \in Nat /\ snapshot' \in Nat \cup {none} /\ phase' = "mutate"
    BY <1>0, <1>3, FuzzFacts DEF BodyMutation
  <2> QED BY <1>0, <1>3, <2>1, <2>3, <2>4, QuietKeeps DEF BodyMutation
<1>4. CASE Split
  <2>1. PICK lens \in Splits, struct \in {fresh_dec} \cup dirty_dec, trailer \in {0, 1} :
          todo' = Stream(struct, trailer, lens)
    BY <1>4 DEF Split, Stream
  <2>2. struct \in Structs
    BY <2>1, DirtyStructs
  <2>3. lens \in Seq(Nat) /\ lens # <<>> /\ \E g : Sums(g, lens, len) /\ g[Len(lens)] = len
    BY <1>1, SplitFacts
  <2>4. Whole(todo', len)
    BY <1>1, <2>1, <2>2, <2>3, WholeStream
  <2>5. todo' \in Seq(CallsOn(entry, len))
    BY <1>0, <2>4 DEF Whole
  <2> QED BY <1>0, <1>4, <2>4, <2>5, AimedKeeps DEF Split
<1>5. CASE step
  <2>1. (Compare(Outputs(entry), Fifth) \/ GivesUp) /\ phase = "calls" /\ todo # <<>>
    BY <1>0, <1>5 DEF step, Outputs
  <2>2. \A m \in Nat : m >= MaxReports => m \in Fifth
    BY DEF Fifth
  <2>3. CASE GivesUp
    BY <2>1, <2>3, GivesUpKeeps
  <2>4. CASE Compare(Outputs(entry), Fifth)
    BY <1>0, <2>1, <2>2, <2>4, CompareKeeps
  <2> QED BY <2>1, <2>3, <2>4
<1>6. CASE BodyNext
  <2>1. /\ len' \in Nat /\ len' <= MAX_BODY /\ left' \in Nat /\ iter' \in Nat
        /\ snapshot' \in Nat \cup {none}
    BY <1>0, <1>1, <1>6, FuzzFacts DEF BodyNext, fuzzing
  <2> QED BY <1>0, <1>6, <2>1, QuietKeeps DEF BodyNext, fuzzing
<1>7. CASE BodyDone
  <2>1. todo = <<>> /\ argv = 0
    BY <1>0, <1>7, FuzzFacts DEF BodyDone
  <2> QED BY <1>0, <1>7, <2>1, ExitKeeps DEF BodyDone
<1> QED BY <1>2, <1>3, <1>4, <1>5, <1>6, <1>7, <1>8 DEF FuzzChunkedNext

LEMMA DiffTestKeeps ==
  ASSUME CInv, DiffTest
  PROVE  CInv'
<1>0. program = "difftest" /\ Never = {}
  BY DEF DiffTest, RequestSweep, ResponseSweep, HeadersSweep, ChunkedSweep, Opens, RequestCase,
         ResponseCase, HeadersCase, ChunkedStep, ChunkedNoMemory, Refuses, Compares, NextFile,
         SweepDone, Swept, Never
<1>1. CASE RequestSweep \/ ResponseSweep \/ HeadersSweep
  <2>1. PICK name \in HeadEntries, n \in Given : Opens(name, n, HeadCalls(name, n))
    BY <1>1 DEF RequestSweep, ResponseSweep, HeadersSweep, HeadEntries
  <2> QED BY <2>1, HeadSweepKeeps
<1>2. CASE ChunkedSweep
  BY <1>2, ChunkedSweepKeeps
<1>3. CASE RequestCase \/ ResponseCase \/ HeadersCase \/ ChunkedStep
  <2>1. Compare(Outputs(entry), Never) /\ phase = "calls" /\ todo # <<>>
    BY <1>3 DEF RequestCase, ResponseCase, HeadersCase, ChunkedStep, Compares, Outputs
  <2> QED BY <1>0, <2>1, CompareKeeps
<1>4. CASE SweepDone
  BY <1>0, <1>4, ExitKeeps DEF SweepDone, Swept
<1>5. CASE Refuses \/ ChunkedNoMemory
  BY <1>5, GivesUpKeeps DEF Refuses, ChunkedNoMemory
<1>6. CASE NextFile
  BY <1>6, NextFileKeeps
<1> QED BY <1>1, <1>2, <1>3, <1>4, <1>5, <1>6 DEF DiffTest

LEMMA TriageKeeps ==
  ASSUME CInv, Triage
  PROVE  CInv'
<1> USE DEF Triage, fuzzing
<1>1. case \in Nat
  BY DEF CInv, CampaignTypeOK, none
<1>2. CampaignTypeOK' /\ (triage => case \in Nat)'
  BY <1>1 DEF CInv, CampaignTypeOK
<1>3. CallsDefined'
  BY DEF CInv, CallsDefined
<1>4. RoomToReport' /\ SnapshotTaken' /\ Tallied' /\ StillToFind'
      /\ FoundInSwept' /\ FilesTaken'
  BY DEF RoomToReport, SnapshotTaken, Tallied, StillToFind, FoundInSwept, FilesTaken
<1> QED BY <1>2, <1>3, <1>4 DEF CInv

-----------------------------------------------------------------------------
LEMMA CampaignInitially == Init => CInv
<1> SUFFICES ASSUME Init PROVE CInv
  OBVIOUS
<1> USE DEF Init
<1>1. CampaignTypeOK
  <2>1. 0 <= MAX_BODY /\ 0 <= MAXLEN
    BY BodyAssumption, ParseAssumption
  <2>2. len <= (IF entry = "chunked" THEN MAX_BODY ELSE MAXLEN) /\ len \in Nat
    BY <2>1
  <2>3. /\ left \in Nat /\ iter \in Nat /\ mismatches \in Nat
        /\ snapshot \in Nat \cup {none} /\ case \in Nat \cup {none} /\ rc \in {none, 0, 1, 2}
    OBVIOUS
  <2>4. /\ apart \in BOOLEAN /\ writable \in BOOLEAN /\ differed \in BOOLEAN
        /\ triage \in BOOLEAN
    OBVIOUS
  <2>5. argv \in Nat /\ swept \subseteq Nat /\ pool \subseteq Nat
        /\ (entry \in HeadEntries => \A n \in pool : n <= MAXLEN)
    BY DriversAssumption
  <2> QED BY <2>2, <2>3, <2>4, <2>5 DEF CampaignTypeOK
<1>2. CallsDefined
  BY DEF CallsDefined
<1>3. RoomToReport
  <2>1. Limit \in Nat
    BY BodyAssumption, ParseAssumption DEF Limit
  <2> QED BY <2>1 DEF RoomToReport
<1>4. SnapshotTaken /\ Tallied /\ StillToFind /\ FoundInSwept /\ FilesTaken
  BY DEF SnapshotTaken, Tallied, StillToFind, FoundInSwept, FilesTaken
<1> QED BY <1>1, <1>2, <1>3, <1>4 DEF CInv

LEMMA CampaignSteps == CInv /\ [Next]_vars => CInv'
<1> SUFFICES ASSUME CInv, [Next]_vars PROVE CInv'
  OBVIOUS
<1>1. CASE UNCHANGED vars
  <2>1. /\ CampaignTypeOK' /\ (triage => case \in Nat)' /\ CallsDefined' /\ SnapshotTaken'
        /\ Tallied' /\ RoomToReport' /\ FilesTaken'
    BY <1>1 DEF vars, given, fuzzing, tally, CInv, CampaignTypeOK, CallsDefined, SnapshotTaken,
                Tallied, RoomToReport, Limit, FilesTaken
  <2>2. StillToFind' /\ FoundInSwept'
    BY <1>1 DEF vars, given, fuzzing, tally, CInv, StillToFind, FoundInSwept, Promised
  <2> QED BY <2>1, <2>2 DEF CInv
<1> QED BY <1>1, DiffTestKeeps, FuzzParseKeeps, FuzzChunkedKeeps, TriageKeeps DEF Next

LEMMA CampaignInvariant == Spec => []CInv
BY CampaignInitially, CampaignSteps, PTL DEF Spec

(* The variables have their types, and no mutation takes a working buffer  *)
(* beyond its size.                                                        *)
THEOREM CampaignTypes == Spec => []CampaignTypeOK
<1>1. CInv => CampaignTypeOK
  BY DEF CInv
<1> QED BY <1>1, CampaignInvariant, PTL

(* The exit code of every program that comes to its end tells whether the  *)
(* sides differed; one that gives up (a file or memory it does not get)    *)
(* answers 2 and never claims either.                                      *)
THEOREM ExitsTell == Spec => []ExitTells
<1>1. CInv => ExitTells
  BY DEF CInv, Tallied, FilesTaken, ExitTells, CampaignTypeOK
<1> QED BY <1>1, CampaignInvariant, PTL

(* A difference in a call the difftests promise to make, on any file they  *)
(* are done with, of any length, is found, and stays found when the        *)
(* program gives up on a file that follows.                                *)
THEOREM SweepsFind == Spec => []SweepFinds
<1>1. CInv => SweepFinds
  <2> SUFFICES ASSUME CInv, program = "difftest", defect.call.entry = entry,
                      \E n \in swept : defect.call.how \in Promised(n)
               PROVE  mismatches > 0 /\ rc # 0
    BY DEF SweepFinds
  <2>1. mismatches > 0 /\ mismatches \in Nat
    BY DEF CInv, FoundInSwept, CampaignTypeOK
  <2> QED BY <2>1 DEF CInv, Tallied, none
<1> QED BY <1>1, CampaignInvariant, PTL

(* After a crash the snapshot on disk is the buffer that crashed a side.   *)
THEOREM CrashesOnDisk == Spec => []CrashOnDisk
<1>1. CInv => CrashOnDisk
  BY DEF CInv, SnapshotTaken, CrashOnDisk
<1> QED BY <1>1, CampaignInvariant, PTL

(* No program calls the oracle where C does not define what it does.       *)
THEOREM OracleIsDefined == Spec => []OracleDefined
<1>1. CInv => OracleDefined
  <2> SUFFICES ASSUME CInv, NEW i \in DOMAIN todo
               PROVE  LET how == todo[i].how IN
                      IF todo[i].entry # "chunked"
                      THEN how.prefix <= len /\ how.last_len <= how.prefix
                      ELSE /\ how.struct.st \in 0 .. 3 /\ how.struct.hex <= 16
                           /\ how.struct.overhead <= how.struct.read
                           /\ \A j \in DOMAIN how.lens : how.lens[j] >= 0
                           /\ Total(how.lens) <= len
                           /\ i = Len(todo) => Total(how.lens) = len
    BY DEF OracleDefined
  <2>1. /\ todo \in Seq(CallsOn(entry, len)) /\ len \in Nat
        /\ entry = "chunked" /\ todo # <<>> => Total(Last(todo).how.lens) = len
    BY DEF CInv, CallsDefined, CampaignTypeOK
  <2>2. todo[i] \in CallsOn(entry, len) /\ todo # <<>> /\ Last(todo) = todo[Len(todo)]
    BY <2>1 DEF Last
  <2>3. CASE entry # "chunked"
    <3>1. todo[i].entry = entry /\ todo[i].how \in HeadHows(len)
      BY <2>2, <2>3 DEF CallsOn
    <3> QED BY <2>1, <2>3, <3>1 DEF HeadHows
  <2>4. CASE entry = "chunked"
    <3>1. todo[i].entry = entry /\ todo[i].how \in DecodeHows(len)
      BY <2>2, <2>4 DEF CallsOn
    <3>2. /\ todo[i].how.struct \in Structs /\ todo[i].how.lens \in Seq(Nat)
          /\ Total(todo[i].how.lens) <= len
      BY <3>1 DEF DecodeHows
    <3>3. \A j \in DOMAIN todo[i].how.lens : todo[i].how.lens[j] >= 0
      BY <3>2
    <3>4. i = Len(todo) => Total(todo[i].how.lens) = len
      BY <2>1, <2>2, <2>4
    <3>5. /\ todo[i].how.struct.st \in 0 .. 3 /\ todo[i].how.struct.hex <= 16
          /\ todo[i].how.struct.overhead <= todo[i].how.struct.read
      BY <3>2, FieldsOfStructs
    <3> QED BY <2>4, <3>1, <3>2, <3>3, <3>4, <3>5
  <2> QED BY <2>3, <2>4
<1> QED BY <1>1, CampaignInvariant, PTL

(* No campaign reports more mismatches than its limit.                     *)
THEOREM CampaignsBounded == Spec => []ReportsBounded
<1>1. CInv => ReportsBounded
  BY DEF CInv, RoomToReport, Limit, ReportsBounded
<1> QED BY <1>1, CampaignInvariant, PTL
=============================================================================
