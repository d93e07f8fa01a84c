----------------------------- MODULE WireProofs ------------------------------
(***************************************************************************)
(* Varints and fields: what the writer writes, the reader reads, wherever  *)
(* it stands in a buffer; and the reader always moves forward, whatever    *)
(* the buffer holds.                                                       *)
(*                                                                         *)
(* EncodeVarint, ReadVarint and Fields are recursive functions.  That they *)
(* satisfy their equations is proved here from partial functions on larger *)
(* and larger domains, and what they compute by looking at a least         *)
(* counterexample, which LeastElement provides.                            *)
(***************************************************************************)
EXTENDS Wire, NaturalsInduction, WellFoundedInduction, SequenceTheorems, TLAPS

Octets == 0..255

\* A set of naturals that is not empty has a least element.
LEMMA LeastElement ==
    ASSUME NEW T \in SUBSET Nat, T # {}
    PROVE  \E x \in T : \A y \in T : x <= y
  <1>1. PICK x \in T : \A y \in T : ~(<<y, x>> \in OpToRel(<, Nat))
    <2>1. T \subseteq Nat
      OBVIOUS
    <2> QED BY <2>1, NatLessThanWellFounded, WFMin
  <1>2. \A y \in T : ~(y < x)
    BY <1>1 DEF OpToRel
  <1> QED BY <1>2

\* EncodeVarint's equation
EncodesUpTo(f, n) ==
    \A v \in 0..n : f[v] = IF v < 128 THEN <<v>> ELSE <<128 + (v % 128)>> \o f[v \div 128]

Approx(n) == {f \in [0..n -> Seq(Octets)] : EncodesUpTo(f, n)}

\* What the rest of a varint encodes is smaller.
LEMMA DivSmaller ==
    \A v \in Nat : v >= 128 => v \div 128 \in Nat /\ v \div 128 < v
                               /\ v % 128 \in 0..127 /\ v = 128 * (v \div 128) + (v % 128)
  OBVIOUS

\* Two partial encoders agree where both are defined.
LEMMA ApproxUnique ==
    ASSUME NEW m \in Nat, NEW n \in Nat, NEW f \in Approx(m), NEW g \in Approx(n)
    PROVE  \A v \in Nat : v <= m /\ v <= n => f[v] = g[v]
  <1> DEFINE T == {v \in Nat : v <= m /\ v <= n /\ f[v] # g[v]}
  <1> SUFFICES ASSUME T # {} PROVE FALSE
    OBVIOUS
  <1>1. PICK x \in T : \A y \in T : x <= y
    BY LeastElement
  <1>2. \A y \in Nat : y < x => f[y] = g[y]
    BY <1>1
  <1>3. x \in 0..m /\ x \in 0..n /\ f[x] # g[x]
    BY <1>1
  <1>4. EncodesUpTo(f, m) /\ EncodesUpTo(g, n)
    BY DEF Approx
  <1>5. CASE x < 128
    <2>1. f[x] = <<x>> /\ g[x] = <<x>>
      BY <1>3, <1>4, <1>5, ZenonT(60) DEF EncodesUpTo
    <2> QED BY <1>3, <2>1
  <1>6. CASE x >= 128
    <2>1. f[x \div 128] = g[x \div 128]
      BY <1>1, <1>2, <1>6, DivSmaller
    <2>2. /\ f[x] = <<128 + (x % 128)>> \o f[x \div 128]
          /\ g[x] = <<128 + (x % 128)>> \o g[x \div 128]
      BY <1>3, <1>4, <1>6, ZenonT(60) DEF EncodesUpTo
    <2> QED BY <1>3, <2>1, <2>2
  <1> QED BY <1>3, <1>5, <1>6

\* There are encoders of any finite set 0..n.
LEMMA ApproxExists == \A n \in Nat : Approx(n) # {}
  <1> DEFINE T == {n \in Nat : Approx(n) = {}}
  <1> SUFFICES ASSUME T # {} PROVE FALSE
    OBVIOUS
  <1>1. PICK n \in T : \A y \in T : n <= y
    BY LeastElement
  <1>2. \A k \in Nat : k < n => \E f : f \in Approx(k)
    BY <1>1
  <1>3. n \in Nat /\ Approx(n) = {}
    BY <1>1
  <1> DEFINE E(f, v) == IF v < 128 THEN <<v>> ELSE <<128 + (v % 128)>> \o f[v \div 128]
  <1>4. CASE n = 0
    <2> DEFINE g == [v \in 0..0 |-> <<v>>]
    <2>1. g \in [0..0 -> Seq(Octets)]
      BY DEF Octets
    <2>2. EncodesUpTo(g, 0)
      BY DEF EncodesUpTo
    <2> QED BY <1>3, <1>4, <2>1, <2>2 DEF Approx
  <1>5. CASE n > 0
    <2>1. n - 1 \in Nat /\ n - 1 < n
      BY <1>3, <1>5
    <2>2. PICK f : f \in Approx(n - 1)
      BY <1>2, <2>1
    <2>3. f \in [0..(n - 1) -> Seq(Octets)] /\ EncodesUpTo(f, n - 1)
      BY <2>2 DEF Approx
    <2> DEFINE g == [v \in 0..n |-> E(f, v)]
    <2>4. \A v \in 0..n : E(f, v) \in Seq(Octets)
      <3> TAKE v \in 0..n
      <3>1. CASE v < 128
        <4>1. v \in Octets
          BY <1>3, <3>1 DEF Octets
        <4> QED BY <3>1, <4>1
      <3>2. CASE v >= 128
        <4>1. v \in Nat /\ v \div 128 \in 0..(n - 1) /\ 128 + (v % 128) \in Octets
          BY <1>3, <3>2, DivSmaller DEF Octets
        <4>2. f[v \div 128] \in Seq(Octets) /\ <<128 + (v % 128)>> \in Seq(Octets)
          BY <2>3, <4>1
        <4>3. <<128 + (v % 128)>> \o f[v \div 128] \in Seq(Octets)
          BY <4>2, ConcatProperties
        <4> QED BY <1>3, <3>2, <4>1, <4>3
      <3> QED BY <1>3, <3>1, <3>2
    <2>5. g \in [0..n -> Seq(Octets)]
      BY <2>4
    <2>6. \A v \in 0..(n - 1) : g[v] = f[v]
      <3> TAKE v \in 0..(n - 1)
      <3>1. v \in 0..n
        BY <1>3
      <3>2. f[v] = E(f, v)
        BY <2>3 DEF EncodesUpTo
      <3>3. g[v] = E(f, v)
        BY <3>1
      <3> QED BY <3>2, <3>3
    <2>7. EncodesUpTo(g, n)
      <3> SUFFICES ASSUME NEW v \in 0..n
                   PROVE  g[v] = E(g, v)
        BY DEF EncodesUpTo
      <3>1. v >= 128 => v \div 128 \in 0..(n - 1)
        BY <1>3, DivSmaller
      <3>2. v >= 128 => g[v \div 128] = f[v \div 128]
        BY <2>6, <3>1
      <3>3. g[v] = E(f, v)
        OBVIOUS
      <3>4. v \in Nat
        BY <1>3
      <3> QED BY <3>2, <3>3, <3>4
    <2> QED BY <1>3, <2>5, <2>7 DEF Approx
  <1> QED BY <1>3, <1>4, <1>5

\* EncodeVarint is what its recursive definition says, and makes bytes.
LEMMA VarintEquation ==
    /\ EncodeVarint \in [Nat -> Seq(Octets)]
    /\ \A v \in Nat : EncodeVarint[v] =
          IF v < 128 THEN <<v>> ELSE <<128 + (v % 128)>> \o EncodeVarint[v \div 128]
  <1> DEFINE E(f, v) == IF v < 128 THEN <<v>> ELSE <<128 + (v % 128)>> \o f[v \div 128]
             A(n) == CHOOSE f : f \in Approx(n)
             F == [v \in Nat |-> A(v)[v]]
  <1>1. \A n \in Nat : A(n) \in Approx(n)
    BY ApproxExists, Zenon
  <1>2. F \in [Nat -> Seq(Octets)]
    <2>1. \A v \in Nat : A(v)[v] \in Seq(Octets)
      <3> TAKE v \in Nat
      <3>1. A(v) \in Approx(v)
        BY <1>1
      <3> HIDE DEF A
      <3>2. A(v) \in [0..v -> Seq(Octets)] /\ v \in 0..v
        BY <3>1 DEF Approx
      <3> QED BY <3>2
    <2> HIDE DEF A
    <2> QED BY <2>1
  <1>3. \A v \in Nat : F[v] = E(F, v)
    <2> TAKE v \in Nat
    <2>1. F[v] = A(v)[v] /\ v \in 0..v
      OBVIOUS
    <2>2. A(v)[v] = E(A(v), v)
      <3>1. EncodesUpTo(A(v), v)
        BY <1>1 DEF Approx
      <3> HIDE DEF A
      <3> QED BY <2>1, <3>1 DEF EncodesUpTo
    <2>3. v >= 128 => A(v)[v \div 128] = F[v \div 128]
      <3> SUFFICES ASSUME v >= 128 PROVE A(v)[v \div 128] = F[v \div 128]
        OBVIOUS
      <3>1. v \div 128 \in Nat /\ v \div 128 <= v
        BY DivSmaller
      <3>2. A(v) \in Approx(v) /\ A(v \div 128) \in Approx(v \div 128)
        BY <1>1, <3>1
      <3>3. F[v \div 128] = A(v \div 128)[v \div 128]
        BY <3>1
      <3> HIDE DEF A, F
      <3>4. A(v)[v \div 128] = A(v \div 128)[v \div 128]
        BY <3>1, <3>2, ApproxUnique
      <3> QED BY <3>3, <3>4
    <2> HIDE DEF A, F
    <2> QED BY <2>1, <2>2, <2>3
  <1>4. F = [v \in Nat |-> E(F, v)]
    <2> HIDE DEF F
    <2> QED BY <1>2, <1>3
  <1>5. EncodeVarint = CHOOSE f : f = [v \in Nat |-> E(f, v)]
    BY DEF EncodeVarint
  <1> HIDE DEF F, A
  <1>6. EncodeVarint = [v \in Nat |-> E(EncodeVarint, v)]
    <2> HIDE DEF E
    <2> QED BY <1>4, <1>5, Zenon
  <1>7. \A v \in Nat : EncodeVarint[v] = E(EncodeVarint, v)
    BY <1>6
  <1>8. \A v \in Nat : EncodeVarint[v] \in Seq(Octets)
    <2> DEFINE T == {v \in Nat : EncodeVarint[v] \notin Seq(Octets)}
    <2> SUFFICES ASSUME T # {} PROVE FALSE
      OBVIOUS
    <2>1. PICK x \in T : \A y \in T : x <= y
      BY LeastElement
    <2>2. \A y \in Nat : y < x => EncodeVarint[y] \in Seq(Octets)
      BY <2>1
    <2>3. x \in Nat /\ EncodeVarint[x] = E(EncodeVarint, x)
      BY <1>7, <2>1
    <2>4. CASE x < 128
      <3>1. x \in Octets
        BY <2>3, <2>4 DEF Octets
      <3>2. EncodeVarint[x] = <<x>>
        BY <2>3, <2>4
      <3>3. <<x>> \in Seq(Octets)
        BY <3>1
      <3> QED BY <2>1, <3>2, <3>3
    <2>5. CASE x >= 128
      <3>1. x \div 128 \in Nat /\ x \div 128 < x /\ 128 + (x % 128) \in Octets
        BY <2>3, <2>5, DivSmaller DEF Octets
      <3>2. EncodeVarint[x \div 128] \in Seq(Octets) /\ <<128 + (x % 128)>> \in Seq(Octets)
        BY <2>2, <3>1
      <3>3. <<128 + (x % 128)>> \o EncodeVarint[x \div 128] \in Seq(Octets)
        BY <3>2, ConcatProperties
      <3>4. EncodeVarint[x] = <<128 + (x % 128)>> \o EncodeVarint[x \div 128]
        BY <2>3, <2>5
      <3> QED BY <2>1, <3>3, <3>4
    <2> QED BY <2>3, <2>4, <2>5
  <1>9. EncodeVarint \in [Nat -> Seq(Octets)]
    BY <1>6, <1>8
  <1> QED BY <1>7, <1>9

\* The two cases of the definition.
LEMMA VarintCases ==
    ASSUME NEW v \in Nat
    PROVE  /\ EncodeVarint[v] \in Seq(Octets)
           /\ v < 128 => EncodeVarint[v] = <<v>>
           /\ v >= 128 => EncodeVarint[v] = <<128 + (v % 128)>> \o EncodeVarint[v \div 128]
  <1>1. /\ EncodeVarint[v] \in Seq(Octets)
        /\ EncodeVarint[v] =
              IF v < 128 THEN <<v>> ELSE <<128 + (v % 128)>> \o EncodeVarint[v \div 128]
    BY VarintEquation
  <1>2. CASE v < 128
    <2>1. ~(v >= 128)
      BY <1>2
    <2> QED BY <1>1, <1>2, <2>1
  <1>3. CASE v >= 128
    <2>1. ~(v < 128)
      BY <1>3
    <2>2. EncodeVarint[v] = <<128 + (v % 128)>> \o EncodeVarint[v \div 128]
      BY <1>1, <2>1
    <2> QED BY <1>1, <2>1, <2>2
  <1> QED BY <1>2, <1>3

\* The bytes of a varint: all but the last have the high bit.
VarintShape(q) ==
    /\ q \in Seq(Octets) /\ Len(q) >= 1 /\ q[Len(q)] < 128
    /\ \A j \in 1..(Len(q) - 1) : q[j] >= 128

\* Every varint has that shape.
LEMMA EncodedShape == \A v \in Nat : VarintShape(EncodeVarint[v])
  <1> DEFINE T == {v \in Nat : ~VarintShape(EncodeVarint[v])}
  <1> SUFFICES ASSUME T # {} PROVE FALSE
    OBVIOUS
  <1>1. PICK x \in T : \A y \in T : x <= y
    BY LeastElement
  <1>2. \A y \in Nat : y < x => VarintShape(EncodeVarint[y])
    BY <1>1
  <1>3. x \in Nat /\ ~VarintShape(EncodeVarint[x]) /\ EncodeVarint[x] \in Seq(Octets)
    BY <1>1, VarintEquation
  <1>4. CASE x < 128
    <2>1. EncodeVarint[x] = <<x>>
      BY <1>3, <1>4, VarintCases
    <2> QED BY <1>3, <1>4, <2>1 DEF VarintShape
  <1>5. CASE x >= 128
    <2> DEFINE b == 128 + (x % 128)
               q == EncodeVarint[x \div 128]
    <2>1. x \div 128 \in Nat /\ x \div 128 < x /\ b \in Octets /\ b >= 128
      BY <1>3, <1>5, DivSmaller DEF Octets
    <2>2. EncodeVarint[x] = <<b>> \o q /\ VarintShape(q)
      BY <1>2, <1>3, <1>5, <2>1, VarintCases
    <2> HIDE DEF b, q
    <2>3. <<b>> \in Seq(Octets) /\ Len(<<b>>) = 1 /\ <<b>>[1] = b
      BY <2>1
    <2>4. q \in Seq(Octets) /\ Len(q) \in Nat /\ Len(q) >= 1
      BY <2>2, LenProperties DEF VarintShape
    <2>5. /\ <<b>> \o q \in Seq(Octets) /\ Len(<<b>> \o q) = 1 + Len(q)
          /\ \A j \in 1..(1 + Len(q)) : (<<b>> \o q)[j] = IF j <= 1 THEN <<b>>[j] ELSE q[j - 1]
      BY <2>3, <2>4, ConcatProperties
    <2>6. VarintShape(<<b>> \o q)
      <3>1. (<<b>> \o q)[1 + Len(q)] < 128
        BY <2>2, <2>4, <2>5 DEF VarintShape
      <3>2. ASSUME NEW j \in 1..Len(q) PROVE (<<b>> \o q)[j] >= 128
        <4>1. CASE j = 1
          BY <2>1, <2>3, <2>4, <2>5, <4>1
        <4>2. CASE j > 1
          <5>1. (<<b>> \o q)[j] = q[j - 1] /\ j - 1 \in 1..(Len(q) - 1)
            BY <2>4, <2>5, <4>2
          <5> QED BY <2>2, <5>1 DEF VarintShape
        <4> QED BY <2>4, <4>1, <4>2
      <3> QED BY <2>4, <2>5, <3>1, <3>2 DEF VarintShape
    <2> QED BY <1>3, <2>2, <2>6
  <1> QED BY <1>3, <1>4, <1>5

\* q is found in buf from position i on.
StandsAt(q, buf, i) ==
    /\ i \in Nat \ {0} /\ buf \in Seq(Octets) /\ i + Len(q) - 1 <= Len(buf)
    /\ \A j \in 1..Len(q) : buf[i + j - 1] = q[j]

\* f sums up the bytes of buf up to end, the least significant first.
SumsUp(f, buf, end) ==
    \A k \in Nat : f[k] = IF k > end THEN 0 ELSE (buf[k] % 128) + 128 * f[k + 1]

\* A varint has at most one end: the first byte without the high bit.
LEMMA OneEnd ==
    ASSUME NEW buf \in Seq(Octets), NEW i \in Nat \ {0}, NEW e \in VarintEnds(buf, i)
    PROVE  VarintEnds(buf, i) = {e} /\ e \in i..Len(buf)
  <1>1. Len(buf) \in Nat /\ e \in i..Len(buf)
    BY LenProperties DEF VarintEnds
  <1>2. \A k \in i..Len(buf) : ~(buf[k] >= 128 /\ buf[k] < 128)
    <2> TAKE k \in i..Len(buf)
    <2>1. k \in 1..Len(buf)
      BY <1>1
    <2>2. buf[k] \in 0..255
      BY <2>1, ElementOfSeq DEF Octets
    <2>3. \A z \in 0..255 : ~(z >= 128 /\ z < 128)
      OBVIOUS
    <2> QED BY <2>2, <2>3
  <1>3. ASSUME NEW x \in VarintEnds(buf, i), NEW y \in VarintEnds(buf, i), x < y PROVE FALSE
    <2>1. x \in i..Len(buf) /\ buf[x] < 128 /\ y \in i..Len(buf)
      BY DEF VarintEnds
    <2>2. x \in i..(y - 1)
      BY <1>1, <1>3, <2>1
    <2>3. buf[x] >= 128
      BY <2>2 DEF VarintEnds
    <2> QED BY <1>2, <2>1, <2>3
  <1>4. ASSUME NEW j \in VarintEnds(buf, i) PROVE j = e
    <2>1. j \in Int /\ e \in Int
      BY <1>1 DEF VarintEnds
    <2> QED BY <1>3, <2>1
  <1> QED BY <1>1, <1>4

\* The reader finds the end of a varint at its last byte.
LEMMA EndFound ==
    ASSUME NEW q, VarintShape(q), NEW buf, NEW i, StandsAt(q, buf, i),
           7 * (Len(q) - 1) <= MaxShift
    PROVE  i + Len(q) - 1 \in VarintEnds(buf, i)
  <1>1. Len(q) \in Nat \ {0} /\ Len(buf) \in Nat /\ i \in Nat \ {0}
    BY LenProperties DEF VarintShape, StandsAt
  <1> DEFINE e == i + Len(q) - 1
  <1>2. \A k \in i..e : k - i + 1 \in 1..Len(q) /\ buf[k] = q[k - i + 1]
    <2> TAKE k \in i..e
    <2>1. k - i + 1 \in 1..Len(q) /\ i + (k - i + 1) - 1 = k
      BY <1>1
    <2> QED BY <2>1 DEF StandsAt
  <1>3. buf[e] < 128 /\ e \in i..Len(buf)
    <2>1. e \in i..e /\ e - i + 1 = Len(q)
      BY <1>1
    <2> QED BY <1>1, <1>2, <2>1 DEF VarintShape, StandsAt
  <1>4. \A k \in i..(e - 1) : buf[k] >= 128
    <2> TAKE k \in i..(e - 1)
    <2>1. k - i + 1 \in 1..(Len(q) - 1) /\ k \in i..e
      BY <1>1
    <2> QED BY <1>2, <2>1 DEF VarintShape
  <1> QED BY <1>1, <1>3, <1>4, WidthAssumption DEF VarintEnds, WidthAssumption

\* Summing up an encoded number gives the number.
LEMMA SumIsNumber ==
    ASSUME NEW f, NEW buf, NEW end \in Nat, SumsUp(f, buf, end)
    PROVE  \A v \in Nat : \A i \in Nat \ {0} :
             StandsAt(EncodeVarint[v], buf, i) /\ end = i + Len(EncodeVarint[v]) - 1
               => f[i] = v
  <1> DEFINE T == {v \in Nat : \E i \in Nat \ {0} :
                     /\ StandsAt(EncodeVarint[v], buf, i) /\ end = i + Len(EncodeVarint[v]) - 1
                     /\ f[i] # v}
  <1> SUFFICES ASSUME T # {} PROVE FALSE
    OBVIOUS
  <1>1. PICK x \in T : \A y \in T : x <= y
    BY LeastElement
  <1>2. \A y \in Nat : y < x => y \notin T
    BY <1>1
  <1>3. PICK i \in Nat \ {0} :
          /\ StandsAt(EncodeVarint[x], buf, i) /\ end = i + Len(EncodeVarint[x]) - 1
          /\ f[i] # x
    BY <1>1
  <1>4. x \in Nat
    BY <1>1
  <1>5. CASE x < 128
    <2>1. EncodeVarint[x] = <<x>> /\ Len(<<x>>) = 1 /\ <<x>>[1] = x
      BY <1>4, <1>5, VarintCases
    <2>2. end = i /\ buf[i] = x
      <3>1. buf[i + 1 - 1] = <<x>>[1]
        BY <1>3, <2>1 DEF StandsAt
      <3> QED BY <1>3, <2>1, <3>1
    <2>3. f[i] = (x % 128) + 128 * f[i + 1] /\ f[i + 1] = 0
      BY <2>2 DEF SumsUp
    <2> QED BY <1>3, <1>4, <1>5, <2>3
  <1>6. CASE x >= 128
    <2> DEFINE b == 128 + (x % 128)
               w == x \div 128
               q == EncodeVarint[w]
    <2>1. w \in Nat /\ w < x /\ x % 128 \in 0..127 /\ x = 128 * w + (x % 128)
      BY <1>4, <1>6, DivSmaller
    <2>2. EncodeVarint[x] = <<b>> \o q /\ q \in Seq(Octets) /\ b \in Octets
      <3>1. b \in Octets
        BY <2>1 DEF Octets
      <3> QED BY <1>4, <1>6, <2>1, <3>1, VarintCases, ZenonT(60)
    <2>3. VarintShape(q)
      BY <2>1, EncodedShape
    <2> HIDE DEF q
    <2>4. /\ Len(q) \in Nat /\ Len(q) >= 1 /\ Len(<<b>> \o q) = 1 + Len(q)
          /\ (<<b>> \o q)[1] = b
          /\ \A j \in 1..Len(q) : (<<b>> \o q)[j + 1] = q[j]
      <3> HIDE DEF b
      <3>1. <<b>> \in Seq(Octets) /\ Len(<<b>>) = 1 /\ <<b>>[1] = b
        BY <2>2
      <3>2. Len(q) \in Nat /\ Len(q) >= 1
        BY <2>2, <2>3, LenProperties DEF VarintShape
      <3>3. /\ Len(<<b>> \o q) = 1 + Len(q)
            /\ \A j \in 1..(1 + Len(q)) : (<<b>> \o q)[j] = IF j <= 1 THEN <<b>>[j] ELSE q[j - 1]
        BY <2>2, <3>1, ConcatProperties
      <3> QED BY <3>1, <3>2, <3>3
    <2>5. buf[i] = b
      <3>1. buf[i + 1 - 1] = (<<b>> \o q)[1]
        BY <1>3, <2>2, <2>4 DEF StandsAt
      <3> QED BY <2>4, <3>1
    <2>6. StandsAt(q, buf, i + 1) /\ end = i + 1 + Len(q) - 1
      <3>1. ASSUME NEW j \in 1..Len(q) PROVE buf[i + 1 + j - 1] = q[j]
        <4>1. j + 1 \in 1..(1 + Len(q)) /\ i + (j + 1) - 1 = i + 1 + j - 1
          BY <2>4
        <4>2. buf[i + (j + 1) - 1] = (<<b>> \o q)[j + 1]
          <5>1. \A k \in 1..Len(<<b>> \o q) : buf[i + k - 1] = (<<b>> \o q)[k]
            BY <1>3, <2>2 DEF StandsAt
          <5> QED BY <2>4, <4>1, <5>1
        <4> QED BY <2>4, <4>1, <4>2
      <3> QED BY <1>3, <2>2, <2>4, <3>1 DEF StandsAt
    <2>7. f[i + 1] = w
      <3>1. w \notin T /\ i + 1 \in Nat \ {0}
        BY <1>2, <2>1
      <3>2. StandsAt(EncodeVarint[w], buf, i + 1) /\ end = i + 1 + Len(EncodeVarint[w]) - 1
        BY <2>6 DEF q
      <3> QED BY <2>1, <3>1, <3>2
    <2>8. f[i] = (b % 128) + 128 * f[i + 1]
      BY <2>4, <2>5, <2>6 DEF SumsUp
    <2>9. b % 128 = x % 128
      BY <2>1
    <2> QED BY <1>3, <2>1, <2>7, <2>8, <2>9
  <1> QED BY <1>4, <1>5, <1>6

\* The function by which ReadVarint sums up the bytes exists: it can be built
\* from its end, one byte after the other.
LEMMA SumExists ==
    ASSUME NEW buf, NEW end \in Nat
    PROVE  \E f : f = [k \in Nat |-> f[k]] /\ SumsUp(f, buf, end)
  <1> DEFINE E(f, k) == IF k > end THEN 0 ELSE (buf[k] % 128) + 128 * f[k + 1]
             P(n) == \E g : g = [k \in Nat |-> g[k]] /\ \A k \in Nat : k + n > end => g[k] = E(g, k)
             T == {n \in Nat : ~P(n)}
  <1>1. P(0)
    <2> DEFINE g == [k \in Nat |-> 0]
    <2>1. g = [k \in Nat |-> g[k]] /\ \A k \in Nat : k + 0 > end => g[k] = E(g, k)
      OBVIOUS
    <2> HIDE DEF g, E
    <2> QED BY <2>1
  <1>2. ASSUME NEW n \in Nat, P(n) PROVE P(n + 1)
    <2>1. PICK g : g = [k \in Nat |-> g[k]] /\ \A k \in Nat : k + n > end => g[k] = E(g, k)
      BY <1>2
    <2> DEFINE h == [k \in Nat |-> E(g, k)]
    <2>2. \A k \in Nat : k + n > end => h[k] = g[k]
      <3> HIDE DEF E
      <3> QED BY <2>1
    <2>3. \A k \in Nat : k + (n + 1) > end => h[k] = E(h, k)
      <3> TAKE k \in Nat
      <3> HAVE k + (n + 1) > end
      <3>1. k + 1 \in Nat /\ (k + 1) + n > end
        OBVIOUS
      <3>2. h[k + 1] = g[k + 1]
        BY <2>2, <3>1
      <3>3. h[k] = E(g, k)
        OBVIOUS
      <3> HIDE DEF h
      <3> QED BY <3>2, <3>3
    <2>4. h = [k \in Nat |-> h[k]]
      <3> HIDE DEF E
      <3> QED OBVIOUS
    <2> HIDE DEF h, E
    <2> QED BY <2>3, <2>4
  <1> HIDE DEF P
  <1>3. T = {}
    <2> SUFFICES ASSUME T # {} PROVE FALSE
      OBVIOUS
    <2>1. PICK n \in T : \A m \in T : n <= m
      BY LeastElement
    <2>2. n \in Nat /\ ~P(n) /\ n # 0
      BY <1>1, <2>1
    <2>3. n - 1 \in Nat /\ n - 1 < n /\ (n - 1) + 1 = n
      BY <2>2
    <2>4. P(n - 1)
      BY <2>1, <2>3
    <2> QED BY <1>2, <2>2, <2>3, <2>4
  <1>4. P(end + 1)
    BY <1>3
  <1>5. PICK g : g = [k \in Nat |-> g[k]] /\ \A k \in Nat : k + (end + 1) > end => g[k] = E(g, k)
    BY <1>4 DEF P
  <1>6. \A k \in Nat : g[k] = E(g, k)
    <2> HIDE DEF E
    <2> QED BY <1>5
  <1>7. SumsUp(g, buf, end)
    BY <1>6 DEF SumsUp
  <1> QED BY <1>5, <1>7

\* A varint that ends at e is read as the sum of its bytes.
LEMMA ReadEquation ==
    ASSUME NEW buf \in Seq(Octets), NEW i \in Nat \ {0}, NEW e \in VarintEnds(buf, i)
    PROVE  \E f : /\ SumsUp(f, buf, e)
                  /\ ReadVarint(buf, i) = [ok |-> TRUE, num |-> f[i], next |-> e + 1]
  <1> DEFINE end == Max(VarintEnds(buf, i))
             E(f, k) == IF k > end THEN 0 ELSE (buf[k] % 128) + 128 * f[k + 1]
             value == CHOOSE f : f = [k \in Nat |-> E(f, k)]
  <1>1. VarintEnds(buf, i) = {e} /\ e \in Nat
    <2>1. VarintEnds(buf, i) = {e} /\ e \in i..Len(buf) /\ Len(buf) \in Nat
      BY OneEnd, LenProperties
    <2> QED BY <2>1
  <1>2. end = e
    <2>1. e >= e
      BY <1>1
    <2>2. Max({e}) = e
      BY <2>1, Zenon DEF Max
    <2> QED BY <1>1, <2>2
  <1>3. ReadVarint(buf, i) = [ok |-> TRUE, num |-> value[i], next |-> end + 1]
    BY <1>1, Zenon DEF ReadVarint
  <1> HIDE DEF end
  <1>4. value = [k \in Nat |-> E(value, k)]
    <2>1. \E f : f = [k \in Nat |-> E(f, k)]
      <3>1. PICK f : f = [k \in Nat |-> f[k]] /\ SumsUp(f, buf, end)
        BY <1>1, <1>2, SumExists
      <3>2. \A k \in Nat : f[k] = E(f, k)
        BY <3>1 DEF SumsUp
      <3> HIDE DEF E
      <3>3. f = [k \in Nat |-> E(f, k)]
        BY <3>1, <3>2
      <3> QED BY <3>3, Zenon
    <2> HIDE DEF E
    <2> QED BY <2>1, Zenon
  <1> HIDE DEF value
  <1>5. SumsUp(value, buf, e)
    BY <1>2, <1>4 DEF SumsUp
  <1> QED BY <1>2, <1>3, <1>5

\* A varint that stands at i in a buffer, and is no longer than the reader
\* allows, is read as the number it encodes, up to its last byte.
LEMMA ReadBack ==
    ASSUME NEW v \in Nat, NEW buf, NEW i, StandsAt(EncodeVarint[v], buf, i),
           7 * (Len(EncodeVarint[v]) - 1) <= MaxShift
    PROVE  ReadVarint(buf, i)
             = [ok |-> TRUE, num |-> v, next |-> i + Len(EncodeVarint[v])]
  <1> DEFINE last == i + Len(EncodeVarint[v]) - 1
  <1>1. VarintShape(EncodeVarint[v])
    BY EncodedShape
  <1>2. /\ Len(EncodeVarint[v]) \in Nat \ {0} /\ i \in Nat \ {0} /\ last \in Nat
        /\ buf \in Seq(Octets)
    BY <1>1, LenProperties DEF VarintShape, StandsAt
  <1>3. last \in VarintEnds(buf, i)
    BY <1>1, EndFound
  <1> HIDE DEF last
  <1>4. PICK f : /\ SumsUp(f, buf, last)
                 /\ ReadVarint(buf, i) = [ok |-> TRUE, num |-> f[i], next |-> last + 1]
    BY <1>2, <1>3, ReadEquation
  <1>5. f[i] = v
    BY <1>2, <1>4, SumIsNumber DEF last
  <1>6. last + 1 = i + Len(EncodeVarint[v])
    BY <1>2 DEF last
  <1> QED BY <1>4, <1>5, <1>6

\* The sum of some bytes is a number.
LEMMA SumIsNat ==
    ASSUME NEW f, NEW buf \in Seq(Octets), NEW end \in 1..Len(buf), SumsUp(f, buf, end)
    PROVE  \A k \in 1..end : f[k] \in Nat
  <1> DEFINE T == {n \in Nat : n <= end /\ f[(end + 1) - n] \notin Nat}
  <1>0. Len(buf) \in Nat /\ end \in Nat
    BY LenProperties
  <1>1. T = {}
    <2> SUFFICES ASSUME T # {} PROVE FALSE
      OBVIOUS
    <2>1. PICK n \in T : \A m \in T : n <= m
      BY LeastElement
    <2>2. n \in Nat /\ n <= end /\ f[(end + 1) - n] \notin Nat
      BY <2>1
    <2>3. n # 0
      <3>1. f[end + 1] = 0
        BY <1>0 DEF SumsUp
      <3> QED BY <1>0, <2>2, <3>1
    <2> DEFINE k == (end + 1) - n
    <2>4. k \in 1..end /\ k + 1 = (end + 1) - (n - 1) /\ n - 1 \in Nat /\ n - 1 < n
      BY <1>0, <2>2, <2>3
    <2>5. f[k + 1] \in Nat
      BY <2>1, <2>2, <2>4
    <2>6. buf[k] \in 0..255
      <3>1. k \in 1..Len(buf)
        BY <1>0, <2>4
      <3> QED BY <3>1, ElementOfSeq DEF Octets
    <2>7. f[k] = (buf[k] % 128) + 128 * f[k + 1]
      <3> HIDE DEF k
      <3> QED BY <1>0, <2>4 DEF SumsUp
    <2>8. \A y \in 0..255 : \A z \in Nat : (y % 128) + 128 * z \in Nat
      OBVIOUS
    <2>9. f[k] \in Nat
      <3> HIDE DEF k
      <3> QED BY <2>5, <2>6, <2>7, <2>8, ZenonT(60)
    <2> QED BY <2>2, <2>9
  <1> TAKE k \in 1..end
  <1>2. (end + 1) - k \in Nat /\ (end + 1) - k <= end /\ (end + 1) - ((end + 1) - k) = k
    BY <1>0
  <1> QED BY <1>1, <1>2

\* Reading a varint moves the reader forward, within the buffer.
LEMMA VarintForward ==
    ASSUME NEW buf \in Seq(Octets), NEW i \in Nat \ {0}, ReadVarint(buf, i).ok
    PROVE  /\ ReadVarint(buf, i).num \in Nat /\ ReadVarint(buf, i).next \in Nat
           /\ i < ReadVarint(buf, i).next /\ ReadVarint(buf, i).next <= Len(buf) + 1
  <1>1. VarintEnds(buf, i) # {}
    <2> SUFFICES ASSUME VarintEnds(buf, i) = {} PROVE FALSE
      OBVIOUS
    <2>1. ReadVarint(buf, i) = [ok |-> FALSE, num |-> 0, next |-> i]
      BY Zenon DEF ReadVarint
    <2> QED BY <2>1
  <1>2. PICK e : e \in VarintEnds(buf, i)
    BY <1>1
  <1>3. e \in i..Len(buf) /\ Len(buf) \in Nat /\ i \in 1..e /\ e \in 1..Len(buf)
    BY <1>2, OneEnd, LenProperties
  <1>4. PICK f : /\ SumsUp(f, buf, e)
                 /\ ReadVarint(buf, i) = [ok |-> TRUE, num |-> f[i], next |-> e + 1]
    BY <1>2, ReadEquation
  <1>5. f[i] \in Nat
    BY <1>3, <1>4, SumIsNat
  <1> QED BY <1>3, <1>4, <1>5

(***************************************************************************)
(* How long a varint is                                                    *)
(***************************************************************************)

\* Every number below b takes at most n bytes.
FitsIn(b, n) == \A v \in Nat : v < b => Len(EncodeVarint[v]) <= n

\* One byte more.  This stays folded, since tlapm computes products of numerals
\* in 63 bits.
Times128(b) == 128 * b

\* The sign bit of a 64-bit word, 2^63 = 128^9, and the words.
Five == Times128(Times128(Times128(Times128(128))))
Sign == Times128(Times128(Times128(Times128(Five))))
Word == {v \in Nat : v < 2 * Sign}

\* A byte more carries 128 times as many numbers.
LEMMA ByteMore ==
    ASSUME NEW b \in Nat, NEW n \in Nat \ {0}, FitsIn(b, n)
    PROVE  Times128(b) \in Nat /\ b <= Times128(b) /\ FitsIn(Times128(b), n + 1)
  <1>0. Times128(b) \in Nat /\ b <= Times128(b)
    BY DEF Times128
  <1> SUFFICES ASSUME NEW v \in Nat, v < 128 * b PROVE Len(EncodeVarint[v]) <= n + 1
    BY <1>0 DEF FitsIn, Times128
  <1>1. CASE v < 128
    <2>1. EncodeVarint[v] = <<v>> /\ Len(<<v>>) = 1
      BY <1>1, VarintCases
    <2> QED BY <2>1
  <1>2. CASE v >= 128
    <2> DEFINE w == v \div 128
               q == EncodeVarint[w]
               h == 128 + (v % 128)
    <2>1. w \in Nat /\ w < b /\ h \in Octets
      BY <1>2, DivSmaller DEF Octets
    <2>2. EncodeVarint[v] = <<h>> \o q /\ q \in Seq(Octets)
      BY <1>2, <2>1, VarintCases
    <2>3. Len(q) <= n
      BY <2>1 DEF FitsIn
    <2> HIDE DEF h, q
    <2>4. Len(<<h>> \o q) = 1 + Len(q) /\ Len(q) \in Nat
      BY <2>1, <2>2, LenProperties, ConcatProperties
    <2> QED BY <2>2, <2>3, <2>4
  <1> QED BY <1>1, <1>2

\* A 64-bit word fits into ten bytes.
LEMMA WordFits == Five \in Nat /\ Sign \in Nat /\ Five <= Sign /\ FitsIn(2 * Sign, 10)
  <1>1. FitsIn(128, 1)
    <2> SUFFICES ASSUME NEW v \in Nat, v < 128 PROVE Len(EncodeVarint[v]) <= 1
      BY DEF FitsIn
    <2>1. EncodeVarint[v] = <<v>> /\ Len(<<v>>) = 1
      BY VarintCases
    <2> QED BY <2>1
  <1> DEFINE b2 == Times128(128)
             b3 == Times128(b2)
             b4 == Times128(b3)
             b6 == Times128(Five)
             b7 == Times128(b6)
             b8 == Times128(b7)
             b10 == Times128(Sign)
  <1>2. b2 \in Nat /\ FitsIn(b2, 1 + 1)
    BY <1>1, ByteMore
  <1> HIDE DEF b2
  <1>3. b3 \in Nat /\ FitsIn(b3, 2 + 1)
    BY <1>2, ByteMore
  <1> HIDE DEF b3
  <1>4. b4 \in Nat /\ FitsIn(b4, 3 + 1)
    BY <1>3, ByteMore
  <1> HIDE DEF b4
  <1>5. Five \in Nat /\ FitsIn(Five, 4 + 1)
    BY <1>4, ByteMore DEF Five, b2, b3, b4
  <1>6. b6 \in Nat /\ Five <= b6 /\ FitsIn(b6, 5 + 1)
    BY <1>5, ByteMore
  <1> HIDE DEF b6
  <1>7. b7 \in Nat /\ b6 <= b7 /\ FitsIn(b7, 6 + 1)
    BY <1>6, ByteMore
  <1> HIDE DEF b7
  <1>8. b8 \in Nat /\ b7 <= b8 /\ FitsIn(b8, 7 + 1)
    BY <1>7, ByteMore
  <1> HIDE DEF b8
  <1>9. Sign \in Nat /\ b8 <= Sign /\ FitsIn(Sign, 8 + 1)
    BY <1>8, ByteMore DEF Sign, b6, b7, b8
  <1>10. b10 \in Nat /\ FitsIn(b10, 9 + 1)
    BY <1>9, ByteMore
  <1>11. 2 * Sign <= b10
    BY <1>9 DEF Times128
  <1> HIDE DEF b10
  <1>12. FitsIn(2 * Sign, 10)
    BY <1>9, <1>10, <1>11 DEF FitsIn
  <1> QED BY <1>5, <1>6, <1>7, <1>8, <1>9, <1>12

(***************************************************************************)
(* Pieces of a buffer                                                      *)
(***************************************************************************)

\* What stands at i stands there piece by piece.
LEMMA StandsParts ==
    ASSUME NEW a \in Seq(Octets), NEW b \in Seq(Octets), NEW buf, NEW i,
           StandsAt(a \o b, buf, i)
    PROVE  StandsAt(a, buf, i) /\ StandsAt(b, buf, i + Len(a))
  <1>1. /\ Len(a) \in Nat /\ Len(b) \in Nat /\ Len(a \o b) = Len(a) + Len(b)
        /\ \A j \in 1..(Len(a) + Len(b)) : (a \o b)[j] = IF j <= Len(a) THEN a[j] ELSE b[j - Len(a)]
    BY LenProperties, ConcatProperties
  <1>2. /\ i \in Nat \ {0} /\ buf \in Seq(Octets) /\ i + Len(a) + Len(b) - 1 <= Len(buf)
        /\ \A j \in 1..(Len(a) + Len(b)) : buf[i + j - 1] = (a \o b)[j]
    BY <1>1 DEF StandsAt
  <1>3. Len(buf) \in Nat
    BY <1>2, LenProperties
  <1>4. ASSUME NEW j \in 1..Len(a) PROVE buf[i + j - 1] = a[j]
    <2>1. j \in 1..(Len(a) + Len(b)) /\ j <= Len(a)
      BY <1>1
    <2> QED BY <1>1, <1>2, <2>1
  <1>5. ASSUME NEW j \in 1..Len(b) PROVE buf[(i + Len(a)) + j - 1] = b[j]
    <2>1. /\ Len(a) + j \in 1..(Len(a) + Len(b)) /\ ~(Len(a) + j <= Len(a))
          /\ (Len(a) + j) - Len(a) = j /\ i + (Len(a) + j) - 1 = (i + Len(a)) + j - 1
      BY <1>1, <1>2
    <2>2. buf[i + (Len(a) + j) - 1] = (a \o b)[Len(a) + j]
      BY <1>2, <2>1
    <2>3. (a \o b)[Len(a) + j] = b[(Len(a) + j) - Len(a)]
      BY <1>1, <2>1
    <2> QED BY <2>1, <2>2, <2>3
  <1> QED BY <1>1, <1>2, <1>3, <1>4, <1>5 DEF StandsAt

\* A sequence of bytes stands where it was put.
LEMMA StandsWithin ==
    ASSUME NEW before \in Seq(Octets), NEW q \in Seq(Octets), NEW after \in Seq(Octets)
    PROVE  StandsAt(q, before \o q \o after, Len(before) + 1)
  <1> DEFINE all == before \o q \o after
  <1>1. /\ Len(before) \in Nat /\ Len(q) \in Nat /\ Len(after) \in Nat
        /\ before \o q \in Seq(Octets) /\ Len(before \o q) = Len(before) + Len(q)
        /\ \A j \in 1..(Len(before) + Len(q)) :
             (before \o q)[j] = IF j <= Len(before) THEN before[j] ELSE q[j - Len(before)]
    BY LenProperties, ConcatProperties
  <1>2. /\ all \in Seq(Octets) /\ Len(all) = Len(before) + Len(q) + Len(after)
        /\ \A j \in 1..(Len(before) + Len(q) + Len(after)) :
             all[j] = IF j <= Len(before) + Len(q) THEN (before \o q)[j]
                      ELSE after[j - (Len(before) + Len(q))]
    BY <1>1, ConcatProperties
  <1> HIDE DEF all
  <1>3. ASSUME NEW j \in 1..Len(q) PROVE all[(Len(before) + 1) + j - 1] = q[j]
    <2>1. /\ Len(before) + j \in 1..(Len(before) + Len(q))
          /\ Len(before) + j \in 1..(Len(before) + Len(q) + Len(after))
          /\ Len(before) + j <= Len(before) + Len(q) /\ ~(Len(before) + j <= Len(before))
          /\ (Len(before) + j) - Len(before) = j
          /\ (Len(before) + 1) + j - 1 = Len(before) + j
      BY <1>1
    <2>2. all[Len(before) + j] = (before \o q)[Len(before) + j]
      BY <1>2, <2>1
    <2>3. (before \o q)[Len(before) + j] = q[(Len(before) + j) - Len(before)]
      BY <1>1, <2>1
    <2> QED BY <2>1, <2>2, <2>3
  <1>4. StandsAt(q, all, Len(before) + 1)
    BY <1>1, <1>2, <1>3 DEF StandsAt
  <1> QED BY <1>4 DEF all

\* What stands at i is what is cut out there.
LEMMA StandsCut ==
    ASSUME NEW q \in Seq(Octets), NEW buf, NEW i, StandsAt(q, buf, i)
    PROVE  SubSeq(buf, i, i + Len(q) - 1) = q
  <1>1. /\ i \in Nat \ {0} /\ buf \in Seq(Octets) /\ i + Len(q) - 1 <= Len(buf)
        /\ Len(q) \in Nat /\ Len(buf) \in Nat
        /\ \A j \in 1..Len(q) : buf[i + j - 1] = q[j]
    BY LenProperties DEF StandsAt
  <1> DEFINE s == SubSeq(buf, i, i + Len(q) - 1)
  <1>2. s \in Seq(Octets) /\ Len(s) = Len(q) /\ \A j \in 1..Len(q) : s[j] = buf[i + j - 1]
    BY <1>1
  <1> HIDE DEF s
  <1>3. s = q
    BY <1>1, <1>2, SeqEqual
  <1> QED BY <1>3 DEF s

(***************************************************************************)
(* Fields                                                                  *)
(***************************************************************************)

\* The reader takes a varint as long as v's.
Short(v) == 7 * (Len(EncodeVarint[v]) - 1) <= MaxShift

\* A tag is taken apart into what it was made of.
LEMMA TagParts ==
    \A n \in Nat : \A w \in 0..7 :
        8 * n + w \in Nat /\ (8 * n + w) \div 8 = n /\ (8 * n + w) % 8 = w
  OBVIOUS

\* What the reader makes of a tag and the varint after it.
LEMMA AfterLdTag ==
    ASSUME NEW buf, NEW tag, NEW arg, tag.num % 8 = LD, arg.ok = TRUE,
           arg.next + arg.num <= Len(buf) + 1
    PROVE  ReadAfterTag(buf, tag, arg)
             = [ok |-> TRUE, field |-> tag.num \div 8, wire |-> LD, num |-> 0,
                bytes |-> SubSeq(buf, arg.next, arg.next + arg.num - 1),
                next |-> arg.next + arg.num]
  <1> DEFINE field == [ok |-> TRUE, field |-> tag.num \div 8, wire |-> tag.num % 8,
                  num |-> 0, bytes |-> <<>>, next |-> 0]
  <1>1. field = [ok |-> TRUE, field |-> tag.num \div 8, wire |-> LD, num |-> 0,
                 bytes |-> <<>>, next |-> 0]
    OBVIOUS
  <1>2. field.wire = LD /\ LD # Varint /\ LD # 1 /\ LD # 5
    BY <1>1 DEF LD, Varint
  <1>3. ReadAfterTag(buf, tag, arg)
          = [field EXCEPT !.bytes = SubSeq(buf, arg.next, arg.next + arg.num - 1),
                          !.next = arg.next + arg.num]
    <2> HIDE DEF field
    <2>1. ReadAfterTag(buf, tag, arg) =
          CASE field.wire = Varint /\ arg.ok ->
                [field EXCEPT !.num = arg.num, !.next = arg.next]
          [] field.wire = LD /\ arg.ok /\ arg.next + arg.num <= Len(buf) + 1 ->
                [field EXCEPT !.bytes = SubSeq(buf, arg.next, arg.next + arg.num - 1),
                              !.next = arg.next + arg.num]
          [] field.wire = 1 -> [field EXCEPT !.next = tag.next + 8]
          [] field.wire = 5 -> [field EXCEPT !.next = tag.next + 4]
          [] OTHER          -> Broken
      BY Zenon DEF ReadAfterTag, field
    <2> QED BY <1>2, <2>1
  <1> HIDE DEF field
  <1> QED BY <1>1, <1>3

\* The same for a varint field.
LEMMA AfterVarintTag ==
    ASSUME NEW buf, NEW tag, NEW arg, tag.num % 8 = Varint, arg.ok = TRUE
    PROVE  ReadAfterTag(buf, tag, arg)
             = [ok |-> TRUE, field |-> tag.num \div 8, wire |-> Varint, num |-> arg.num,
                bytes |-> <<>>, next |-> arg.next]
  <1> DEFINE field == [ok |-> TRUE, field |-> tag.num \div 8, wire |-> tag.num % 8,
                       num |-> 0, bytes |-> <<>>, next |-> 0]
  <1>1. field = [ok |-> TRUE, field |-> tag.num \div 8, wire |-> Varint, num |-> 0,
                 bytes |-> <<>>, next |-> 0]
    OBVIOUS
  <1>2. field.wire = Varint /\ Varint # LD /\ Varint # 1 /\ Varint # 5
    BY <1>1 DEF LD, Varint
  <1>3. ReadAfterTag(buf, tag, arg) = [field EXCEPT !.num = arg.num, !.next = arg.next]
    <2> HIDE DEF field
    <2>1. ReadAfterTag(buf, tag, arg) =
          CASE field.wire = Varint /\ arg.ok ->
                [field EXCEPT !.num = arg.num, !.next = arg.next]
          [] field.wire = LD /\ arg.ok /\ arg.next + arg.num <= Len(buf) + 1 ->
                [field EXCEPT !.bytes = SubSeq(buf, arg.next, arg.next + arg.num - 1),
                              !.next = arg.next + arg.num]
          [] field.wire = 1 -> [field EXCEPT !.next = tag.next + 8]
          [] field.wire = 5 -> [field EXCEPT !.next = tag.next + 4]
          [] OTHER          -> Broken
      BY Zenon DEF ReadAfterTag, field
    <2> QED BY <1>2, <2>1
  <1> HIDE DEF field
  <1> QED BY <1>1, <1>3

\* A length-delimited field is read as what it was written from.
LEMMA LdReadBack ==
    ASSUME NEW n \in Nat, NEW p \in Seq(Octets), NEW buf, NEW i,
           StandsAt(LdFieldAlways(n, p), buf, i), Short(8 * n + LD), Short(Len(p))
    PROVE  ReadField(buf, ReadVarint(buf, i))
             = [ok |-> TRUE, field |-> n, wire |-> LD, num |-> 0, bytes |-> p,
                next |-> i + Len(LdFieldAlways(n, p))]
  <1> DEFINE t == EncodeVarint[8 * n + LD]
             l == EncodeVarint[Len(p)]
  <1>1. /\ 8 * n + LD \in Nat /\ (8 * n + LD) \div 8 = n /\ (8 * n + LD) % 8 = LD
        /\ Len(p) \in Nat
    BY TagParts, LenProperties DEF LD
  <1>2. /\ t \in Seq(Octets) /\ l \in Seq(Octets)
        /\ Len(t) \in Nat /\ Len(l) \in Nat
    BY <1>1, VarintCases, LenProperties
  <1>3. /\ t \o l \in Seq(Octets) /\ Len(t \o l) = Len(t) + Len(l)
        /\ Len((t \o l) \o p) = Len(t) + Len(l) + Len(p)
    BY <1>1, <1>2, ConcatProperties
  <1>4. LdFieldAlways(n, p) = (t \o l) \o p
    BY DEF LdFieldAlways, Tag
  <1>5. StandsAt(t \o l, buf, i) /\ StandsAt(p, buf, i + Len(t) + Len(l))
    <2>1. StandsAt(t \o l, buf, i) /\ StandsAt(p, buf, i + Len(t \o l))
      BY <1>3, <1>4, StandsParts
    <2>2. i \in Nat
      BY <2>1 DEF StandsAt
    <2>3. i + Len(t \o l) = i + Len(t) + Len(l)
      <3> HIDE DEF t, l
      <3> QED BY <1>2, <1>3, <2>2
    <2> QED BY <2>1, <2>3
  <1>6. StandsAt(t, buf, i) /\ StandsAt(l, buf, i + Len(t))
    BY <1>2, <1>5, StandsParts
  <1>7. ReadVarint(buf, i) = [ok |-> TRUE, num |-> 8 * n + LD, next |-> i + Len(t)]
    BY <1>1, <1>6, ReadBack DEF Short
  <1>8. ReadVarint(buf, i + Len(t))
          = [ok |-> TRUE, num |-> Len(p), next |-> i + Len(t) + Len(l)]
    BY <1>1, <1>6, ReadBack DEF Short
  <1>9. SubSeq(buf, i + Len(t) + Len(l), i + Len(t) + Len(l) + Len(p) - 1) = p
    BY <1>5, StandsCut
  <1>10. /\ i + Len(t) + Len(l) + Len(p) <= Len(buf) + 1
         /\ i + Len(t) + Len(l) + Len(p) = i + Len(LdFieldAlways(n, p))
    <2>1. /\ i + Len(t) + Len(l) + Len(p) - 1 <= Len(buf) /\ i \in Nat
          /\ Len(buf) \in Nat
      BY <1>5, <1>6, LenProperties DEF StandsAt
    <2> HIDE DEF t, l
    <2> QED BY <1>1, <1>2, <1>3, <1>4, <2>1
  <1> HIDE DEF t, l
  <1> DEFINE tag == [ok |-> TRUE, num |-> 8 * n + LD, next |-> i + Len(t)]
             arg == [ok |-> TRUE, num |-> Len(p), next |-> i + Len(t) + Len(l)]
  <1>11. ReadField(buf, ReadVarint(buf, i)) = ReadAfterTag(buf, tag, arg)
    BY <1>7, <1>8 DEF ReadField
  <1>12. ReadAfterTag(buf, tag, arg)
           = [ok |-> TRUE, field |-> n, wire |-> LD, num |-> 0, bytes |-> p,
              next |-> i + Len(LdFieldAlways(n, p))]
    <2>1. /\ tag.num % 8 = LD /\ tag.num \div 8 = n /\ arg.ok = TRUE
          /\ arg.num = Len(p) /\ arg.next = i + Len(t) + Len(l)
      BY <1>1
    <2>2. arg.next + arg.num <= Len(buf) + 1
      BY <1>10, <2>1
    <2> HIDE DEF tag, arg
    <2>3. ReadAfterTag(buf, tag, arg)
            = [ok |-> TRUE, field |-> tag.num \div 8, wire |-> LD, num |-> 0,
               bytes |-> SubSeq(buf, arg.next, arg.next + arg.num - 1),
               next |-> arg.next + arg.num]
      BY <2>1, <2>2, AfterLdTag
    <2>4. /\ SubSeq(buf, arg.next, arg.next + arg.num - 1) = p
          /\ arg.next + arg.num = i + Len(LdFieldAlways(n, p))
      BY <1>9, <1>10, <2>1
    <2> QED BY <2>1, <2>3, <2>4, Zenon
  <1> QED BY <1>11, <1>12

\* So is a varint field.
LEMMA VarintFieldReadBack ==
    ASSUME NEW n \in Nat, NEW v \in Nat, NEW buf, NEW i,
           StandsAt(Tag(n, Varint) \o EncodeVarint[v], buf, i),
           Short(8 * n + Varint), Short(v)
    PROVE  ReadField(buf, ReadVarint(buf, i))
             = [ok |-> TRUE, field |-> n, wire |-> Varint, num |-> v, bytes |-> <<>>,
                next |-> i + Len(Tag(n, Varint) \o EncodeVarint[v])]
  <1> DEFINE t == EncodeVarint[8 * n + Varint]
             l == EncodeVarint[v]
  <1>1. 8 * n + Varint \in Nat /\ (8 * n + Varint) \div 8 = n /\ (8 * n + Varint) % 8 = Varint
    BY TagParts DEF Varint
  <1>2. /\ t \in Seq(Octets) /\ l \in Seq(Octets) /\ Len(t) \in Nat /\ Len(l) \in Nat
    BY <1>1, VarintCases, LenProperties
  <1>3. Len(t \o l) = Len(t) + Len(l) /\ Tag(n, Varint) \o EncodeVarint[v] = t \o l
    BY <1>2, ConcatProperties DEF Tag
  <1>4. StandsAt(t, buf, i) /\ StandsAt(l, buf, i + Len(t))
    BY <1>2, <1>3, StandsParts
  <1>5. ReadVarint(buf, i) = [ok |-> TRUE, num |-> 8 * n + Varint, next |-> i + Len(t)]
    BY <1>1, <1>4, ReadBack DEF Short
  <1>6. ReadVarint(buf, i + Len(t))
          = [ok |-> TRUE, num |-> v, next |-> i + Len(t) + Len(l)]
    BY <1>1, <1>4, ReadBack DEF Short
  <1>7. i + Len(t) + Len(l) = i + Len(t \o l)
    <2>1. i \in Nat
      BY <1>4 DEF StandsAt
    <2> HIDE DEF t, l
    <2> QED BY <1>2, <1>3, <2>1
  <1> HIDE DEF t, l
  <1> DEFINE tag == [ok |-> TRUE, num |-> 8 * n + Varint, next |-> i + Len(t)]
             arg == [ok |-> TRUE, num |-> v, next |-> i + Len(t) + Len(l)]
  <1>8. ReadField(buf, ReadVarint(buf, i)) = ReadAfterTag(buf, tag, arg)
    BY <1>5, <1>6 DEF ReadField
  <1>9. ReadAfterTag(buf, tag, arg)
           = [ok |-> TRUE, field |-> n, wire |-> Varint, num |-> v, bytes |-> <<>>,
              next |-> i + Len(t \o l)]
    <2>1. tag.num \div 8 = n /\ arg.num = v /\ arg.next = i + Len(t) + Len(l)
      BY <1>1
    <2>2. tag.num % 8 = Varint
      BY <1>1
    <2>3. arg.ok = TRUE
      OBVIOUS
    <2> HIDE DEF tag, arg
    <2>4. ReadAfterTag(buf, tag, arg)
            = [ok |-> TRUE, field |-> tag.num \div 8, wire |-> Varint, num |-> arg.num,
               bytes |-> <<>>, next |-> arg.next]
      BY <2>2, <2>3, AfterVarintTag, ZenonT(60) DEF Varint
    <2> QED BY <1>7, <2>1, <2>4, Zenon
  <1> QED BY <1>3, <1>8, <1>9

\* The decoders' loop `while not r.done()` makes progress: reading any field
\* moves the reader forward, whatever bytes there are.
THEOREM FieldForward ==
    ASSUME NEW buf \in Seq(Octets), NEW i \in Nat \ {0},
           ReadField(buf, ReadVarint(buf, i)).ok
    PROVE  /\ ReadField(buf, ReadVarint(buf, i)).next \in Nat
           /\ i < ReadField(buf, ReadVarint(buf, i)).next
  <1> DEFINE tag == ReadVarint(buf, i)
             arg == ReadVarint(buf, tag.next)
             r == ReadField(buf, tag)
  <1>1. tag.ok
    <2> SUFFICES ASSUME ~tag.ok PROVE FALSE
      OBVIOUS
    <2> HIDE DEF tag
    <2>1. r = Broken
      BY DEF ReadField
    <2> QED BY <2>1 DEF Broken, tag
  <1>2. tag.num \in Nat /\ tag.next \in Nat \ {0} /\ i < tag.next
    <2>1. tag.num \in Nat /\ tag.next \in Nat /\ i < tag.next
      BY <1>1, VarintForward
    <2> HIDE DEF tag
    <2> QED BY <2>1
  <1>3. arg.ok => arg.num \in Nat /\ arg.next \in Nat /\ tag.next < arg.next
    BY <1>2, VarintForward
  <1>4. r = ReadAfterTag(buf, tag, arg)
    BY <1>1, Zenon DEF ReadField
  <1>5. r.ok
    OBVIOUS
  <1> HIDE DEF tag, arg, r
  <1> DEFINE field == [ok |-> TRUE, field |-> tag.num \div 8, wire |-> tag.num % 8,
                       num |-> 0, bytes |-> <<>>, next |-> 0]
  <1>6. r = CASE field.wire = Varint /\ arg.ok ->
                [field EXCEPT !.num = arg.num, !.next = arg.next]
          [] field.wire = LD /\ arg.ok /\ arg.next + arg.num <= Len(buf) + 1 ->
                [field EXCEPT !.bytes = SubSeq(buf, arg.next, arg.next + arg.num - 1),
                              !.next = arg.next + arg.num]
          [] field.wire = 1 -> [field EXCEPT !.next = tag.next + 8]
          [] field.wire = 5 -> [field EXCEPT !.next = tag.next + 4]
          [] OTHER          -> Broken
    BY <1>4, Zenon DEF ReadAfterTag
  <1>7. DOMAIN field = {"ok", "field", "wire", "num", "bytes", "next"}
    OBVIOUS
  <1> HIDE DEF field
  <1>8. CASE field.wire = Varint /\ arg.ok
    <2>1. r = [field EXCEPT !.num = arg.num, !.next = arg.next]
      BY <1>6, <1>8 DEF Varint, LD
    <2>2. r.next = arg.next
      BY <1>7, <2>1
    <2> QED BY <1>2, <1>3, <1>8, <2>2 DEF r, tag
  <1>9. CASE field.wire = LD /\ arg.ok /\ arg.next + arg.num <= Len(buf) + 1
    <2>1. r = [field EXCEPT !.bytes = SubSeq(buf, arg.next, arg.next + arg.num - 1),
                            !.next = arg.next + arg.num]
      BY <1>6, <1>9 DEF Varint, LD
    <2>2. r.next = arg.next + arg.num
      BY <1>7, <2>1
    <2> QED BY <1>2, <1>3, <1>9, <2>2 DEF r, tag
  <1>10. CASE field.wire = 1
    <2>1. r = [field EXCEPT !.next = tag.next + 8]
      BY <1>6, <1>10 DEF Varint, LD
    <2>2. r.next = tag.next + 8
      BY <1>7, <2>1
    <2> QED BY <1>2, <2>2 DEF r, tag
  <1>11. CASE field.wire = 5
    <2>1. r = [field EXCEPT !.next = tag.next + 4]
      BY <1>6, <1>11 DEF Varint, LD
    <2>2. r.next = tag.next + 4
      BY <1>7, <2>1
    <2> QED BY <1>2, <2>2 DEF r, tag
  <1>12. CASE /\ ~(field.wire = Varint /\ arg.ok)
              /\ ~(field.wire = LD /\ arg.ok /\ arg.next + arg.num <= Len(buf) + 1)
              /\ field.wire # 1 /\ field.wire # 5
    <2>1. r = Broken
      BY <1>6, <1>12
    <2> QED BY <1>5, <2>1 DEF Broken
  <1> QED BY <1>8, <1>9, <1>10, <1>11, <1>12

(***************************************************************************)
(* Messages                                                                *)
(***************************************************************************)

\* The field that is read at i.
FieldAt(buf, i) == ReadField(buf, ReadVarint(buf, i))

\* f gives the fields from every position on.
Parsing(f, buf) ==
    \A i \in Nat \ {0} :
        f[i] = IF i > Len(buf) THEN <<>>
               ELSE <<FieldAt(buf, i)>>
                      \o (IF FieldAt(buf, i).ok THEN f[FieldAt(buf, i).next] ELSE <<>>)

\* There is such a function for every buffer, because the reader moves forward.
LEMMA ParsingExists ==
    ASSUME NEW buf \in Seq(Octets)
    PROVE  \E f : f = [i \in Nat \ {0} |-> f[i]] /\ Parsing(f, buf)
  <1> DEFINE P == Nat \ {0}
             E(f, i) == IF i > Len(buf) THEN <<>>
                        ELSE <<FieldAt(buf, i)>>
                               \o (IF FieldAt(buf, i).ok THEN f[FieldAt(buf, i).next] ELSE <<>>)
             D(n) == \E g : g = [i \in P |-> g[i]] /\ \A i \in P : i + n > Len(buf) => g[i] = E(g, i)
             T == {n \in Nat : ~D(n)}
  <1>0. Len(buf) \in Nat
    BY LenProperties
  <1>1. D(0)
    <2> DEFINE g == [i \in P |-> <<>>]
    <2>1. \A i \in P : i + 0 > Len(buf) => g[i] = E(g, i)
      BY <1>0
    <2>2. g = [i \in P |-> g[i]]
      OBVIOUS
    <2> HIDE DEF g, E
    <2> QED BY <2>1, <2>2
  <1>2. ASSUME NEW n \in Nat, D(n) PROVE D(n + 1)
    <2>1. PICK g : g = [i \in P |-> g[i]] /\ \A i \in P : i + n > Len(buf) => g[i] = E(g, i)
      BY <1>2
    <2> DEFINE h == [i \in P |-> E(g, i)]
    <2>2. \A i \in P : i + n > Len(buf) => h[i] = g[i]
      <3> HIDE DEF E
      <3> QED BY <2>1
    <2>3. ASSUME NEW i \in P, i + (n + 1) > Len(buf) PROVE h[i] = E(h, i)
      <3>1. h[i] = E(g, i)
        OBVIOUS
      <3>2. FieldAt(buf, i).ok => h[FieldAt(buf, i).next] = g[FieldAt(buf, i).next]
        <4> SUFFICES ASSUME FieldAt(buf, i).ok
                     PROVE  h[FieldAt(buf, i).next] = g[FieldAt(buf, i).next]
          OBVIOUS
        <4> DEFINE m == FieldAt(buf, i).next
        <4>1. m \in Nat /\ i < m
          BY FieldForward DEF FieldAt
        <4> HIDE DEF m, h
        <4>2. m \in P /\ m + n > Len(buf)
          BY <1>0, <2>3, <4>1
        <4>3. h[m] = g[m]
          BY <2>2, <4>2
        <4> QED BY <4>3 DEF m
      <3> HIDE DEF h
      <3> QED BY <3>1, <3>2
    <2>4. h = [i \in P |-> h[i]]
      <3> HIDE DEF E
      <3> QED OBVIOUS
    <2> HIDE DEF h, E
    <2> QED BY <2>3, <2>4
  <1> HIDE DEF D
  <1>3. T = {}
    <2> SUFFICES ASSUME T # {} PROVE FALSE
      OBVIOUS
    <2>1. PICK n \in T : \A m \in T : n <= m
      BY LeastElement
    <2>2. n \in Nat /\ ~D(n) /\ n # 0
      BY <1>1, <2>1
    <2>3. n - 1 \in Nat /\ n - 1 < n /\ (n - 1) + 1 = n
      BY <2>2
    <2>4. D(n - 1)
      BY <2>1, <2>3
    <2> QED BY <1>2, <2>2, <2>3, <2>4
  <1>4. D(Len(buf))
    BY <1>0, <1>3
  <1>5. PICK g : g = [i \in P |-> g[i]] /\ \A i \in P : i + Len(buf) > Len(buf) => g[i] = E(g, i)
    BY <1>4 DEF D
  <1>6. \A i \in P : g[i] = E(g, i)
    <2> HIDE DEF E
    <2> QED BY <1>0, <1>5
  <1>7. Parsing(g, buf)
    BY <1>6, Zenon DEF Parsing
  <1> QED BY <1>5, <1>7

\* Fields() is the result of such a function: the decoders end, with a list of
\* fields, on every buffer.
THEOREM FieldsParsed ==
    ASSUME NEW buf \in Seq(Octets)
    PROVE  \E f : Parsing(f, buf) /\ Fields(buf) = f[1]
  <1> DEFINE E(g, i) == IF i > Len(buf) THEN <<>>
                        ELSE LET f == ReadField(buf, ReadVarint(buf, i))
                             IN  <<f>> \o (IF f.ok THEN g[f.next] ELSE <<>>)
             parse == CHOOSE g : g = [i \in Nat \ {0} |-> E(g, i)]
  <1>1. Fields(buf) = parse[1]
    BY Zenon DEF Fields
  <1>2. PICK g : g = [i \in Nat \ {0} |-> g[i]] /\ Parsing(g, buf)
    BY ParsingExists
  <1>3. \A i \in Nat \ {0} : g[i] = E(g, i)
    BY <1>2, Zenon DEF Parsing, FieldAt
  <1>4. g = [i \in Nat \ {0} |-> E(g, i)]
    <2> HIDE DEF E
    <2> QED BY <1>2, <1>3
  <1>5. parse = [i \in Nat \ {0} |-> E(parse, i)]
    <2> HIDE DEF E
    <2> QED BY <1>4, Zenon
  <1> HIDE DEF parse
  <1>6. \A i \in Nat \ {0} : parse[i] = E(parse, i)
    <2> HIDE DEF E
    <2> QED BY <1>5
  <1>7. Parsing(parse, buf)
    BY <1>6, Zenon DEF Parsing, FieldAt
  <1> QED BY <1>1, <1>7

\* encode_varint() and read_varint(): every 64-bit word is read back, wherever
\* its varint stands and whatever follows it, by a reader that accepts shifts
\* up to 63.
THEOREM VarintRoundTrip ==
    ASSUME MaxShift >= 63, NEW v \in Word,
           NEW before \in Seq(Octets), NEW after \in Seq(Octets)
    PROVE  ReadVarint(before \o EncodeVarint[v] \o after, Len(before) + 1)
             = [ok |-> TRUE, num |-> v, next |-> Len(before) + 1 + Len(EncodeVarint[v])]
  <1> DEFINE q == EncodeVarint[v]
  <1>1. v \in Nat /\ v < 2 * Sign
    BY DEF Word
  <1>2. q \in Seq(Octets) /\ Len(q) \in Nat /\ Len(q) <= 10
    BY <1>1, VarintCases, WordFits, LenProperties DEF FitsIn
  <1>3. StandsAt(q, before \o q \o after, Len(before) + 1)
    BY <1>2, StandsWithin
  <1>4. 7 * (Len(q) - 1) <= MaxShift
    BY <1>2, WidthAssumption
  <1> QED BY <1>1, <1>3, <1>4, ReadBack
=============================================================================
