----------------------------- MODULE CodecProofs -----------------------------
(***************************************************************************)
(* Requests and responses: the server reads from the bytes of              *)
(* encode_request() the call they were made of (RequestRoundTrip), and     *)
(* decode_response() finds in the bytes of a response what was put there,  *)
(* whatever a later version of the protocol adds to them, and nothing in   *)
(* bytes that are cut off or of another version (ResponseRoundTrip).       *)
(*                                                                         *)
(* A message is described by the set of its fields (IsMessage), which is   *)
(* what a decoder can tell of it, and by a bound on its length (Message),  *)
(* which must stay below what a length prefix says.  Concatenation joins   *)
(* such descriptions (Join); the decoder's "last field of this number" is  *)
(* then a fact about a set (LastFound, LastAbsent).                        *)
(***************************************************************************)
EXTENDS WireProofs

(***************************************************************************)
(* Messages as lists of fields                                             *)
(***************************************************************************)

\* A field, wherever in the buffer it stands.
Items == [field : Nat, wire : 0..7, num : Nat, bytes : Seq(Octets)]

LdItem(n, p)     == [field |-> n, wire |-> LD, num |-> 0, bytes |-> p]
VarintItem(n, v) == [field |-> n, wire |-> Varint, num |-> v, bytes |-> <<>>]

FieldRecords ==
    [ok : BOOLEAN, field : Nat, wire : 0..7, num : Nat, bytes : Seq(Octets), next : Nat]

\* What is read is x.
IsItem(r, x) ==
    /\ r.ok = TRUE /\ r.field = x.field /\ r.wire = x.wire
    /\ r.num = x.num /\ r.bytes = x.bytes

\* fs are the items gs.
Matches(fs, gs) ==
    /\ fs \in Seq(FieldRecords) /\ Len(fs) = Len(gs)
    /\ \A k \in 1..Len(gs) : IsItem(fs[k], gs[k])

\* The bytes e are read as the items gs, wherever they stand and whatever
\* follows them.
Encodes(e, gs) ==
    /\ e \in Seq(Octets) /\ gs \in Seq(Items)
    /\ \A buf, i, f, rest :
          /\ StandsAt(e, buf, i) /\ Parsing(f, buf)
          /\ rest \in Seq(Items) /\ Matches(f[i + Len(e)], rest)
          => Matches(f[i], gs \o rest)

\* Both kinds of fields are items.
LEMMA ItemTypes ==
    ASSUME NEW n \in Nat
    PROVE  /\ \A p \in Seq(Octets) : LdItem(n, p) \in Items
           /\ \A v \in Nat : VarintItem(n, v) \in Items
  BY DEF LdItem, VarintItem, Items, LD, Varint

\* Nothing is read as nothing.
LEMMA EncodesNothing == Encodes(<<>>, <<>>)
  <1>1. <<>> \in Seq(Octets) /\ <<>> \in Seq(Items) /\ Len(<<>>) = 0
    OBVIOUS
  <1> SUFFICES ASSUME NEW buf, NEW i, NEW f, NEW rest, StandsAt(<<>>, buf, i),
                      rest \in Seq(Items), Matches(f[i + Len(<<>>)], rest)
               PROVE  Matches(f[i], <<>> \o rest)
    BY <1>1 DEF Encodes
  <1>2. i \in Nat /\ i + Len(<<>>) = i
    BY <1>1 DEF StandsAt
  <1>3. <<>> \o rest = rest
    BY ConcatEmptySeq
  <1> QED BY <1>2, <1>3

\* Two messages one after the other are the items of both.
LEMMA EncodesBoth ==
    ASSUME NEW a, NEW ga, Encodes(a, ga), NEW b, NEW gb, Encodes(b, gb)
    PROVE  Encodes(a \o b, ga \o gb)
  <1>1. /\ a \in Seq(Octets) /\ b \in Seq(Octets) /\ ga \in Seq(Items) /\ gb \in Seq(Items)
    BY DEF Encodes
  <1>2. /\ a \o b \in Seq(Octets) /\ ga \o gb \in Seq(Items)
        /\ Len(a \o b) = Len(a) + Len(b) /\ Len(a) \in Nat /\ Len(b) \in Nat
    BY <1>1, ConcatProperties, LenProperties
  <1> SUFFICES ASSUME NEW buf, NEW i, NEW f, NEW rest, StandsAt(a \o b, buf, i),
                      Parsing(f, buf),
                      rest \in Seq(Items), Matches(f[i + Len(a \o b)], rest)
               PROVE  Matches(f[i], (ga \o gb) \o rest)
    BY <1>2 DEF Encodes
  <1>3. StandsAt(a, buf, i) /\ StandsAt(b, buf, i + Len(a))
    BY <1>1, StandsParts
  <1>4. i + Len(a \o b) = (i + Len(a)) + Len(b)
    <2>1. i \in Nat
      BY <1>3 DEF StandsAt
    <2> QED BY <1>2, <2>1
  <1>5. Matches(f[i + Len(a)], gb \o rest)
    BY <1>3, <1>4 DEF Encodes
  <1>6. gb \o rest \in Seq(Items)
    BY <1>1, ConcatProperties
  <1>7. Matches(f[i], ga \o (gb \o rest))
    BY <1>3, <1>5, <1>6 DEF Encodes
  <1>8. (ga \o gb) \o rest = ga \o (gb \o rest)
    BY <1>1, ConcatAssociative, SMTT(30)
  <1> QED BY <1>7, <1>8

\* One field whose reading is known is its item.
LEMMA EncodesOne ==
    ASSUME NEW e \in Seq(Octets), Len(e) > 0, NEW x \in Items,
           \A buf, i : StandsAt(e, buf, i) =>
              FieldAt(buf, i) = [ok |-> TRUE, field |-> x.field, wire |-> x.wire, num |-> x.num,
                                 bytes |-> x.bytes, next |-> i + Len(e)]
    PROVE  Encodes(e, <<x>>)
  <1>1. <<x>> \in Seq(Items) /\ Len(<<x>>) = 1 /\ <<x>>[1] = x /\ Len(e) \in Nat
    BY LenProperties
  <1> SUFFICES ASSUME NEW buf, NEW i, NEW f, NEW rest, StandsAt(e, buf, i), Parsing(f, buf),
                      rest \in Seq(Items), Matches(f[i + Len(e)], rest)
               PROVE  Matches(f[i], <<x>> \o rest)
    BY <1>1 DEF Encodes
  <1> DEFINE r == [ok |-> TRUE, field |-> x.field, wire |-> x.wire, num |-> x.num,
                   bytes |-> x.bytes, next |-> i + Len(e)]
             fs == f[i + Len(e)]
  <1>2. /\ i \in Nat \ {0} /\ ~(i > Len(buf))
    <2>1. i \in Nat \ {0} /\ buf \in Seq(Octets) /\ i + Len(e) - 1 <= Len(buf)
      BY DEF StandsAt
    <2>2. Len(buf) \in Nat
      BY <2>1, LenProperties
    <2> QED BY <1>1, <2>1, <2>2
  <1>3. FieldAt(buf, i) = r
    OBVIOUS
  <1>4. r.ok = TRUE /\ r.next = i + Len(e)
    OBVIOUS
  <1>5. IsItem(r, x) /\ r \in FieldRecords
    <2>1. x.field \in Nat /\ x.wire \in 0..7 /\ x.num \in Nat /\ x.bytes \in Seq(Octets)
      BY DEF Items
    <2>2. i + Len(e) \in Nat
      BY <1>1, <1>2
    <2> QED BY <2>1, <2>2 DEF IsItem, FieldRecords
  <1> HIDE DEF r, fs
  <1>6. f[i] = <<r>> \o fs
    <2>1. f[i] = <<FieldAt(buf, i)>>
                   \o (IF FieldAt(buf, i).ok THEN f[FieldAt(buf, i).next] ELSE <<>>)
      BY <1>2 DEF Parsing
    <2> QED BY <1>3, <1>4, <2>1 DEF fs
  <1>7. /\ fs \in Seq(FieldRecords) /\ Len(fs) = Len(rest)
        /\ \A k \in 1..Len(rest) : IsItem(fs[k], rest[k])
    BY DEF Matches, fs
  <1>8. <<r>> \in Seq(FieldRecords) /\ Len(<<r>>) = 1 /\ <<r>>[1] = r /\ Len(rest) \in Nat
    BY <1>5, LenProperties
  <1>9. /\ <<r>> \o fs \in Seq(FieldRecords) /\ Len(<<r>> \o fs) = 1 + Len(rest)
        /\ \A k \in 1..(1 + Len(rest)) : (<<r>> \o fs)[k] = IF k <= 1 THEN <<r>>[k] ELSE fs[k - 1]
    BY <1>7, <1>8, ConcatProperties
  <1>10. /\ Len(<<x>> \o rest) = 1 + Len(rest)
         /\ \A k \in 1..(1 + Len(rest)) : (<<x>> \o rest)[k] = IF k <= 1 THEN <<x>>[k] ELSE rest[k - 1]
    BY <1>1, <1>8, ConcatProperties
  <1>11. ASSUME NEW k \in 1..(1 + Len(rest)) PROVE IsItem((<<r>> \o fs)[k], (<<x>> \o rest)[k])
    <2>1. CASE k = 1
      <3>1. (<<r>> \o fs)[1] = r /\ (<<x>> \o rest)[1] = x
        BY <1>1, <1>8, <1>9, <1>10
      <3> QED BY <1>5, <2>1, <3>1
    <2>2. CASE k > 1
      <3>1. /\ (<<r>> \o fs)[k] = fs[k - 1] /\ (<<x>> \o rest)[k] = rest[k - 1]
            /\ k - 1 \in 1..Len(rest)
        BY <1>8, <1>9, <1>10, <2>2
      <3> QED BY <1>7, <3>1
    <2>3. k = 1 \/ k > 1
      BY <1>8
    <2> QED BY <2>1, <2>2, <2>3
  <1> QED BY <1>6, <1>9, <1>10, <1>11 DEF Matches

\* A whole message is read as its items.
LEMMA FieldsOfMessage ==
    ASSUME NEW e, NEW gs, Encodes(e, gs)
    PROVE  Matches(Fields(e), gs)
  <1>1. e \in Seq(Octets) /\ gs \in Seq(Items) /\ Len(e) \in Nat
    BY LenProperties DEF Encodes
  <1>2. PICK f : Parsing(f, e) /\ Fields(e) = f[1]
    BY <1>1, FieldsParsed
  <1>3. StandsAt(e, e, 1)
    <2>1. \A j \in 1..Len(e) : 1 + j - 1 = j
      BY <1>1
    <2> QED BY <1>1, <2>1 DEF StandsAt
  <1>4. f[1 + Len(e)] = <<>>
    <2>1. 1 + Len(e) \in Nat \ {0} /\ 1 + Len(e) > Len(e)
      BY <1>1
    <2> QED BY <1>2, <2>1 DEF Parsing
  <1>5. Matches(f[1 + Len(e)], <<>>) /\ <<>> \in Seq(Items)
    BY <1>4 DEF Matches
  <1>6. Matches(f[1], gs \o <<>>)
    BY <1>2, <1>3, <1>5 DEF Encodes
  <1>7. gs \o <<>> = gs
    BY <1>1, ConcatEmptySeq
  <1> QED BY <1>2, <1>6, <1>7

(***************************************************************************)
(* The encoders                                                            *)
(***************************************************************************)

\* A small field number makes a tag of one or two bytes.
LEMMA TagShort ==
    ASSUME NEW n \in 1..31, NEW w \in 0..7
    PROVE  8 * n + w \in Nat /\ Short(8 * n + w)
  <1> DEFINE v == 8 * n + w
  <1>1. v \in Nat /\ v < 256
    OBVIOUS
  <1> HIDE DEF v
  <1>2. MaxShift >= 7
    BY WidthAssumption DEF WidthAssumption
  <1>3. CASE v < 128
    <2>1. EncodeVarint[v] = <<v>> /\ Len(<<v>>) = 1
      BY <1>1, <1>3, VarintCases
    <2>2. Short(v)
      BY <1>2, <2>1, WidthAssumption DEF Short, WidthAssumption
    <2> QED BY <1>1, <2>2 DEF v
  <1>4. CASE v >= 128
    <2> DEFINE a == 128 + (v % 128)
               b == v \div 128
    <2>1. a \in Nat /\ b \in Nat /\ b < 128
      BY <1>1
    <2>2. EncodeVarint[v] = <<a>> \o EncodeVarint[b]
      BY <1>1, <1>4, VarintCases
    <2> HIDE DEF a, b
    <2>3. EncodeVarint[b] = <<b>>
      BY <2>1, VarintCases
    <2>4. Len(<<a>> \o <<b>>) = 2
      <3>1. <<a>> \in Seq(Nat) /\ <<b>> \in Seq(Nat) /\ Len(<<a>>) = 1 /\ Len(<<b>>) = 1
        BY <2>1
      <3>2. Len(<<a>> \o <<b>>) = Len(<<a>>) + Len(<<b>>)
        BY <3>1, ConcatProperties
      <3> QED BY <3>1, <3>2
    <2>5. Len(EncodeVarint[v]) = 2
      BY <2>2, <2>3, <2>4
    <2>6. Short(v)
      BY <1>2, <2>5, WidthAssumption DEF Short, WidthAssumption
    <2> QED BY <1>1, <2>6 DEF v
  <1> QED BY <1>1, <1>3, <1>4

\* A length-delimited field encodes its item.
LEMMA EncodesLdAlways ==
    ASSUME NEW n \in 1..31, NEW p \in Seq(Octets), Short(Len(p))
    PROVE  Encodes(LdFieldAlways(n, p), <<LdItem(n, p)>>)
  <1> DEFINE t == EncodeVarint[8 * n + LD]
             l == EncodeVarint[Len(p)]
             e == LdFieldAlways(n, p)
             x == LdItem(n, p)
  <1>1. 8 * n + LD \in Nat /\ Short(8 * n + LD) /\ Len(p) \in Nat /\ n \in Nat
    <2>1. LD \in 0..7 /\ n \in Nat
      BY DEF LD
    <2> QED BY <2>1, TagShort, LenProperties
  <1>2. /\ t \in Seq(Octets) /\ l \in Seq(Octets) /\ Len(t) >= 1 /\ Len(t) \in Nat
        /\ Len(l) \in Nat
    BY <1>1, EncodedShape, LenProperties DEF VarintShape
  <1>3. e = (t \o l) \o p
    BY DEF LdFieldAlways, Tag
  <1> HIDE DEF t, l, e
  <1>4. e \in Seq(Octets) /\ Len(e) > 0
    <2>1. t \o l \in Seq(Octets) /\ Len(t \o l) = Len(t) + Len(l)
      BY <1>2, ConcatProperties
    <2>2. e \in Seq(Octets) /\ Len(e) = Len(t \o l) + Len(p)
      BY <1>3, <2>1, ConcatProperties
    <2> QED BY <1>1, <1>2, <2>1, <2>2
  <1>5. x \in Items
    BY <1>1, ItemTypes
  <1>6. x.field = n /\ x.wire = LD /\ x.num = 0 /\ x.bytes = p
    BY DEF LdItem
  <1> HIDE DEF x
  <1>7. ASSUME NEW buf, NEW i, StandsAt(e, buf, i)
        PROVE  FieldAt(buf, i) = [ok |-> TRUE, field |-> x.field, wire |-> x.wire,
                                  num |-> x.num, bytes |-> x.bytes, next |-> i + Len(e)]
    <2>1. FieldAt(buf, i) = [ok |-> TRUE, field |-> n, wire |-> LD, num |-> 0, bytes |-> p,
                             next |-> i + Len(e)]
      BY <1>1, <1>7, LdReadBack DEF FieldAt, e
    <2> QED BY <1>6, <2>1, Zenon
  <1>8. Encodes(e, <<x>>)
    BY <1>4, <1>5, <1>7, EncodesOne
  <1> QED BY <1>8 DEF e, x

\* A varint field encodes its item.
LEMMA EncodesVarintField ==
    ASSUME NEW n \in 1..31, NEW v \in Nat, Short(v)
    PROVE  Encodes(Tag(n, Varint) \o EncodeVarint[v], <<VarintItem(n, v)>>)
  <1> DEFINE t == EncodeVarint[8 * n + Varint]
             l == EncodeVarint[v]
             e == Tag(n, Varint) \o EncodeVarint[v]
             x == VarintItem(n, v)
  <1>1. 8 * n + Varint \in Nat /\ Short(8 * n + Varint) /\ n \in Nat
    <2>1. Varint \in 0..7 /\ n \in Nat
      BY DEF Varint
    <2> QED BY <2>1, TagShort
  <1>2. /\ t \in Seq(Octets) /\ l \in Seq(Octets) /\ Len(t) >= 1 /\ Len(t) \in Nat
        /\ Len(l) \in Nat
    BY <1>1, EncodedShape, LenProperties DEF VarintShape
  <1>3. e = t \o l
    BY DEF Tag
  <1> HIDE DEF t, l, e
  <1>4. e \in Seq(Octets) /\ Len(e) > 0
    <2>1. e \in Seq(Octets) /\ Len(e) = Len(t) + Len(l)
      BY <1>2, <1>3, ConcatProperties
    <2> QED BY <1>2, <2>1
  <1>5. x \in Items
    BY <1>1, ItemTypes
  <1>6. x.field = n /\ x.wire = Varint /\ x.num = v /\ x.bytes = <<>>
    BY DEF VarintItem
  <1> HIDE DEF x
  <1>7. ASSUME NEW buf, NEW i, StandsAt(e, buf, i)
        PROVE  FieldAt(buf, i) = [ok |-> TRUE, field |-> x.field, wire |-> x.wire,
                                  num |-> x.num, bytes |-> x.bytes, next |-> i + Len(e)]
    <2>1. FieldAt(buf, i) = [ok |-> TRUE, field |-> n, wire |-> Varint, num |-> v,
                             bytes |-> <<>>, next |-> i + Len(e)]
      BY <1>1, <1>7, VarintFieldReadBack DEF FieldAt, e
    <2> QED BY <1>6, <2>1, Zenon
  <1>8. Encodes(e, <<x>>)
    BY <1>4, <1>5, <1>7, EncodesOne
  <1> QED BY <1>8 DEF e, x

(***************************************************************************)
(* Looking a field up                                                      *)
(***************************************************************************)

\* e is a message whose fields are the items in S.
IsMessage(e, S) ==
    \E gs : /\ Encodes(e, gs)
            /\ \A x : x \in S <=> \E k \in 1..Len(gs) : gs[k] = x

\* The elements of a concatenation are those of its parts.
LEMMA ConcatElements ==
    ASSUME NEW a \in Seq(Items), NEW b \in Seq(Items)
    PROVE  /\ \A k \in 1..Len(a \o b) :
                \/ \E j \in 1..Len(a) : (a \o b)[k] = a[j]
                \/ \E j \in 1..Len(b) : (a \o b)[k] = b[j]
           /\ \A j \in 1..Len(a) : \E k \in 1..Len(a \o b) : (a \o b)[k] = a[j]
           /\ \A j \in 1..Len(b) : \E k \in 1..Len(a \o b) : (a \o b)[k] = b[j]
  <1>1. /\ Len(a) \in Nat /\ Len(b) \in Nat /\ Len(a \o b) = Len(a) + Len(b)
        /\ \A i \in 1..(Len(a) + Len(b)) : (a \o b)[i] = IF i <= Len(a) THEN a[i] ELSE b[i - Len(a)]
    BY LenProperties, ConcatProperties
  <1>2. ASSUME NEW k \in 1..Len(b)
        PROVE  k + Len(a) \in 1..(Len(a) + Len(b)) /\ (a \o b)[k + Len(a)] = b[k]
    <2>1. k + Len(a) \in 1..(Len(a) + Len(b)) /\ ~(k + Len(a) <= Len(a))
          /\ (k + Len(a)) - Len(a) = k
      BY <1>1
    <2>2. (a \o b)[k + Len(a)] = b[(k + Len(a)) - Len(a)]
      BY <1>1, <2>1
    <2> QED BY <2>1, <2>2
  <1>3. ASSUME NEW k \in 1..Len(a)
        PROVE  k \in 1..(Len(a) + Len(b)) /\ (a \o b)[k] = a[k]
    BY <1>1
  <1>4. ASSUME NEW k \in 1..(Len(a) + Len(b))
        PROVE  \/ k \in 1..Len(a) /\ (a \o b)[k] = a[k]
               \/ k - Len(a) \in 1..Len(b) /\ (a \o b)[k] = b[k - Len(a)]
    <2>1. CASE k <= Len(a)
      BY <1>1, <2>1
    <2>2. CASE ~(k <= Len(a))
      BY <1>1, <2>2
    <2> QED BY <2>1, <2>2
  <1> QED BY <1>1, <1>2, <1>3, <1>4

\* The messages that the encoders make.
LEMMA NoFields == IsMessage(<<>>, {})
  BY EncodesNothing DEF IsMessage

\* A message of one field.
LEMMA OneField ==
    ASSUME NEW e, NEW x \in Items, Encodes(e, <<x>>)
    PROVE  IsMessage(e, {x})
  <1>1. Len(<<x>>) = 1 /\ <<x>>[1] = x
    OBVIOUS
  <1>2. \A y : y \in {x} <=> \E k \in 1..Len(<<x>>) : <<x>>[k] = y
    BY <1>1
  <1> QED BY <1>2 DEF IsMessage

\* A message after another.
LEMMA BothFields ==
    ASSUME NEW a, NEW S, IsMessage(a, S), NEW b, NEW T, IsMessage(b, T)
    PROVE  IsMessage(a \o b, S \cup T)
  <1>1. PICK ga : Encodes(a, ga) /\ \A x : x \in S <=> \E k \in 1..Len(ga) : ga[k] = x
    BY DEF IsMessage
  <1>2. PICK gb : Encodes(b, gb) /\ \A x : x \in T <=> \E k \in 1..Len(gb) : gb[k] = x
    BY DEF IsMessage
  <1>3. ga \in Seq(Items) /\ gb \in Seq(Items)
    BY <1>1, <1>2 DEF Encodes
  <1>4. Encodes(a \o b, ga \o gb)
    BY <1>1, <1>2, EncodesBoth
  <1> DEFINE g == ga \o gb
  <1>5. /\ \A k \in 1..Len(g) : \/ \E j \in 1..Len(ga) : g[k] = ga[j]
                                \/ \E j \in 1..Len(gb) : g[k] = gb[j]
        /\ \A j \in 1..Len(ga) : \E k \in 1..Len(g) : g[k] = ga[j]
        /\ \A j \in 1..Len(gb) : \E k \in 1..Len(g) : g[k] = gb[j]
    BY <1>3, ConcatElements
  <1> HIDE DEF g
  <1>6. ASSUME NEW x PROVE x \in S \cup T <=> \E k \in 1..Len(g) : g[k] = x
    <2>1. ASSUME x \in S PROVE \E k \in 1..Len(g) : g[k] = x
      BY <1>1, <1>5, <2>1
    <2>2. ASSUME x \in T PROVE \E k \in 1..Len(g) : g[k] = x
      BY <1>2, <1>5, <2>2
    <2>3. ASSUME NEW k \in 1..Len(g), g[k] = x PROVE x \in S \cup T
      BY <1>1, <1>2, <1>5, <2>3
    <2> QED BY <2>1, <2>2, <2>3
  <1> QED BY <1>4, <1>6 DEF IsMessage, g

\* A set of positions has a last one and a first one.
LEMMA LastPosition ==
    ASSUME NEW n \in Nat, NEW I \in SUBSET (1..n), I # {}
    PROVE  Max(I) \in I /\ \A y \in I : Max(I) >= y
  <1> DEFINE T == {n - k : k \in I}
  <1>1. T \in SUBSET Nat /\ T # {}
    <2>1. \A k \in 1..n : n - k \in Nat
      OBVIOUS
    <2> QED BY <2>1
  <1>2. PICK m \in T : \A y \in T : m <= y
    BY <1>1, LeastElement
  <1>3. PICK x \in I : m = n - x
    BY <1>2
  <1>4. \A y \in I : x >= y
    <2> TAKE y \in I
    <2>1. n - y \in T
      OBVIOUS
    <2>2. n - x <= n - y
      BY <1>2, <1>3, <2>1
    <2> QED BY <2>2
  <1>5. \E z \in I : \A y \in I : z >= y
    BY <1>4
  <1> QED BY <1>5, Zenon DEF Max

\* The first of a set of positions.
LEMMA FirstPosition ==
    ASSUME NEW n \in Nat, NEW I \in SUBSET (1..n), I # {}
    PROVE  Min(I) \in I /\ \A y \in I : Min(I) <= y
  <1>1. \E z \in I : \A y \in I : z <= y
    BY LeastElement
  <1> QED BY <1>1, Zenon DEF Min

\* The last field of a number is found, when all fields of that number are the
\* same; and when there is none, the default is taken.
LEMMA LastFound ==
    ASSUME NEW e, NEW S, IsMessage(e, S), NEW x \in S, \A y \in S : y.field = x.field => y = x,
           NEW absent
    PROVE  /\ LastOf(Fields(e), x.field, x.wire, absent).num = x.num
           /\ LastOf(Fields(e), x.field, x.wire, absent).bytes = x.bytes
  <1> DEFINE fs == Fields(e)
             I == {i \in 1..Len(fs) : fs[i].ok /\ fs[i].field = x.field /\ fs[i].wire = x.wire}
  <1>0. PICK gs : Encodes(e, gs) /\ \A y : y \in S <=> \E k \in 1..Len(gs) : gs[k] = y
    BY DEF IsMessage
  <1>1. Len(fs) = Len(gs) /\ Len(fs) \in Nat /\ \A k \in 1..Len(fs) : IsItem(fs[k], gs[k])
    BY <1>0, FieldsOfMessage, LenProperties DEF Matches
  <1> HIDE DEF fs
  <1>2. PICK k \in 1..Len(fs) : gs[k] = x
    BY <1>0, <1>1
  <1>3. k \in I
    <2>1. IsItem(fs[k], x)
      BY <1>1, <1>2
    <2> QED BY <2>1 DEF IsItem
  <1>4. Max(I) \in I
    BY <1>1, <1>3, LastPosition
  <1> DEFINE m == Max(I)
  <1>5. m \in 1..Len(fs) /\ fs[m].field = x.field
    BY <1>4
  <1>6. fs[m].num = x.num /\ fs[m].bytes = x.bytes
    <2> HIDE DEF m
    <2>1. IsItem(fs[m], gs[m])
      BY <1>1, <1>5
    <2>2. gs[m].field = x.field /\ gs[m] \in S
      BY <1>0, <1>1, <1>5, <2>1 DEF IsItem
    <2>3. gs[m] = x
      BY <2>2
    <2> QED BY <2>1, <2>3 DEF IsItem
  <1>7. SelectLastInSeq(fs, LAMBDA f : f.ok /\ f.field = x.field /\ f.wire = x.wire) = m
    BY <1>3, Zenon DEF SelectLastInSeq
  <1>8. m # 0
    BY <1>1, <1>5
  <1>9. LastOf(fs, x.field, x.wire, absent) = fs[m]
    BY <1>7, <1>8, Zenon DEF LastOf
  <1> QED BY <1>6, <1>9 DEF fs

\* Without a field of the number, the default is taken.
LEMMA LastAbsent ==
    ASSUME NEW e, NEW S, IsMessage(e, S), NEW n, \A y \in S : y.field # n, NEW w, NEW absent
    PROVE  /\ LastOf(Fields(e), n, w, absent).num = absent
           /\ LastOf(Fields(e), n, w, absent).bytes = absent
  <1> DEFINE fs == Fields(e)
             I == {i \in 1..Len(fs) : fs[i].ok /\ fs[i].field = n /\ fs[i].wire = w}
  <1>0. PICK gs : Encodes(e, gs) /\ \A y : y \in S <=> \E k \in 1..Len(gs) : gs[k] = y
    BY DEF IsMessage
  <1>1. Len(fs) = Len(gs) /\ \A k \in 1..Len(fs) : IsItem(fs[k], gs[k])
    BY <1>0, FieldsOfMessage DEF Matches
  <1> HIDE DEF fs
  <1>2. I = {}
    BY <1>0, <1>1 DEF IsItem
  <1>3. SelectLastInSeq(fs, LAMBDA f : f.ok /\ f.field = n /\ f.wire = w) = 0
    BY <1>2, Zenon DEF SelectLastInSeq
  <1>4. LastOf(fs, n, w, absent) = [num |-> absent, bytes |-> absent]
    BY <1>3, Zenon DEF LastOf
  <1> QED BY <1>4 DEF fs

\* The field that LdField() writes, if it writes one.
Slot(n, p) == IF p = <<>> THEN {} ELSE {LdItem(n, p)}

\* A field that is left out when it is empty.
LEMMA SlotMessage ==
    ASSUME NEW n \in 1..31, NEW p \in Seq(Octets), Short(Len(p))
    PROVE  /\ IsMessage(LdField(n, p), Slot(n, p))
           /\ IsMessage(LdFieldAlways(n, p), {LdItem(n, p)})
  <1>1. LdItem(n, p) \in Items
    BY ItemTypes
  <1>2. IsMessage(LdFieldAlways(n, p), {LdItem(n, p)})
    BY <1>1, EncodesLdAlways, OneField
  <1>3. p = <<>> => LdField(n, p) = <<>> /\ Slot(n, p) = {}
    BY DEF LdField, Slot
  <1>4. p # <<>> => LdField(n, p) = LdFieldAlways(n, p) /\ Slot(n, p) = {LdItem(n, p)}
    BY DEF LdField, Slot
  <1> QED BY <1>2, <1>3, <1>4, NoFields

\* A varint field as a message.
LEMMA VarintMessage ==
    ASSUME NEW n \in 1..31, NEW v \in Nat, Short(v)
    PROVE  IsMessage(Tag(n, Varint) \o EncodeVarint[v], {VarintItem(n, v)})
  <1>1. VarintItem(n, v) \in Items
    BY ItemTypes
  <1> QED BY <1>1, EncodesVarintField, OneField

\* What an optional field is read as.
LEMMA SlotRead ==
    ASSUME NEW e, NEW S, NEW n, NEW p, IsMessage(e, S),
           Slot(n, p) \subseteq S, \A y \in S : y.field = n => y \in Slot(n, p)
    PROVE  /\ BytesOf(Fields(e), n) = p
           /\ LastOf(Fields(e), n, LD, None).bytes = IF p = <<>> THEN None ELSE p
  <1>1. CASE p = <<>>
    <2>1. \A y \in S : y.field # n
      BY <1>1 DEF Slot
    <2> QED BY <1>1, <2>1, LastAbsent DEF BytesOf
  <1>2. CASE p # <<>>
    <2> DEFINE x == LdItem(n, p)
    <2>1. x \in S /\ \A y \in S : y.field = n => y = x
      BY <1>2 DEF Slot
    <2>2. x.field = n /\ x.wire = LD /\ x.bytes = p
      BY DEF LdItem
    <2> HIDE DEF x
    <2>3. \A absent : LastOf(Fields(e), n, LD, absent).bytes = p
      BY <2>1, <2>2, LastFound
    <2> QED BY <1>2, <2>3 DEF BytesOf
  <1> QED BY <1>1, <1>2

(***************************************************************************)
(* Requests                                                                *)
(***************************************************************************)

\* The widths of the code, where WordBits = 64 and MaxShift = 70.
Wide == MaxShift >= 63 /\ 2^WordBits <= 2 * Sign

\* Lengths of which three fit into a frame together.
Room == 1073741824
BodyRoom == 3 * Room + 200
FrameRoom == 3 * Room + 900

Fits(p) == Len(p) < Room

\* Lengths are words.
LEMMA SmallWord == \A v \in Nat : (v < 1000 => v < Room) /\ (v <= 3 * Room + 1000 => v \in Word)
  <1>1. Five > 4 * Room
    BY SMT DEF Five, Times128, Room, BodyRoom, FrameRoom
  <1>2. Five \in Nat /\ Sign \in Nat /\ Five <= Sign /\ Room \in Nat /\ 1000 < Room
    BY WordFits DEF Room, BodyRoom, FrameRoom
  <1> QED BY <1>1, <1>2 DEF Word

\* The varint of a word is not too long for the reader.
LEMMA WordShort ==
    ASSUME Wide, NEW v \in Word
    PROVE  /\ v \in Nat /\ Short(v) /\ EncodeVarint[v] \in Seq(Octets)
           /\ Len(EncodeVarint[v]) \in 1..10
  <1>1. v \in Nat /\ Len(EncodeVarint[v]) <= 10
    BY WordFits DEF Word, FitsIn
  <1>2. EncodeVarint[v] \in Seq(Octets) /\ Len(EncodeVarint[v]) >= 1
    BY <1>1, EncodedShape DEF VarintShape
  <1>3. Len(EncodeVarint[v]) \in Nat
    BY <1>2, LenProperties
  <1>4. \A l \in Nat : l >= 1 /\ l <= 10 /\ MaxShift >= 63 => l \in 1..10 /\ 7 * (l - 1) <= MaxShift
    BY WidthAssumption DEF WidthAssumption
  <1>5. Len(EncodeVarint[v]) \in 1..10 /\ 7 * (Len(EncodeVarint[v]) - 1) <= MaxShift
    BY <1>1, <1>2, <1>3, <1>4 DEF Wide
  <1> QED BY <1>1, <1>2, <1>5 DEF Short

\* How long a length-delimited field is.
LEMMA LdLength ==
    ASSUME Wide, NEW n \in 1..31, NEW p \in Seq(Octets), Len(p) \in Word
    PROVE  /\ LdFieldAlways(n, p) \in Seq(Octets) /\ LdField(n, p) \in Seq(Octets)
           /\ Len(LdFieldAlways(n, p)) <= Len(p) + 20 /\ Len(LdField(n, p)) <= Len(p) + 20
           /\ Len(LdFieldAlways(n, p)) \in Nat /\ Len(LdField(n, p)) \in Nat
           /\ Len(LdFieldAlways(n, p)) > 0
  <1> DEFINE t == EncodeVarint[8 * n + LD]
             l == EncodeVarint[Len(p)]
  <1>1. 8 * n + LD \in Word
    <2>1. 8 * n + LD \in Nat /\ 8 * n + LD < 1000
      BY DEF LD
    <2>2. 8 * n + LD <= 3 * Room + 1000
      BY <2>1, SMT DEF Room, BodyRoom, FrameRoom
    <2> QED BY <2>1, <2>2, SmallWord
  <1>2. /\ t \in Seq(Octets) /\ l \in Seq(Octets) /\ Len(t) \in 1..10 /\ Len(l) \in 1..10
        /\ Len(p) \in Nat
    BY <1>1, WordShort
  <1>3. LdFieldAlways(n, p) = (t \o l) \o p
    BY DEF LdFieldAlways, Tag
  <1> HIDE DEF t, l
  <1>4. t \o l \in Seq(Octets) /\ Len(t \o l) = Len(t) + Len(l)
    BY <1>2, ConcatProperties
  <1>5. (t \o l) \o p \in Seq(Octets) /\ Len((t \o l) \o p) = Len(t \o l) + Len(p)
    BY <1>4, ConcatProperties
  <1>6. /\ LdFieldAlways(n, p) \in Seq(Octets) /\ Len(LdFieldAlways(n, p)) \in Nat
        /\ Len(LdFieldAlways(n, p)) <= Len(p) + 20 /\ Len(LdFieldAlways(n, p)) > 0
    <2>1. \A x, y \in 1..10 : \A z \in Nat : (x + y) + z \in Nat /\ (x + y) + z <= z + 20 /\ (x + y) + z > 0
      OBVIOUS
    <2>2. Len(LdFieldAlways(n, p)) = (Len(t) + Len(l)) + Len(p)
      BY <1>3, <1>4, <1>5
    <2> QED BY <1>2, <1>3, <1>5, <2>1, <2>2
  <1>7. <<>> \in Seq(Octets) /\ Len(<<>>) = 0
    OBVIOUS
  <1> QED BY <1>2, <1>6, <1>7 DEF LdField

\* The Optional messages.
TtlMessage(ttl) == IF ttl > 0 THEN Uint64Field(1, ttl) ELSE <<>>
NamespaceMessage(ns) == IF HasNamespace(ns) THEN LdField(1, ns) ELSE <<>>

\* The optional fields hold messages of their own.
LEMMA OptionalFields ==
    ASSUME NEW n, NEW ttl, NEW ns
    PROVE  /\ TtlField(n, ttl) = LdField(n, TtlMessage(ttl))
           /\ NamespaceField(n, ns) = LdField(n, NamespaceMessage(ns))
  <1>1. LdField(n, <<>>) = <<>>
    BY DEF LdField
  <1> QED BY <1>1 DEF TtlField, TtlMessage, NamespaceField, NamespaceMessage

\* A ttl travels as it is, when it is positive.
LEMMA TtlTravels ==
    ASSUME Wide, NEW ttl \in Int, ttl > 0 => ttl \in Word
    PROVE  /\ TtlMessage(ttl) \in Seq(Octets) /\ Len(TtlMessage(ttl)) <= 20
           /\ TtlMessage(ttl) = <<>> <=> ~(ttl > 0)
           /\ ttl > 0 => OptionalUint64(TtlMessage(ttl)) = ttl
  <1>1. CASE ~(ttl > 0)
    <2>1. TtlMessage(ttl) = <<>> /\ <<>> \in Seq(Octets) /\ Len(<<>>) = 0
      BY <1>1 DEF TtlMessage
    <2> QED BY <1>1, <2>1
  <1>2. CASE ttl > 0
    <2> DEFINE t == Tag(1, Varint)
               l == EncodeVarint[ttl]
               e == t \o l
               x == VarintItem(1, ttl)
    <2>1. TtlMessage(ttl) = e /\ ttl \in Nat
      BY <1>2 DEF TtlMessage, Uint64Field
    <2>2. 8 * 1 + Varint \in Word
      <3>1. 8 * 1 + Varint \in Nat /\ 8 * 1 + Varint <= 3 * Room + 1000
        BY SMT DEF Varint, Room, BodyRoom, FrameRoom
      <3> QED BY <3>1, SmallWord
    <2>3. /\ t \in Seq(Octets) /\ l \in Seq(Octets) /\ Len(t) \in 1..10 /\ Len(l) \in 1..10
          /\ Short(ttl)
      BY <1>2, <2>2, WordShort DEF Tag
    <2>4. IsMessage(e, {x})
      <3>1. 1 \in 1..31
        OBVIOUS
      <3> QED BY <2>1, <2>3, <3>1, VarintMessage
    <2> HIDE DEF t, l
    <2>5. e \in Seq(Octets) /\ Len(e) = Len(t) + Len(l)
      BY <2>3, ConcatProperties
    <2>6. Len(e) <= 20 /\ e # <<>>
      <3>1. Len(<<>>) = 0 /\ \A y, z \in 1..10 : y + z <= 20 /\ y + z # 0
        OBVIOUS
      <3> HIDE DEF e
      <3> QED BY <2>3, <2>5, <3>1
    <2>7. x.field = 1 /\ x.wire = Varint /\ x.num = ttl
      BY DEF VarintItem
    <2> HIDE DEF e, x
    <2>8. NumOf(Fields(e), 1) = ttl
      BY <2>4, <2>7, LastFound DEF NumOf
    <2>9. e # None
      BY <2>5, NoneAssumption DEF Octets
    <2>10. OptionalUint64(e) = ttl
      BY <2>8, <2>9 DEF OptionalUint64
    <2> QED BY <1>2, <2>1, <2>5, <2>6, <2>10
  <1> QED BY <1>1, <1>2

\* So does a namespace, unless it is blank.
LEMMA NamespaceTravels ==
    ASSUME Wide, NEW ns, ns = None \/ (ns \in Seq(Octets) /\ Fits(ns))
    PROVE  /\ NamespaceMessage(ns) \in Seq(Octets)
           /\ Len(NamespaceMessage(ns)) <= Room + 20
           /\ NamespaceMessage(ns) = <<>> <=> ~HasNamespace(ns)
           /\ HasNamespace(ns) => OptionalBytes(NamespaceMessage(ns)) = ns
  <1>1. CASE ~HasNamespace(ns)
    <2>1. NamespaceMessage(ns) = <<>> /\ <<>> \in Seq(Octets) /\ Len(<<>>) = 0
      BY <1>1 DEF NamespaceMessage
    <2>2. 0 <= Room + 20
      BY SMT DEF Room, BodyRoom, FrameRoom
    <2> QED BY <1>1, <2>1, <2>2
  <1>2. CASE HasNamespace(ns)
    <2> DEFINE e == LdField(1, ns)
    <2>1. ns \in Seq(Octets) /\ Fits(ns)
      BY <1>2 DEF HasNamespace
    <2>2. ns # <<>>
      <3>1. Strip(<<>>) = <<>>
        BY DEF Strip
      <3> QED BY <1>2, <3>1 DEF HasNamespace
    <2>3. Len(ns) \in Word /\ Len(ns) \in Nat
      <3>1. Len(ns) \in Nat
        BY <2>1, LenProperties
      <3>2. Len(ns) <= 3 * Room + 1000
        BY <2>1, <3>1, SMT DEF Fits, Room, BodyRoom, FrameRoom
      <3> QED BY <3>1, <3>2, SmallWord
    <2>4. NamespaceMessage(ns) = e /\ e = LdFieldAlways(1, ns)
      BY <1>2, <2>2 DEF NamespaceMessage, LdField
    <2>5. e \in Seq(Octets) /\ Len(e) <= Len(ns) + 20 /\ Len(e) > 0 /\ Len(e) \in Nat
      BY <2>1, <2>3, <2>4, LdLength
    <2>6. IsMessage(e, Slot(1, ns))
      <3>1. 1 \in 1..31 /\ Short(Len(ns))
        BY <2>3, WordShort
      <3> QED BY <2>1, <3>1, SlotMessage
    <2> HIDE DEF e
    <2>7. BytesOf(Fields(e), 1) = ns
      BY <2>6, SlotRead DEF Slot
    <2>8. e # None /\ e # <<>>
      <3>1. Len(<<>>) = 0
        OBVIOUS
      <3> QED BY <2>5, <3>1, NoneAssumption DEF Octets
    <2>9. OptionalBytes(e) = ns
      BY <2>7, <2>8 DEF OptionalBytes
    <2>10. Len(e) <= Room + 20
      BY <2>1, <2>3, <2>5, SMT DEF Fits, Room, BodyRoom, FrameRoom
    <2> QED BY <1>2, <2>4, <2>5, <2>8, <2>9, <2>10
  <1> QED BY <1>1, <1>2

\* e is such a message, of at most b bytes.
Message(e, S, b) ==
    e \in Seq(Octets) /\ Len(e) \in Nat /\ Len(e) <= b /\ IsMessage(e, S)

\* Messages, with bounds on their lengths, follow one another.
LEMMA Join ==
    ASSUME NEW e1, NEW S1, NEW b1 \in Nat, Message(e1, S1, b1),
           NEW e2, NEW S2, NEW b2 \in Nat, Message(e2, S2, b2)
    PROVE  b1 + b2 \in Nat /\ Message(e1 \o e2, S1 \cup S2, b1 + b2)
  <1>1. e1 \in Seq(Octets) /\ Len(e1) \in Nat /\ Len(e1) <= b1 /\ IsMessage(e1, S1)
    BY DEF Message
  <1>2. e2 \in Seq(Octets) /\ Len(e2) \in Nat /\ Len(e2) <= b2 /\ IsMessage(e2, S2)
    BY DEF Message
  <1>3. e1 \o e2 \in Seq(Octets) /\ Len(e1 \o e2) = Len(e1) + Len(e2)
    BY <1>1, <1>2, ConcatProperties
  <1>4. IsMessage(e1 \o e2, S1 \cup S2)
    BY <1>1, <1>2, BothFields
  <1>5. \A m, n, x, y \in Nat : m <= x /\ n <= y => m + n \in Nat /\ m + n <= x + y
    OBVIOUS
  <1>6. Len(e1 \o e2) \in Nat /\ Len(e1 \o e2) <= b1 + b2
    BY <1>1, <1>2, <1>3, <1>5
  <1> QED BY <1>3, <1>4, <1>6 DEF Message

\* What an operation may be called with.
IsCall(c) ==
    /\ \E k \in 1..11 : RequestFields[k] = c.op
    /\ c.key \in Seq(Octets) /\ Fits(c.key) /\ c.value \in Seq(Octets) /\ Fits(c.value)
    /\ c.ttl \in Int /\ (c.ttl > 0 => c.ttl \in Word) /\ c.delta \in Int
    /\ c.ns = None \/ (c.ns \in Seq(Octets) /\ Fits(c.ns))

\* A length-delimited field with a bound on its length.
LEMMA FieldMessage ==
    ASSUME Wide, NEW n \in 1..31, NEW p \in Seq(Octets), NEW b \in Nat, Len(p) <= b,
           b <= FrameRoom
    PROVE  /\ Message(LdField(n, p), Slot(n, p), b + 20)
           /\ Message(LdFieldAlways(n, p), {LdItem(n, p)}, b + 20)
  <1>1. Len(p) \in Nat
    BY LenProperties
  <1>2. Len(p) <= 3 * Room + 1000
    BY <1>1, SMT DEF Room, BodyRoom, FrameRoom
  <1>3. Len(p) \in Word
    BY <1>1, <1>2, SmallWord
  <1>4. Short(Len(p))
    BY <1>3, WordShort
  <1>5. /\ IsMessage(LdField(n, p), Slot(n, p))
        /\ IsMessage(LdFieldAlways(n, p), {LdItem(n, p)})
    BY <1>4, SlotMessage
  <1>6. /\ LdFieldAlways(n, p) \in Seq(Octets) /\ LdField(n, p) \in Seq(Octets)
        /\ Len(LdFieldAlways(n, p)) <= Len(p) + 20 /\ Len(LdField(n, p)) <= Len(p) + 20
        /\ Len(LdFieldAlways(n, p)) \in Nat /\ Len(LdField(n, p)) \in Nat
    BY <1>3, LdLength
  <1>7. \A x, y \in Nat : y <= x + 20 /\ x <= b => y <= b + 20
    OBVIOUS
  <1>8. Len(LdFieldAlways(n, p)) <= b + 20 /\ Len(LdField(n, p)) <= b + 20
    BY <1>1, <1>6, <1>7
  <1> QED BY <1>5, <1>6, <1>8 DEF Message

\* The pieces that requests are made of.
LEMMA Pieces ==
    ASSUME Wide, NEW c, IsCall(c)
    PROVE  /\ Message(LdField(1, c.key), Slot(1, c.key), Room + 20)
           /\ Message(LdField(2, c.value), Slot(2, c.value), Room + 20)
           /\ \A n \in 1..4 :
                Message(TtlField(n, c.ttl), Slot(n, TtlMessage(c.ttl)), 20 + 20)
           /\ \A n \in 1..4 :
                Message(NamespaceField(n, c.ns), Slot(n, NamespaceMessage(c.ns)), Room + 20 + 20)
           /\ Message(Int64Field(2, c.delta), {VarintItem(2, c.delta % 2^WordBits)}, 20)
  <1>1. /\ Room \in Nat /\ Room <= FrameRoom /\ Room + 20 <= FrameRoom
        /\ 20 <= FrameRoom
    BY SMT DEF Room, BodyRoom, FrameRoom
  <1>2. /\ c.key \in Seq(Octets) /\ Len(c.key) \in Nat /\ Len(c.key) <= Room
        /\ c.value \in Seq(Octets) /\ Len(c.value) \in Nat /\ Len(c.value) <= Room
    <2>1. /\ c.key \in Seq(Octets) /\ Len(c.key) < Room /\ c.value \in Seq(Octets)
          /\ Len(c.value) < Room
      BY DEF IsCall, Fits
    <2>2. Len(c.key) \in Nat /\ Len(c.value) \in Nat
      BY <2>1, LenProperties
    <2>3. \A x \in Nat : x < Room => x <= Room
      BY <1>1
    <2> QED BY <2>1, <2>2, <2>3
  <1>3. TtlMessage(c.ttl) \in Seq(Octets) /\ Len(TtlMessage(c.ttl)) <= 20
    BY TtlTravels DEF IsCall
  <1>4. NamespaceMessage(c.ns) \in Seq(Octets) /\ Len(NamespaceMessage(c.ns)) <= Room + 20
    BY NamespaceTravels DEF IsCall
  <1>5. \A n \in 1..4 : n \in 1..31
    OBVIOUS
  <1>6. Message(LdField(1, c.key), Slot(1, c.key), Room + 20)
    <2>1. 1 \in 1..31
      OBVIOUS
    <2> QED BY <1>1, <1>2, <2>1, FieldMessage
  <1>7. Message(LdField(2, c.value), Slot(2, c.value), Room + 20)
    <2>1. 2 \in 1..31
      OBVIOUS
    <2> QED BY <1>1, <1>2, <2>1, FieldMessage
  <1>8. ASSUME NEW n \in 1..4
        PROVE  Message(TtlField(n, c.ttl), Slot(n, TtlMessage(c.ttl)), 20 + 20)
    <2>1. 20 \in Nat /\ TtlField(n, c.ttl) = LdField(n, TtlMessage(c.ttl))
      BY OptionalFields
    <2>2. Message(LdField(n, TtlMessage(c.ttl)), Slot(n, TtlMessage(c.ttl)), 20 + 20)
      BY <1>1, <1>3, <1>5, FieldMessage
    <2> QED BY <2>1, <2>2
  <1>9. ASSUME NEW n \in 1..4
        PROVE  Message(NamespaceField(n, c.ns), Slot(n, NamespaceMessage(c.ns)), Room + 20 + 20)
    <2>1. Room + 20 \in Nat /\ NamespaceField(n, c.ns) = LdField(n, NamespaceMessage(c.ns))
      BY <1>1, OptionalFields
    <2>2. Message(LdField(n, NamespaceMessage(c.ns)), Slot(n, NamespaceMessage(c.ns)), Room + 20 + 20)
      BY <1>1, <1>4, <1>5, <2>1, FieldMessage
    <2> QED BY <2>1, <2>2
  <1>10. Message(Int64Field(2, c.delta), {VarintItem(2, c.delta % 2^WordBits)}, 20)
    <2> DEFINE v == c.delta % 2^WordBits
               t == EncodeVarint[8 * 2 + Varint]
               l == EncodeVarint[v]
    <2>1. v \in Word
      <3>1. 2^WordBits \in Nat \ {0} /\ 2^WordBits <= 2 * Sign
        BY WordAssumption DEF WordAssumption, Wide
      <3>2. c.delta \in Int
        BY DEF IsCall
      <3>3. \A m \in Nat \ {0} : \A d \in Int : d % m \in 0..(m - 1)
        OBVIOUS
      <3>4. v \in 0..(2^WordBits - 1)
        BY <3>1, <3>2, <3>3
      <3> HIDE DEF v
      <3>5. \A m \in Nat \ {0} : m <= 2 * Sign /\ v \in 0..(m - 1) => v \in Nat /\ v < 2 * Sign
        BY WordFits
      <3> QED BY <3>1, <3>4, <3>5 DEF Word
    <2>2. 8 * 2 + Varint \in Word
      <3>1. 8 * 2 + Varint \in Nat /\ 8 * 2 + Varint <= 3 * Room + 1000
        BY SMT DEF Varint, Room, BodyRoom, FrameRoom
      <3> QED BY <3>1, SmallWord
    <2> HIDE DEF v
    <2>3. /\ t \in Seq(Octets) /\ l \in Seq(Octets) /\ Len(t) \in 1..10 /\ Len(l) \in 1..10
          /\ v \in Nat /\ Short(v)
      BY <2>1, <2>2, WordShort
    <2>4. IsMessage(Tag(2, Varint) \o EncodeVarint[v], {VarintItem(2, v)})
      <3>1. 2 \in 1..31
        OBVIOUS
      <3> QED BY <2>3, <3>1, VarintMessage
    <2>5. Int64Field(2, c.delta) = t \o l
      BY DEF Int64Field, Tag, v
    <2>6. Tag(2, Varint) \o EncodeVarint[v] = t \o l
      BY DEF Tag
    <2> HIDE DEF t, l
    <2>7. t \o l \in Seq(Octets) /\ Len(t \o l) = Len(t) + Len(l)
      BY <2>3, ConcatProperties
    <2>8. \A x, y \in 1..10 : x + y \in Nat /\ x + y <= 20
      OBVIOUS
    <2>9. Len(t \o l) \in Nat /\ Len(t \o l) <= 20
      BY <2>3, <2>7, <2>8
    <2>10. Message(Int64Field(2, c.delta), {VarintItem(2, v)}, 20)
      BY <2>4, <2>5, <2>6, <2>7, <2>9 DEF Message
    <2> QED BY <2>10 DEF v
  <1> QED BY <1>6, <1>7, <1>8, <1>9, <1>10

\* What the server is meant to read: the arguments that the operation has, the
\* ttl when it is positive, the namespace when it is not blank, and the delta
\* as its int64.
RequestRead(c) ==
    [op    |-> c.op,
     key   |-> IF c.op = "ping" THEN <<>> ELSE c.key,
     value |-> IF c.op \in {"set", "set_nx"} THEN c.value ELSE <<>>,
     delta |-> IF c.op = "incr" THEN ReadInt64(c.delta % 2^WordBits) ELSE 0,
     ttl   |-> IF c.op \in {"set", "set_nx", "incr", "set_ttl_by_pattern"} /\ c.ttl > 0
               THEN c.ttl ELSE None,
     ns    |-> IF c.op \notin {"ping", "auth"} /\ HasNamespace(c.ns) THEN c.ns ELSE None]

\* A slot has fields of its number only.
LEMMA SlotFields ==
    ASSUME NEW n, NEW p
    PROVE  \A y \in Slot(n, p) : y.field = n
  BY DEF Slot, LdItem

\* How the Optional messages are read.
LEMMA OptionalsRead ==
    ASSUME Wide, NEW c, IsCall(c), NEW e, NEW S, IsMessage(e, S), NEW n
    PROVE  /\ Slot(n, TtlMessage(c.ttl)) \subseteq S
              /\ (\A y \in S : y.field = n => y \in Slot(n, TtlMessage(c.ttl)))
              => OptionalUint64(LastOf(Fields(e), n, LD, None).bytes)
                   = IF c.ttl > 0 THEN c.ttl ELSE None
           /\ Slot(n, NamespaceMessage(c.ns)) \subseteq S
              /\ (\A y \in S : y.field = n => y \in Slot(n, NamespaceMessage(c.ns)))
              => OptionalBytes(LastOf(Fields(e), n, LD, None).bytes)
                   = IF HasNamespace(c.ns) THEN c.ns ELSE None
           /\ (\A y \in S : y.field # n)
              => /\ OptionalUint64(LastOf(Fields(e), n, LD, None).bytes) = None
                 /\ OptionalBytes(LastOf(Fields(e), n, LD, None).bytes) = None
  <1>1. OptionalUint64(None) = None /\ OptionalBytes(None) = None
    BY DEF OptionalUint64, OptionalBytes
  <1>2. ASSUME Slot(n, TtlMessage(c.ttl)) \subseteq S,
               \A y \in S : y.field = n => y \in Slot(n, TtlMessage(c.ttl))
        PROVE  OptionalUint64(LastOf(Fields(e), n, LD, None).bytes)
                 = IF c.ttl > 0 THEN c.ttl ELSE None
    <2>1. LastOf(Fields(e), n, LD, None).bytes
            = IF TtlMessage(c.ttl) = <<>> THEN None ELSE TtlMessage(c.ttl)
      BY <1>2, SlotRead
    <2>2. /\ TtlMessage(c.ttl) = <<>> <=> ~(c.ttl > 0)
          /\ c.ttl > 0 => OptionalUint64(TtlMessage(c.ttl)) = c.ttl
      BY TtlTravels DEF IsCall
    <2> QED BY <1>1, <2>1, <2>2
  <1>3. ASSUME Slot(n, NamespaceMessage(c.ns)) \subseteq S,
               \A y \in S : y.field = n => y \in Slot(n, NamespaceMessage(c.ns))
        PROVE  OptionalBytes(LastOf(Fields(e), n, LD, None).bytes)
                 = IF HasNamespace(c.ns) THEN c.ns ELSE None
    <2>1. LastOf(Fields(e), n, LD, None).bytes
            = IF NamespaceMessage(c.ns) = <<>> THEN None ELSE NamespaceMessage(c.ns)
      BY <1>3, SlotRead
    <2>2. /\ NamespaceMessage(c.ns) = <<>> <=> ~HasNamespace(c.ns)
          /\ HasNamespace(c.ns) => OptionalBytes(NamespaceMessage(c.ns)) = c.ns
      BY NamespaceTravels DEF IsCall
    <2> QED BY <1>1, <2>1, <2>2
  <1>4. ASSUME \A y \in S : y.field # n
        PROVE  LastOf(Fields(e), n, LD, None).bytes = None
    BY <1>4, LastAbsent
  <1> QED BY <1>1, <1>2, <1>3, <1>4

\* The body of a request is short enough for a frame, and is read as meant.
BodyRead(c) ==
    /\ \E S : Message(RequestInner(c), S, BodyRoom)
    /\ RequestRecord(c.op, Fields(RequestInner(c))) = RequestRead(c)

\* A bound may be raised to the one for bodies.
LEMMA Within ==
    ASSUME NEW e, NEW S, NEW b \in Nat, Message(e, S, b), b <= BodyRoom
    PROVE  Message(e, S, BodyRoom)
  <1>1. BodyRoom \in Nat
    BY DEF Room, BodyRoom, FrameRoom
  <1>2. \A x \in Nat : x <= b => x <= BodyRoom
    BY <1>1
  <1> QED BY <1>2 DEF Message

\* The body of set and set_nx.
LEMMA SetBody ==
    ASSUME Wide, NEW c, IsCall(c), c.op \in {"set", "set_nx"}
    PROVE  BodyRead(c)
  <1> DEFINE e == RequestInner(c)
             S1 == Slot(1, c.key)
             S2 == Slot(2, c.value)
             S3 == Slot(3, TtlMessage(c.ttl))
             S4 == Slot(4, NamespaceMessage(c.ns))
             S == ((S1 \cup S2) \cup S3) \cup S4
             b == (((Room + 20) + (Room + 20)) + (20 + 20)) + (Room + 20 + 20)
  <1>1. e = ((LdField(1, c.key) \o LdField(2, c.value)) \o TtlField(3, c.ttl))
              \o NamespaceField(4, c.ns)
    BY DEF RequestInner, EncodeSetRequest
  <1>2. /\ Room + 20 \in Nat /\ 20 + 20 \in Nat /\ Room + 20 + 20 \in Nat
        /\ b \in Nat /\ b <= BodyRoom
    BY SMT DEF Room, BodyRoom, FrameRoom
  <1>3. /\ Message(LdField(1, c.key), S1, Room + 20)
        /\ Message(LdField(2, c.value), S2, Room + 20)
        /\ Message(TtlField(3, c.ttl), S3, 20 + 20)
        /\ Message(NamespaceField(4, c.ns), S4, Room + 20 + 20)
    <2>1. 3 \in 1..4 /\ 4 \in 1..4
      OBVIOUS
    <2> QED BY <2>1, Pieces
  <1> HIDE DEF e, S1, S2, S3, S4
  <1>4. /\ (Room + 20) + (Room + 20) \in Nat
        /\ Message(LdField(1, c.key) \o LdField(2, c.value), S1 \cup S2, (Room + 20) + (Room + 20))
    BY <1>2, <1>3, Join
  <1>5. /\ ((Room + 20) + (Room + 20)) + (20 + 20) \in Nat
        /\ Message((LdField(1, c.key) \o LdField(2, c.value)) \o TtlField(3, c.ttl),
                   (S1 \cup S2) \cup S3, ((Room + 20) + (Room + 20)) + (20 + 20))
    BY <1>2, <1>3, <1>4, Join
  <1>6. Message(e, S, b)
    BY <1>1, <1>2, <1>3, <1>5, Join
  <1>7. IsMessage(e, S) /\ Message(e, S, BodyRoom)
    BY <1>2, <1>6, Within DEF Message
  <1>8. /\ \A y \in S1 : y.field = 1
        /\ \A y \in S2 : y.field = 2
        /\ \A y \in S3 : y.field = 3
        /\ \A y \in S4 : y.field = 4
    BY SlotFields DEF S1, S2, S3, S4
  <1>9. BytesOf(Fields(e), 1) = c.key
    <2>1. S1 \subseteq S /\ \A y \in S : y.field = 1 => y \in S1
      BY <1>8
    <2> QED BY <1>7, <2>1, SlotRead DEF S1
  <1>10. BytesOf(Fields(e), 2) = c.value
    <2>1. S2 \subseteq S /\ \A y \in S : y.field = 2 => y \in S2
      BY <1>8
    <2> QED BY <1>7, <2>1, SlotRead DEF S2
  <1>11. OptionalUint64(LastOf(Fields(e), 3, LD, None).bytes) = IF c.ttl > 0 THEN c.ttl ELSE None
    <2>1. S3 \subseteq S /\ \A y \in S : y.field = 3 => y \in S3
      BY <1>8
    <2> QED BY <1>7, <2>1, OptionalsRead DEF S3
  <1>12. OptionalBytes(LastOf(Fields(e), 4, LD, None).bytes)
           = IF HasNamespace(c.ns) THEN c.ns ELSE None
    <2>1. S4 \subseteq S /\ \A y \in S : y.field = 4 => y \in S4
      BY <1>8
    <2> QED BY <1>7, <2>1, OptionalsRead DEF S4
  <1>13. TtlNumber(c.op) = 3 /\ NamespaceNumber(c.op) = 4
    BY DEF TtlNumber, NamespaceNumber
  <1>14. RequestRecord(c.op, Fields(e)) = RequestRead(c)
    BY <1>9, <1>10, <1>11, <1>12, <1>13 DEF RequestRecord, RequestRead
  <1> QED BY <1>7, <1>14 DEF BodyRead, e

\* The body of incr.
LEMMA IncrBody ==
    ASSUME Wide, NEW c, IsCall(c), c.op = "incr"
    PROVE  BodyRead(c)
  <1> DEFINE e == RequestInner(c)
             S1 == Slot(1, c.key)
             S2 == {VarintItem(2, c.delta % 2^WordBits)}
             S3 == Slot(3, TtlMessage(c.ttl))
             S4 == Slot(4, NamespaceMessage(c.ns))
             S == ((S1 \cup S2) \cup S3) \cup S4
             b == (((Room + 20) + (20)) + (20 + 20)) + (Room + 20 + 20)
  <1>1. e = ((LdField(1, c.key) \o Int64Field(2, c.delta)) \o TtlField(3, c.ttl)) \o NamespaceField(4, c.ns)
    BY DEF RequestInner, EncodeIncrRequest
  <1>2. /\ Room + 20 \in Nat /\ 20 + 20 \in Nat /\ 20 \in Nat /\ Room + 20 + 20 \in Nat
        /\ b \in Nat /\ b <= BodyRoom
    BY SMT DEF Room, BodyRoom, FrameRoom
  <1>3. /\ Message(LdField(1, c.key), S1, Room + 20)
        /\ Message(Int64Field(2, c.delta), S2, 20)
        /\ Message(TtlField(3, c.ttl), S3, 20 + 20)
        /\ Message(NamespaceField(4, c.ns), S4, Room + 20 + 20)
    <2>1. 2 \in 1..4 /\ 3 \in 1..4 /\ 4 \in 1..4
      OBVIOUS
    <2> QED BY <2>1, Pieces
  <1> HIDE DEF e, S1, S2, S3, S4
  <1>4. /\ (Room + 20) + (20) \in Nat
        /\ Message(LdField(1, c.key) \o Int64Field(2, c.delta),
                   S1 \cup S2, (Room + 20) + (20))
    BY <1>2, <1>3, Join
  <1>5. /\ ((Room + 20) + (20)) + (20 + 20) \in Nat
        /\ Message((LdField(1, c.key) \o Int64Field(2, c.delta)) \o TtlField(3, c.ttl),
                   (S1 \cup S2) \cup S3, ((Room + 20) + (20)) + (20 + 20))
    BY <1>2, <1>3, <1>4, Join
  <1>6. Message(e, S, b)
    BY <1>1, <1>2, <1>3, <1>5, Join
  <1>7. IsMessage(e, S) /\ Message(e, S, BodyRoom)
    BY <1>2, <1>6, Within DEF Message
  <1>8. /\ \A y \in S1 : y.field = 1
        /\ \A y \in S2 : y.field = 2
        /\ \A y \in S3 : y.field = 3
        /\ \A y \in S4 : y.field = 4
    BY SlotFields DEF VarintItem, S1, S2, S3, S4
  <1>9. BytesOf(Fields(e), 1) = c.key
    <2>1. S1 \subseteq S /\ \A y \in S : y.field = 1 => y \in S1
      BY <1>8
    <2> QED BY <1>7, <2>1, SlotRead DEF S1
  <1>10. NumOf(Fields(e), 2) = c.delta % 2^WordBits
    <2> DEFINE x == VarintItem(2, c.delta % 2^WordBits)
    <2>1. x.field = 2 /\ x.wire = Varint /\ x.num = c.delta % 2^WordBits
      BY DEF VarintItem
    <2>2. x \in S2 /\ \A y \in S2 : y = x
      BY DEF S2
    <2> HIDE DEF x
    <2>3. x \in S /\ \A y \in S : y.field = 2 => y = x
      BY <1>8, <2>2
    <2> QED BY <1>7, <2>1, <2>3, LastFound DEF NumOf
  <1>11. OptionalUint64(LastOf(Fields(e), 3, LD, None).bytes) = IF c.ttl > 0 THEN c.ttl ELSE None
    <2>1. S3 \subseteq S /\ \A y \in S : y.field = 3 => y \in S3
      BY <1>8
    <2> QED BY <1>7, <2>1, OptionalsRead DEF S3
  <1>12. OptionalBytes(LastOf(Fields(e), 4, LD, None).bytes)
           = IF HasNamespace(c.ns) THEN c.ns ELSE None
    <2>1. S4 \subseteq S /\ \A y \in S : y.field = 4 => y \in S4
      BY <1>8
    <2> QED BY <1>7, <2>1, OptionalsRead DEF S4
  <1>13. TtlNumber(c.op) = 3 /\ NamespaceNumber(c.op) = 4
    BY DEF TtlNumber, NamespaceNumber
  <1>14. RequestRecord(c.op, Fields(e)) = RequestRead(c)
    BY <1>9, <1>10, <1>11, <1>12, <1>13 DEF RequestRecord, RequestRead
  <1> QED BY <1>7, <1>14 DEF BodyRead, e


\* The body of set_ttl_by_pattern.
LEMMA SetTtlByPatternBody ==
    ASSUME Wide, NEW c, IsCall(c), c.op = "set_ttl_by_pattern"
    PROVE  BodyRead(c)
  <1> DEFINE e == RequestInner(c)
             S1 == Slot(1, c.key)
             S2 == Slot(2, TtlMessage(c.ttl))
             S3 == Slot(3, NamespaceMessage(c.ns))
             S == (S1 \cup S2) \cup S3
             b == ((Room + 20) + (20 + 20)) + (Room + 20 + 20)
  <1>1. e = (LdField(1, c.key) \o TtlField(2, c.ttl)) \o NamespaceField(3, c.ns)
    BY DEF RequestInner, EncodeSetTtlByPatternRequest
  <1>2. /\ Room + 20 \in Nat /\ 20 + 20 \in Nat /\ 20 \in Nat /\ Room + 20 + 20 \in Nat
        /\ b \in Nat /\ b <= BodyRoom
    BY SMT DEF Room, BodyRoom, FrameRoom
  <1>3. /\ Message(LdField(1, c.key), S1, Room + 20)
        /\ Message(TtlField(2, c.ttl), S2, 20 + 20)
        /\ Message(NamespaceField(3, c.ns), S3, Room + 20 + 20)
    <2>1. 2 \in 1..4 /\ 3 \in 1..4 /\ 4 \in 1..4
      OBVIOUS
    <2> QED BY <2>1, Pieces
  <1> HIDE DEF e, S1, S2, S3
  <1>4. /\ (Room + 20) + (20 + 20) \in Nat
        /\ Message(LdField(1, c.key) \o TtlField(2, c.ttl),
                   S1 \cup S2, (Room + 20) + (20 + 20))
    BY <1>2, <1>3, Join
  <1>6. Message(e, S, b)
    BY <1>1, <1>2, <1>3, <1>4, Join
  <1>7. IsMessage(e, S) /\ Message(e, S, BodyRoom)
    BY <1>2, <1>6, Within DEF Message
  <1>8. /\ \A y \in S1 : y.field = 1
        /\ \A y \in S2 : y.field = 2
        /\ \A y \in S3 : y.field = 3
    BY SlotFields DEF S1, S2, S3
  <1>9. BytesOf(Fields(e), 1) = c.key
    <2>1. S1 \subseteq S /\ \A y \in S : y.field = 1 => y \in S1
      BY <1>8
    <2> QED BY <1>7, <2>1, SlotRead DEF S1
  <1>11. OptionalUint64(LastOf(Fields(e), 2, LD, None).bytes) = IF c.ttl > 0 THEN c.ttl ELSE None
    <2>1. S2 \subseteq S /\ \A y \in S : y.field = 2 => y \in S2
      BY <1>8
    <2> QED BY <1>7, <2>1, OptionalsRead DEF S2
  <1>12. OptionalBytes(LastOf(Fields(e), 3, LD, None).bytes)
           = IF HasNamespace(c.ns) THEN c.ns ELSE None
    <2>1. S3 \subseteq S /\ \A y \in S : y.field = 3 => y \in S3
      BY <1>8
    <2> QED BY <1>7, <2>1, OptionalsRead DEF S3
  <1>13. TtlNumber(c.op) = 2 /\ NamespaceNumber(c.op) = 3
    BY DEF TtlNumber, NamespaceNumber
  <1>14. RequestRecord(c.op, Fields(e)) = RequestRead(c)
    BY <1>9, <1>11, <1>12, <1>13 DEF RequestRecord, RequestRead
  <1> QED BY <1>7, <1>14 DEF BodyRead, e


\* The body of the operations with a key and a namespace.
LEMMA KeyBody ==
    ASSUME Wide, NEW c, IsCall(c), c.op \in {"get", "delete", "watch", "unwatch", "delete_by_pattern"}
    PROVE  BodyRead(c)
  <1> DEFINE e == RequestInner(c)
             S1 == Slot(1, c.key)
             S2 == Slot(2, NamespaceMessage(c.ns))
             S == S1 \cup S2
             b == (Room + 20) + (Room + 20 + 20)
  <1>1. e = LdField(1, c.key) \o NamespaceField(2, c.ns)
    BY DEF RequestInner, EncodeKeyNamespace
  <1>2. /\ Room + 20 \in Nat /\ 20 + 20 \in Nat /\ 20 \in Nat /\ Room + 20 + 20 \in Nat
        /\ b \in Nat /\ b <= BodyRoom
    BY SMT DEF Room, BodyRoom, FrameRoom
  <1>3. /\ Message(LdField(1, c.key), S1, Room + 20)
        /\ Message(NamespaceField(2, c.ns), S2, Room + 20 + 20)
    <2>1. 2 \in 1..4 /\ 3 \in 1..4 /\ 4 \in 1..4
      OBVIOUS
    <2> QED BY <2>1, Pieces
  <1> HIDE DEF e, S1, S2
  <1>6. Message(e, S, b)
    BY <1>1, <1>2, <1>3, Join
  <1>7. IsMessage(e, S) /\ Message(e, S, BodyRoom)
    BY <1>2, <1>6, Within DEF Message
  <1>8. /\ \A y \in S1 : y.field = 1
        /\ \A y \in S2 : y.field = 2
    BY SlotFields DEF S1, S2
  <1>9. BytesOf(Fields(e), 1) = c.key
    <2>1. S1 \subseteq S /\ \A y \in S : y.field = 1 => y \in S1
      BY <1>8
    <2> QED BY <1>7, <2>1, SlotRead DEF S1
  <1>11. OptionalUint64(LastOf(Fields(e), 3, LD, None).bytes) = None
    <2>1. \A y \in S : y.field # 3
      BY <1>8
    <2> QED BY <1>7, <2>1, OptionalsRead
  <1>12. OptionalBytes(LastOf(Fields(e), 2, LD, None).bytes)
           = IF HasNamespace(c.ns) THEN c.ns ELSE None
    <2>1. S2 \subseteq S /\ \A y \in S : y.field = 2 => y \in S2
      BY <1>8
    <2> QED BY <1>7, <2>1, OptionalsRead DEF S2
  <1>13. TtlNumber(c.op) = 3 /\ NamespaceNumber(c.op) = 2
    BY DEF TtlNumber, NamespaceNumber
  <1>14. RequestRecord(c.op, Fields(e)) = RequestRead(c)
    BY <1>9, <1>11, <1>12, <1>13 DEF RequestRecord, RequestRead
  <1> QED BY <1>7, <1>14 DEF BodyRead, e


\* The body of auth.
LEMMA AuthBody ==
    ASSUME Wide, NEW c, IsCall(c), c.op = "auth"
    PROVE  BodyRead(c)
  <1> DEFINE e == RequestInner(c)
             S1 == Slot(1, c.key)
             S == S1
             b == (Room + 20)
  <1>1. e = LdField(1, c.key)
    BY DEF RequestInner, EncodeAuthRequest
  <1>2. /\ Room + 20 \in Nat /\ 20 + 20 \in Nat /\ 20 \in Nat /\ Room + 20 + 20 \in Nat
        /\ b \in Nat /\ b <= BodyRoom
    BY SMT DEF Room, BodyRoom, FrameRoom
  <1>3. /\ Message(LdField(1, c.key), S1, Room + 20)
    <2>1. 2 \in 1..4 /\ 3 \in 1..4 /\ 4 \in 1..4
      OBVIOUS
    <2> QED BY <2>1, Pieces
  <1> HIDE DEF e, S1
  <1>6. Message(e, S, b)
    BY <1>1, <1>3
  <1>7. IsMessage(e, S) /\ Message(e, S, BodyRoom)
    BY <1>2, <1>6, Within DEF Message
  <1>8. /\ \A y \in S1 : y.field = 1
    BY SlotFields DEF S1
  <1>9. BytesOf(Fields(e), 1) = c.key
    <2>1. S1 \subseteq S /\ \A y \in S : y.field = 1 => y \in S1
      BY <1>8
    <2> QED BY <1>7, <2>1, SlotRead DEF S1
  <1>11. OptionalUint64(LastOf(Fields(e), 3, LD, None).bytes) = None
    <2>1. \A y \in S : y.field # 3
      BY <1>8
    <2> QED BY <1>7, <2>1, OptionalsRead
  <1>12. OptionalBytes(LastOf(Fields(e), 2, LD, None).bytes) = None
    <2>1. \A y \in S : y.field # 2
      BY <1>8
    <2> QED BY <1>7, <2>1, OptionalsRead
  <1>13. TtlNumber(c.op) = 3 /\ NamespaceNumber(c.op) = 2
    BY DEF TtlNumber, NamespaceNumber
  <1>14. RequestRecord(c.op, Fields(e)) = RequestRead(c)
    BY <1>9, <1>11, <1>12, <1>13 DEF RequestRecord, RequestRead
  <1> QED BY <1>7, <1>14 DEF BodyRead, e


\* The body of ping.
LEMMA PingBody ==
    ASSUME Wide, NEW c, IsCall(c), c.op = "ping"
    PROVE  BodyRead(c)
  <1>1. RequestInner(c) = <<>> /\ <<>> \in Seq(Octets) /\ Len(<<>>) = 0 /\ 0 <= BodyRoom
    BY SMT DEF RequestInner, Room, BodyRoom, FrameRoom
  <1>2. IsMessage(<<>>, {}) /\ Message(<<>>, {}, BodyRoom)
    BY <1>1, NoFields DEF Message
  <1>3. /\ OptionalUint64(LastOf(Fields(<<>>), 3, LD, None).bytes) = None
        /\ OptionalBytes(LastOf(Fields(<<>>), 2, LD, None).bytes) = None
        /\ BytesOf(Fields(<<>>), 1) = <<>>
    <2>1. \A n : \A y \in {} : y.field # n
      OBVIOUS
    <2> QED BY <1>2, <2>1, OptionalsRead, LastAbsent DEF BytesOf
  <1>4. TtlNumber(c.op) = 3 /\ NamespaceNumber(c.op) = 2
    BY DEF TtlNumber, NamespaceNumber
  <1>5. RequestRecord(c.op, Fields(<<>>)) = RequestRead(c)
    BY <1>3, <1>4 DEF RequestRecord, RequestRead
  <1> QED BY <1>1, <1>2, <1>5 DEF BodyRead

\* Every request's body is read as meant.
LEMMA BodyOfRequest ==
    ASSUME Wide, NEW c, IsCall(c)
    PROVE  BodyRead(c)
  <1>1. c.op \in {"get", "set", "delete", "ping", "auth", "watch", "unwatch",
                  "delete_by_pattern", "set_ttl_by_pattern", "set_nx", "incr"}
    BY DEF IsCall, RequestFields
  <1> QED BY <1>1, SetBody, IncrBody, SetTtlByPatternBody, KeyBody, AuthBody, PingBody

\* The one field of a client request is the request's variant.
LEMMA VariantRead ==
    ASSUME NEW n \in 1..31, NEW p \in Seq(Octets), Short(Len(p))
    PROVE  /\ FirstVariant(Fields(LdFieldAlways(n, p))).field = n
           /\ FirstVariant(Fields(LdFieldAlways(n, p))).bytes = p
  <1> DEFINE f == Fields(LdFieldAlways(n, p))
             g == <<LdItem(n, p)>>
             I == {i \in 1..Len(f) : f[i].wire = LD}
  <1>1. Matches(f, g)
    BY EncodesLdAlways, FieldsOfMessage
  <1>2. Len(g) = 1 /\ g[1].field = n /\ g[1].wire = LD /\ g[1].bytes = p
    BY DEF LdItem
  <1> HIDE DEF f, g
  <1>3. Len(f) = 1 /\ f[1].field = n /\ f[1].wire = LD /\ f[1].bytes = p
    <2>1. Len(f) = 1 /\ IsItem(f[1], g[1])
      BY <1>1, <1>2 DEF Matches
    <2> QED BY <1>2, <2>1 DEF IsItem
  <1>4. I # {} /\ I \in SUBSET (1..1) /\ 1 \in Nat
    BY <1>3
  <1>5. Min(I) \in I
    BY <1>4, FirstPosition
  <1>6. SelectInSeq(f, LAMBDA x : x.wire = LD) = Min(I)
    BY <1>4, Zenon DEF SelectInSeq
  <1>7. Min(I) = 1
    BY <1>3, <1>5
  <1> HIDE DEF I
  <1>8. FirstVariant(f) = f[1]
    BY <1>6, <1>7, Zenon DEF FirstVariant
  <1> QED BY <1>3, <1>8 DEF f

\* An envelope around a request is read as the request.
LEMMA EnvelopeRead ==
    ASSUME Wide, NEW n \in 1..31, NEW p, NEW S, Message(p, S, BodyRoom)
    PROVE  /\ Envelope(2, n, p) \in Seq(Octets) /\ Len(Envelope(2, n, p)) \in Nat
           /\ Len(Envelope(2, n, p)) <= FrameRoom
           /\ DecodeClientRequestVariant(Envelope(2, n, p)).field = n
           /\ DecodeClientRequestVariant(Envelope(2, n, p)).bytes = p
  <1> DEFINE q == LdFieldAlways(n, p)
             v == Tag(1, Varint) \o EncodeVarint[1]
             x == VarintItem(1, 1)
             y == LdItem(2, q)
             b == BodyRoom
  <1>1. /\ b \in Nat /\ b + 20 \in Nat /\ 20 \in Nat /\ b <= FrameRoom
        /\ b + 20 <= FrameRoom /\ 20 + (b + 20 + 20) <= FrameRoom
        /\ b + 20 + 20 \in Nat /\ b <= 3 * Room + 1000
    BY SMT DEF Room, BodyRoom, FrameRoom
  <1>2. p \in Seq(Octets) /\ Len(p) \in Nat /\ Len(p) <= b
    BY DEF Message
  <1>3. Message(q, {LdItem(n, p)}, b + 20)
    BY <1>1, <1>2, FieldMessage
  <1>4. q \in Seq(Octets) /\ Len(q) \in Nat /\ Len(q) <= b + 20
    BY <1>3 DEF Message
  <1>5. Message(LdFieldAlways(2, q), {y}, b + 20 + 20)
    <2>1. 2 \in 1..31
      OBVIOUS
    <2> HIDE DEF q, b
    <2> QED BY <1>1, <1>4, <2>1, FieldMessage, ZenonT(60)
  <1>6. Message(v, {x}, 20)
    <2> DEFINE t == EncodeVarint[8 * 1 + Varint]
               l == EncodeVarint[1]
    <2>1. 8 * 1 + Varint \in Word /\ 1 \in Word
      <3>1. 8 * 1 + Varint \in Nat /\ 8 * 1 + Varint <= 3 * Room + 1000 /\ 1 <= 3 * Room + 1000
        BY SMT DEF Varint, Room, BodyRoom, FrameRoom
      <3> QED BY <3>1, SmallWord
    <2>2. /\ t \in Seq(Octets) /\ l \in Seq(Octets) /\ Len(t) \in 1..10 /\ Len(l) \in 1..10
          /\ Short(1)
      BY <2>1, WordShort
    <2>3. IsMessage(v, {x})
      <3>1. 1 \in 1..31 /\ 1 \in Nat
        OBVIOUS
      <3> QED BY <2>2, <3>1, VarintMessage
    <2>4. v = t \o l
      BY DEF Tag
    <2> HIDE DEF t, l, v, x
    <2>5. t \o l \in Seq(Octets) /\ Len(t \o l) = Len(t) + Len(l)
      BY <2>2, ConcatProperties
    <2>6. \A i, j \in 1..10 : i + j \in Nat /\ i + j <= 20
      OBVIOUS
    <2> QED BY <2>2, <2>3, <2>4, <2>5, <2>6 DEF Message
  <1>7. Envelope(2, n, p) = v \o LdFieldAlways(2, q)
    BY DEF Envelope, Uint64Field
  <1>8. Message(Envelope(2, n, p), {x} \cup {y}, 20 + (b + 20 + 20))
    <2> DEFINE d == b + 20 + 20
               r == LdFieldAlways(2, q)
    <2>1. d \in Nat /\ 20 \in Nat
      BY <1>1
    <2>2. Message(r, {y}, d)
      BY <1>5
    <2> HIDE DEF v, x, y, q, b, d, r
    <2>3. Message(v \o r, {x} \cup {y}, 20 + d)
      BY <1>6, <2>1, <2>2, Join
    <2> QED BY <1>7, <2>3 DEF d, r
  <1>9. /\ Envelope(2, n, p) \in Seq(Octets) /\ Len(Envelope(2, n, p)) \in Nat
        /\ Len(Envelope(2, n, p)) <= FrameRoom
        /\ IsMessage(Envelope(2, n, p), {x} \cup {y})
    <2>1. \A i \in Nat : i <= 20 + (b + 20 + 20) => i <= FrameRoom
      BY <1>1, SMT DEF Room, BodyRoom, FrameRoom
    <2> HIDE DEF b, x, y
    <2> QED BY <1>8, <2>1 DEF Message
  <1>10. x.field = 1 /\ y.field = 2 /\ y.wire = LD /\ y.bytes = q
    BY DEF VarintItem, LdItem
  <1> HIDE DEF x, y, q
  <1>11. y \in {x} \cup {y} /\ \A z \in {x} \cup {y} : z.field = y.field => z = y
    BY <1>10
  <1>12. LastOf(Fields(Envelope(2, n, p)), 2, LD, None).bytes = q
    BY <1>9, <1>10, <1>11, LastFound
  <1>13. Short(Len(p))
    <2>1. Len(p) <= 3 * Room + 1000
      BY <1>1, <1>2, SMT DEF Room, BodyRoom, FrameRoom
    <2> QED BY <1>2, <2>1, SmallWord, WordShort
  <1>14. FirstVariant(Fields(q)).field = n /\ FirstVariant(Fields(q)).bytes = p
    BY <1>2, <1>13, VariantRead DEF q
  <1> QED BY <1>9, <1>12, <1>14 DEF DecodeClientRequestVariant

\* What follows the length prefix of a frame is its payload.
LEMMA FramePayload ==
    ASSUME NEW p \in Seq(Octets), Len(p) <= FrameRoom
    PROVE  /\ Frame(p) \in Seq(Octets) /\ Len(Frame(p)) = 4 + Len(p)
           /\ SubSeq(Frame(p), 5, Len(Frame(p))) = p
  <1> DEFINE n == Len(p)
             h == Length32(n)
  <1>1. n \in Nat
    BY LenProperties
  <1> HIDE DEF n
  <1>2. /\ n \div 16777216 \in Octets /\ (n \div 65536) % 256 \in Octets
        /\ (n \div 256) % 256 \in Octets /\ n % 256 \in Octets
    <2>1. n <= FrameRoom
      BY DEF n
    <2> QED BY <1>1, <2>1, SMT DEF Octets, Room, BodyRoom, FrameRoom
  <1>3. h \in Seq(Octets) /\ Len(h) = 4
    BY <1>2 DEF Length32
  <1> HIDE DEF h
  <1>4. Frame(p) = h \o p
    BY DEF Frame, h, n
  <1>5. h \o p \in Seq(Octets) /\ Len(h \o p) = 4 + Len(p)
    <2>1. h \o p \in Seq(Octets) /\ Len(h \o p) = Len(h) + Len(p)
      <3>1. \A s, t \in Seq(Octets) : s \o t \in Seq(Octets) /\ Len(s \o t) = Len(s) + Len(t)
        BY ConcatProperties
      <3> QED BY <1>3, <3>1, Zenon
    <2> QED BY <1>3, <2>1, Zenon
  <1>6. StandsAt(p, h \o p, 4 + 1)
    <2>1. <<>> \in Seq(Octets) /\ (h \o p) \o <<>> = h \o p
      BY <1>5, ConcatEmptySeq
    <2> QED BY <1>3, <2>1, StandsWithin
  <1>7. SubSeq(h \o p, 4 + 1, 4 + 1 + Len(p) - 1) = p
    BY <1>6, StandsCut
  <1>8. 4 + 1 = 5 /\ 4 + 1 + Len(p) - 1 = 4 + Len(p)
    BY LenProperties
  <1> QED BY <1>4, <1>5, <1>7, <1>8

\* A multiple of W leaves no remainder.
LEMMA Multiples ==
    ASSUME NEW W \in Nat \ {0}, NEW k \in Int
    PROVE  (W * k) % W = 0
  <1> DEFINE x == W * k
             q == x \div W
             m == x % W
             j == k - q
  <1>1. x \in Int /\ q \in Int /\ m \in Int /\ j \in Int
    OBVIOUS
  <1>2. x = W * q + m /\ 0 <= m /\ m < W
    <2> HIDE DEF x
    <2> QED BY <1>1
  <1>3. W * j = m
    <2>1. W * (k - q) = W * k - W * q
      <3> HIDE DEF q
      <3> QED BY <1>1
    <2> QED BY <1>1, <1>2, <2>1
  <1> HIDE DEF j, m
  <1>4. j < 1
    <2> SUFFICES ASSUME j >= 1 PROVE FALSE
      BY <1>1
    <2>1. W * j >= W
      BY <1>1
    <2> QED BY <1>1, <1>2, <1>3, <2>1
  <1>5. j > -1
    <2> SUFFICES ASSUME j <= -1 PROVE FALSE
      BY <1>1
    <2>1. W * j <= -W
      BY <1>1
    <2> QED BY <1>1, <1>2, <1>3, <2>1
  <1>6. j = 0
    BY <1>1, <1>4, <1>5
  <1>7. m = 0
    BY <1>3, <1>6
  <1> QED BY <1>7 DEF m

\* A number in the range of int64 is read as it was written, and one beyond
\* it as one that differs by a multiple of 2^WordBits.
LEMMA Int64Travels ==
    ASSUME NEW d \in Int
    PROVE  /\ d \in -(2^(WordBits - 1))..(2^(WordBits - 1) - 1) => ReadInt64(d % 2^WordBits) = d
           /\ ReadInt64(d % 2^WordBits) \in Int
           /\ (ReadInt64(d % 2^WordBits) - d) % 2^WordBits = 0
  <1> DEFINE H == 2^(WordBits - 1)
             W == 2^WordBits
             r == ReadInt64(d % W)
             q == d \div W
  <1>1. H \in Nat \ {0} /\ W = 2 * H
    BY WordAssumption
  <1>2. r = IF d % W >= H THEN (d % W) - W ELSE d % W
    BY DEF ReadInt64
  <1> HIDE DEF H, W, r
  <1>3. W \in Nat \ {0} /\ d % W \in 0..(W - 1) /\ q \in Int
    BY <1>1
  <1>4. r \in Int
    BY <1>1, <1>2, <1>3
  <1>5. ASSUME d \in -H..(H - 1) PROVE r = d
    <2>1. CASE d >= 0
      <3>1. d % W = d
        BY <1>1, <1>3, <1>5, <2>1
      <3> QED BY <1>1, <1>2, <1>5, <3>1
    <2>2. CASE d < 0
      <3>1. d % W = d + W
        BY <1>1, <1>3, <1>5, <2>2
      <3> QED BY <1>1, <1>2, <1>3, <1>5, <2>2, <3>1
    <2> QED BY <2>1, <2>2
  <1>6. (r - d) % W = 0
    <2>1. d = W * q + (d % W)
      BY <1>3
    <2>2. r - d = W * (-q) \/ r - d = W * (-q - 1)
      <3> DEFINE m == d % W
                 n == W * q
      <3>1. n \in Int /\ W * (-q) = -n /\ W * (-q - 1) = -n - W
        <4> HIDE DEF q
        <4> QED BY <1>3
      <3>2. m \in Int /\ d = n + m /\ (r = m \/ r = m - W)
        BY <1>2, <1>3, <2>1
      <3> HIDE DEF m, n
      <3> QED BY <1>3, <1>4, <3>1, <3>2
    <2>3. -q \in Int /\ -q - 1 \in Int
      BY <1>3
    <2> HIDE DEF q
    <2> QED BY <1>3, <2>2, <2>3, Multiples
  <1> QED BY <1>4, <1>5, <1>6 DEF H, W, r

\* Whatever a caller of the Python SDK asks for, the server reads from the
\* frame that encode_request() makes of it: for every operation, every key,
\* value and namespace of bytes up to a gigabyte, every ttl and every delta.
THEOREM RequestRoundTrip ==
    ASSUME Wide, NEW c, IsCall(c)
    PROVE  DecodeRequest(EncodeRequest(c)) = RequestRead(c)
  <1> DEFINE I == {i \in 1..Len(RequestFields) : RequestFields[i] = c.op}
             n == SelectInSeq(RequestFields, LAMBDA op : op = c.op)
             p == RequestInner(c)
  <1>1. Len(RequestFields) = 11
    BY DEF RequestFields
  <1>2. I \in SUBSET (1..11) /\ I # {} /\ 11 \in Nat
    BY <1>1 DEF IsCall
  <1>3. n = Min(I)
    BY <1>2, Zenon DEF SelectInSeq
  <1>4. Min(I) \in I
    BY <1>2, FirstPosition
  <1>5. n \in 1..11 /\ RequestFields[n] = c.op
    BY <1>1, <1>3, <1>4
  <1>6. EncodeRequest(c) = Frame(Envelope(2, n, p))
    BY Zenon DEF EncodeRequest
  <1> HIDE DEF n
  <1>7. PICK S : Message(p, S, BodyRoom)
    BY BodyOfRequest DEF BodyRead
  <1>8. RequestRecord(c.op, Fields(p)) = RequestRead(c)
    BY BodyOfRequest DEF BodyRead
  <1> HIDE DEF p
  <1>9. n \in 1..31
    BY <1>5
  <1> DEFINE e == Envelope(2, n, p)
  <1>10. /\ e \in Seq(Octets) /\ Len(e) <= FrameRoom
         /\ DecodeClientRequestVariant(e).field = n /\ DecodeClientRequestVariant(e).bytes = p
    BY <1>7, <1>9, EnvelopeRead
  <1>11. EncodeRequest(c) = Frame(e)
    BY <1>6
  <1> HIDE DEF e
  <1>12. SubSeq(Frame(e), 5, Len(Frame(e))) = e
    BY <1>10, FramePayload
  <1> QED BY <1>5, <1>8, <1>10, <1>11, <1>12, Zenon DEF DecodeRequest, RequestOf

(***************************************************************************)
(* Responses                                                               *)
(***************************************************************************)

\* A field of fixed width, which the reader steps over.
FixedItem(n, w) == [field |-> n, wire |-> w, num |-> 0, bytes |-> <<>>]

Width(w) == IF w = 1 THEN 8 ELSE 4

\* What is read after the tag of such a field.
LEMMA AfterFixedTag ==
    ASSUME NEW buf, NEW tag, NEW arg, NEW w \in {1, 5}, tag.num % 8 = w
    PROVE  ReadAfterTag(buf, tag, arg)
             = [ok |-> TRUE, field |-> tag.num \div 8, wire |-> w, num |-> 0,
                bytes |-> <<>>, next |-> tag.next + Width(w)]
  <1> DEFINE field == [ok |-> TRUE, field |-> tag.num \div 8, wire |-> tag.num % 8,
                       num |-> 0, bytes |-> <<>>, next |-> 0]
  <1>1. field = [ok |-> TRUE, field |-> tag.num \div 8, wire |-> w, num |-> 0,
                 bytes |-> <<>>, next |-> 0]
    OBVIOUS
  <1>2. field.wire = w /\ w # Varint /\ w # LD
    BY <1>1 DEF LD, Varint
  <1>3. ReadAfterTag(buf, tag, arg) = [field EXCEPT !.next = tag.next + Width(w)]
    <2> HIDE DEF field
    <2>1. ReadAfterTag(buf, tag, arg) =
          CASE field.wire = Varint /\ arg.ok ->
                [field EXCEPT !.num = arg.num, !.next = arg.next]
          [] field.wire = LD /\ arg.ok /\ arg.next + arg.num <= Len(buf) + 1 ->
                [field EXCEPT !.bytes = SubSeq(buf, arg.next, arg.next + arg.num - 1),
                              !.next = arg.next + arg.num]
          [] field.wire = 1 -> [field EXCEPT !.next = tag.next + 8]
          [] field.wire = 5 -> [field EXCEPT !.next = tag.next + 4]
          [] OTHER          -> Broken
      BY Zenon DEF ReadAfterTag, field
    <2>2. CASE w = 1
      BY <1>2, <2>1, <2>2 DEF Width
    <2>3. CASE w = 5
      BY <1>2, <2>1, <2>3 DEF Width
    <2> QED BY <2>2, <2>3
  <1> HIDE DEF field
  <1> QED BY <1>1, <1>3

\* A field of fixed width encodes its item.
LEMMA EncodesFixed ==
    ASSUME NEW n \in 1..31, NEW w \in {1, 5}, NEW p \in Seq(Octets), Len(p) = Width(w)
    PROVE  Encodes(Tag(n, w) \o p, <<FixedItem(n, w)>>)
  <1> DEFINE v == 8 * n + w
             t == EncodeVarint[v]
             e == Tag(n, w) \o p
             x == FixedItem(n, w)
  <1>1. v \in Nat /\ Short(v) /\ v \div 8 = n /\ v % 8 = w /\ n \in Nat /\ Width(w) \in Nat
    <2>1. w \in 0..7 /\ n \in Nat
      OBVIOUS
    <2> QED BY <2>1, TagShort, TagParts DEF Width
  <1> HIDE DEF v
  <1>2. t \in Seq(Octets) /\ Len(t) >= 1 /\ Len(t) \in Nat
    BY <1>1, EncodedShape, LenProperties DEF VarintShape
  <1>3. e = t \o p
    BY DEF Tag, v
  <1> HIDE DEF t, e
  <1>4. e \in Seq(Octets) /\ Len(e) = Len(t) + Width(w) /\ Len(e) > 0
    <2>1. e \in Seq(Octets) /\ Len(e) = Len(t) + Len(p)
      BY <1>2, <1>3, ConcatProperties
    <2> QED BY <1>1, <1>2, <2>1
  <1>5. x \in Items
    BY <1>1 DEF FixedItem, Items
  <1>6. x.field = n /\ x.wire = w /\ x.num = 0 /\ x.bytes = <<>>
    BY DEF FixedItem
  <1> HIDE DEF x
  <1>7. ASSUME NEW buf, NEW i, StandsAt(e, buf, i)
        PROVE  FieldAt(buf, i) = [ok |-> TRUE, field |-> x.field, wire |-> x.wire,
                                  num |-> x.num, bytes |-> x.bytes, next |-> i + Len(e)]
    <2> DEFINE tag == [ok |-> TRUE, num |-> v, next |-> i + Len(t)]
    <2>1. StandsAt(t, buf, i)
      BY <1>2, <1>3, <1>7, StandsParts
    <2>2. ReadVarint(buf, i) = tag /\ i \in Nat
      BY <1>1, <2>1, ReadBack DEF Short, StandsAt, t
    <2>3. tag.ok = TRUE /\ tag.num = v /\ tag.next = i + Len(t)
      OBVIOUS
    <2> HIDE DEF tag
    <2>4. FieldAt(buf, i) = ReadAfterTag(buf, tag, ReadVarint(buf, tag.next))
      BY <2>2, <2>3 DEF FieldAt, ReadField
    <2>5. FieldAt(buf, i) = [ok |-> TRUE, field |-> n, wire |-> w, num |-> 0, bytes |-> <<>>,
                             next |-> tag.next + Width(w)]
      <3>1. tag.num % 8 = w /\ tag.num \div 8 = n
        BY <1>1, <2>3
      <3>2. \A arg : ReadAfterTag(buf, tag, arg)
                     = [ok |-> TRUE, field |-> tag.num \div 8, wire |-> w, num |-> 0,
                        bytes |-> <<>>, next |-> tag.next + Width(w)]
        BY <3>1, AfterFixedTag
      <3> QED BY <2>4, <3>1, <3>2, Zenon
    <2>6. tag.next + Width(w) = i + Len(e)
      BY <1>1, <1>2, <1>4, <2>2, <2>3
    <2> QED BY <1>6, <2>5, <2>6, Zenon
  <1>8. Encodes(e, <<x>>)
    BY <1>4, <1>5, <1>7, EncodesOne
  <1> QED BY <1>8 DEF e, x

\* The field that Uint64Field() writes, if it writes one.
NumSlot(n, v) == IF v = 0 THEN {} ELSE {VarintItem(n, v)}

\* A field with a bound on its length: a varint, a number that is left out
\* when it is zero, and one of fixed width.
LEMMA NumberMessage ==
    ASSUME Wide, NEW n \in 1..31, NEW v \in Word
    PROVE  /\ Message(Tag(n, Varint) \o EncodeVarint[v], {VarintItem(n, v)}, 20)
           /\ Message(Uint64Field(n, v), NumSlot(n, v), 20)
  <1> DEFINE t == EncodeVarint[8 * n + Varint]
             l == EncodeVarint[v]
             e == Tag(n, Varint) \o EncodeVarint[v]
  <1>1. 8 * n + Varint \in Word
    <2>1. 8 * n + Varint \in Nat /\ 8 * n + Varint <= 3 * Room + 1000
      BY SMT DEF Varint, Room, BodyRoom, FrameRoom
    <2> QED BY <2>1, SmallWord
  <1>2. /\ t \in Seq(Octets) /\ l \in Seq(Octets) /\ Len(t) \in 1..10 /\ Len(l) \in 1..10
        /\ v \in Nat /\ Short(v)
    BY <1>1, WordShort
  <1>3. IsMessage(e, {VarintItem(n, v)})
    BY <1>2, VarintMessage
  <1>4. e = t \o l
    BY DEF Tag
  <1> HIDE DEF t, l
  <1>5. t \o l \in Seq(Octets) /\ Len(t \o l) = Len(t) + Len(l)
    BY <1>2, ConcatProperties
  <1>6. \A x, y \in 1..10 : x + y \in Nat /\ x + y <= 20
    OBVIOUS
  <1>7. Message(e, {VarintItem(n, v)}, 20)
    <2> HIDE DEF e
    <2> QED BY <1>2, <1>3, <1>4, <1>5, <1>6 DEF Message
  <1>8. Message(<<>>, {}, 20)
    <2>1. <<>> \in Seq(Octets) /\ Len(<<>>) = 0
      OBVIOUS
    <2> QED BY <2>1, NoFields DEF Message
  <1> HIDE DEF e
  <1>9. v = 0 => Uint64Field(n, v) = <<>> /\ NumSlot(n, v) = {}
    BY DEF Uint64Field, NumSlot
  <1>10. v # 0 => Uint64Field(n, v) = e /\ NumSlot(n, v) = {VarintItem(n, v)}
    BY DEF Uint64Field, NumSlot, e
  <1> QED BY <1>7, <1>8, <1>9, <1>10 DEF e

\* A field of fixed width, with a bound on its length.
LEMMA FixedMessage ==
    ASSUME Wide, NEW n \in 1..31, NEW w \in {1, 5}, NEW p \in Seq(Octets), Len(p) = Width(w)
    PROVE  Message(Tag(n, w) \o p, {FixedItem(n, w)}, 20)
  <1> DEFINE t == EncodeVarint[8 * n + w]
             e == Tag(n, w) \o p
  <1>1. 8 * n + w \in Word
    <2>1. 8 * n + w \in Nat /\ 8 * n + w <= 3 * Room + 1000
      BY SMT DEF Room, BodyRoom, FrameRoom
    <2> QED BY <2>1, SmallWord
  <1>2. t \in Seq(Octets) /\ Len(t) \in 1..10
    BY <1>1, WordShort
  <1>3. IsMessage(e, {FixedItem(n, w)})
    <2>1. FixedItem(n, w) \in Items
      BY DEF FixedItem, Items
    <2> QED BY <2>1, EncodesFixed, OneField
  <1>4. e = t \o p
    BY DEF Tag
  <1> HIDE DEF t, e
  <1>5. e \in Seq(Octets) /\ Len(e) = Len(t) + Len(p)
    BY <1>2, <1>4, ConcatProperties
  <1>6. Len(e) \in Nat /\ Len(e) <= 20
    <2>1. Len(p) \in {4, 8}
      BY DEF Width
    <2>2. \A x \in 1..10, y \in {4, 8} : x + y \in Nat /\ x + y <= 20
      OBVIOUS
    <2> QED BY <1>2, <1>5, <2>1, <2>2
  <1> QED BY <1>3, <1>5, <1>6 DEF Message, e

\* The fields of a later version of the protocol.
NewItems ==
    ({VarintItem(20, 2^WordBits - 1)} \cup {LdItem(21, <<255>>)})
        \cup {FixedItem(22, 1)} \cup {FixedItem(23, 5)}

\* They have numbers of their own.
LEMMA NewNumbers == \A y \in NewItems : y.field >= 20
  BY DEF NewItems, VarintItem, LdItem, FixedItem

\* The reader steps over them, whatever their wire types.
LEMMA NewMessage == ASSUME Wide PROVE Message(NewFields, NewItems, 100)
  <1> DEFINE v == 2^WordBits - 1
             p8 == <<255, 1, 2, 3, 4, 5, 6, 7>>
             p4 == <<255, 1, 2, 3>>
             a == Uint64Field(20, v)
             b == LdField(21, <<255>>)
             c == Tag(22, 1) \o p8
             d == Tag(23, 5) \o p4
  <1>1. v \in Word /\ v # 0
    <2>1. \A H, W, s \in Nat : H # 0 /\ W = 2 * H /\ W <= 2 * s
             => W - 1 \in Nat /\ W - 1 < 2 * s /\ W - 1 # 0
      OBVIOUS
    <2>2. 2^(WordBits - 1) \in Nat \ {0} /\ 2^WordBits = 2 * 2^(WordBits - 1)
      BY WordAssumption
    <2>3. 2^WordBits <= 2 * Sign /\ Sign \in Nat /\ 2^WordBits \in Nat
      BY <2>2, WordFits DEF Wide
    <2> QED BY <2>1, <2>2, <2>3 DEF Word
  <1>2. /\ <<255>> \in Seq(Octets) /\ Len(<<255>>) = 1 /\ <<255>> # <<>>
        /\ p8 \in Seq(Octets) /\ Len(p8) = 8 /\ p4 \in Seq(Octets) /\ Len(p4) = 4
    BY DEF Octets
  <1>3. Message(a, {VarintItem(20, v)}, 20)
    <2>1. NumSlot(20, v) = {VarintItem(20, v)}
      BY <1>1 DEF NumSlot
    <2>2. 20 \in 1..31
      OBVIOUS
    <2> HIDE DEF v
    <2> QED BY <1>1, <2>1, <2>2, NumberMessage
  <1>4. Message(b, {LdItem(21, <<255>>)}, 30)
    <2>1. 21 \in 1..31 /\ 10 \in Nat /\ Len(<<255>>) <= 10
      BY <1>2
    <2>2. 10 <= FrameRoom
      BY SMT DEF Room, BodyRoom, FrameRoom
    <2>3. Message(LdField(21, <<255>>), Slot(21, <<255>>), 10 + 20)
      BY <1>2, <2>1, <2>2, FieldMessage
    <2>4. Slot(21, <<255>>) = {LdItem(21, <<255>>)}
      BY <1>2 DEF Slot
    <2> QED BY <2>3, <2>4
  <1>5. Message(c, {FixedItem(22, 1)}, 20)
    <2>1. 22 \in 1..31 /\ Width(1) = 8
      BY DEF Width
    <2> HIDE DEF p8
    <2> QED BY <1>2, <2>1, FixedMessage
  <1>6. Message(d, {FixedItem(23, 5)}, 20)
    <2>1. 23 \in 1..31 /\ Width(5) = 4
      BY DEF Width
    <2> HIDE DEF p4
    <2> QED BY <1>2, <2>1, FixedMessage
  <1>7. NewFields = ((a \o b) \o c) \o d
    <2> DEFINE t == Tag(22, 1)
               u == Tag(23, 5)
               ab == a \o b
    <2>1. NewFields = (((ab \o t) \o p8) \o u) \o p4 /\ c = t \o p8 /\ d = u \o p4
      BY DEF NewFields
    <2>2. t \in Seq(Octets) /\ u \in Seq(Octets)
      <3>1. 8 * 22 + 1 \in Nat /\ 8 * 23 + 5 \in Nat
        OBVIOUS
      <3> QED BY <3>1, VarintCases DEF Tag
    <2>3. ab \in Seq(Octets)
      <3>1. a \in Seq(Octets) /\ b \in Seq(Octets)
        BY <1>3, <1>4 DEF Message
      <3> HIDE DEF a, b
      <3> QED BY <3>1, ConcatProperties
    <2> HIDE DEF a, b, c, d, p4, p8, t, u, ab
    <2>4. /\ p8 \in Seq(Octets) /\ p4 \in Seq(Octets) /\ c \in Seq(Octets)
      BY <1>2, <1>5 DEF Message
    <2>5. (ab \o t) \o p8 = ab \o (t \o p8)
      BY <2>2, <2>3, <2>4, ConcatAssociative, SMTT(30)
    <2>6. ab \o c \in Seq(Octets)
      BY <2>3, <2>4, ConcatProperties
    <2>7. ((ab \o c) \o u) \o p4 = (ab \o c) \o (u \o p4)
      <3> DEFINE abc == ab \o c
      <3>1. abc \in Seq(Octets)
        BY <2>6
      <3> HIDE DEF abc
      <3>2. (abc \o u) \o p4 = abc \o (u \o p4)
        BY <2>2, <2>4, <3>1, ConcatAssociative, SMTT(30)
      <3> QED BY <3>2 DEF abc
    <2> QED BY <2>1, <2>5, <2>7 DEF ab
  <1> HIDE DEF a, b, c, d
  <1>8. Message(a \o b, {VarintItem(20, v)} \cup {LdItem(21, <<255>>)}, 50)
    <2>1. Message(a \o b, {VarintItem(20, v)} \cup {LdItem(21, <<255>>)}, 20 + 30)
      BY <1>3, <1>4, Join
    <2> QED BY <2>1
  <1>9. Message((a \o b) \o c,
                ({VarintItem(20, v)} \cup {LdItem(21, <<255>>)}) \cup {FixedItem(22, 1)}, 70)
    <2>1. Message((a \o b) \o c,
                  ({VarintItem(20, v)} \cup {LdItem(21, <<255>>)}) \cup {FixedItem(22, 1)}, 50 + 20)
      BY <1>5, <1>8, Join
    <2> QED BY <2>1
  <1>10. Message(((a \o b) \o c) \o d, NewItems, 90)
    <2>1. Message(((a \o b) \o c) \o d,
                  (({VarintItem(20, v)} \cup {LdItem(21, <<255>>)}) \cup {FixedItem(22, 1)})
                     \cup {FixedItem(23, 5)}, 70 + 20)
      BY <1>6, <1>9, Join
    <2> QED BY <2>1 DEF NewItems
  <1> QED BY <1>7, <1>10 DEF Message

\* The fields of a message are its items, and all of them can be read.
LEMMA MessageReadable ==
    ASSUME NEW e, NEW S, IsMessage(e, S)
    PROVE  /\ Readable(Fields(e))
           /\ Len(Fields(e)) \in Nat
           /\ DOMAIN Fields(e) = 1..Len(Fields(e))
           /\ \A k \in 1..Len(Fields(e)) : \E x \in S : IsItem(Fields(e)[k], x)
           /\ \A x \in S : \E k \in 1..Len(Fields(e)) : IsItem(Fields(e)[k], x)
  <1> DEFINE fs == Fields(e)
  <1>0. PICK gs : Encodes(e, gs) /\ \A y : y \in S <=> \E k \in 1..Len(gs) : gs[k] = y
    BY DEF IsMessage
  <1>1. /\ fs \in Seq(FieldRecords) /\ Len(fs) = Len(gs)
        /\ \A k \in 1..Len(fs) : IsItem(fs[k], gs[k])
    BY <1>0, FieldsOfMessage DEF Matches
  <1> HIDE DEF fs
  <1>2. Len(fs) \in Nat /\ DOMAIN fs = 1..Len(fs)
    BY <1>1, LenProperties
  <1>3. \A k \in 1..Len(fs) : gs[k] \in S
    BY <1>0, <1>1
  <1>4. Readable(fs)
    BY <1>1, <1>2 DEF Readable, IsItem
  <1>5. \A k \in 1..Len(fs) : \E x \in S : IsItem(fs[k], x)
    BY <1>1, <1>3
  <1>6. \A x \in S : \E k \in 1..Len(fs) : IsItem(fs[k], x)
    BY <1>0, <1>1
  <1> QED BY <1>2, <1>4, <1>5, <1>6 DEF fs

\* What a number is read as.
LEMMA NumRead ==
    ASSUME NEW e, NEW S, NEW n, NEW v, IsMessage(e, S),
           NumSlot(n, v) \subseteq S, \A y \in S : y.field = n => y \in NumSlot(n, v)
    PROVE  NumOf(Fields(e), n) = v
  <1>1. CASE v = 0
    <2>1. \A y \in S : y.field # n
      BY <1>1 DEF NumSlot
    <2> QED BY <1>1, <2>1, LastAbsent DEF NumOf
  <1>2. CASE v # 0
    <2> DEFINE x == VarintItem(n, v)
    <2>1. x \in S /\ \A y \in S : y.field = n => y = x
      BY <1>2 DEF NumSlot
    <2>2. x.field = n /\ x.wire = Varint /\ x.num = v
      BY DEF VarintItem
    <2> HIDE DEF x
    <2>3. \A absent : LastOf(Fields(e), n, Varint, absent).num = v
      BY <2>1, <2>2, LastFound
    <2> QED BY <2>3 DEF NumOf
  <1> QED BY <1>1, <1>2

\* A slot has fields of its number only.
LEMMA NumSlotFields ==
    ASSUME NEW n, NEW v
    PROVE  \A y \in NumSlot(n, v) : y.field = n
  BY DEF NumSlot, VarintItem

\* A field that is written after a message is the last one of its number.
LEMMA LastAppended ==
    ASSUME NEW a, NEW S, IsMessage(a, S), NEW b, NEW x, Encodes(b, <<x>>), NEW absent
    PROVE  LastOf(Fields(a \o b), x.field, x.wire, absent).bytes = x.bytes
  <1> DEFINE fs == Fields(a \o b)
             I == {i \in 1..Len(fs) : fs[i].ok /\ fs[i].field = x.field /\ fs[i].wire = x.wire}
  <1>0. PICK ga : Encodes(a, ga) /\ \A y : y \in S <=> \E k \in 1..Len(ga) : ga[k] = y
    BY DEF IsMessage
  <1>1. ga \in Seq(Items) /\ Len(ga) \in Nat /\ <<x>> \in Seq(Items) /\ Len(<<x>>) = 1
        /\ <<x>>[1] = x
    BY <1>0, LenProperties DEF Encodes
  <1> DEFINE g == ga \o <<x>>
             n == Len(ga) + 1
  <1>2. Encodes(a \o b, g)
    BY <1>0, EncodesBoth
  <1>3. Len(g) = n /\ g[n] = x /\ n \in Nat /\ n > 0
    <2>1. /\ Len(g) = Len(ga) + Len(<<x>>)
          /\ \A i \in 1..(Len(ga) + Len(<<x>>)) :
                g[i] = IF i <= Len(ga) THEN ga[i] ELSE <<x>>[i - Len(ga)]
      BY <1>1, ConcatProperties
    <2>2. n \in 1..(Len(ga) + Len(<<x>>)) /\ ~(n <= Len(ga)) /\ n - Len(ga) = 1
      BY <1>1
    <2> HIDE DEF g
    <2> QED BY <1>1, <2>1, <2>2
  <1> HIDE DEF g, n
  <1>4. Len(fs) = n /\ IsItem(fs[n], x)
    <2>1. Matches(fs, g)
      BY <1>2, FieldsOfMessage
    <2> QED BY <1>3, <2>1 DEF Matches
  <1> HIDE DEF fs
  <1>5. n \in I
    BY <1>3, <1>4 DEF IsItem
  <1>6. Max(I) \in I /\ \A y \in I : Max(I) >= y
    BY <1>3, <1>4, <1>5, LastPosition
  <1>7. Max(I) = n
    <2> DEFINE m == Max(I)
    <2>1. m \in 1..n /\ m >= n
      BY <1>4, <1>5, <1>6
    <2> HIDE DEF m
    <2>2. m = n
      BY <1>3, <2>1
    <2> QED BY <2>2 DEF m
  <1>8. SelectLastInSeq(fs, LAMBDA f : f.ok /\ f.field = x.field /\ f.wire = x.wire) = Max(I)
    BY <1>5, Zenon DEF SelectLastInSeq
  <1>9. LastOf(fs, x.field, x.wire, absent) = fs[n]
    <2>1. n # 0
      BY <1>3
    <2> HIDE DEF I
    <2> QED BY <1>7, <1>8, <2>1, Zenon DEF LastOf
  <1> QED BY <1>4, <1>9 DEF fs, IsItem

\* The first known length-delimited field of a response is found.
LEMMA OneofFound ==
    ASSUME NEW e, NEW S, IsMessage(e, S), NEW x \in S, x.wire = LD, x.field \in 1..14,
           \A y \in S : y.wire = LD /\ y.field \in 1..14 => y = x
    PROVE  DecodeOneof(Fields(e)) = DecodeVariant(ResponseFields[x.field], x.bytes)
  <1> DEFINE f == Fields(e)
             I == {i \in 1..Len(f) : f[i].ok /\ f[i].wire = LD /\ f[i].field \in 1..14}
  <1>1. /\ Len(f) \in Nat
        /\ \A k \in 1..Len(f) : \E y \in S : IsItem(f[k], y)
        /\ \A y \in S : \E k \in 1..Len(f) : IsItem(f[k], y)
    BY MessageReadable
  <1> HIDE DEF f
  <1>2. I # {}
    <2>1. PICK k \in 1..Len(f) : IsItem(f[k], x)
      BY <1>1
    <2> QED BY <2>1 DEF IsItem
  <1>3. Min(I) \in I
    BY <1>1, <1>2, FirstPosition
  <1> DEFINE m == Min(I)
  <1>4. m \in 1..Len(f) /\ f[m].wire = LD /\ f[m].field \in 1..14
    BY <1>3
  <1>5. SelectInSeq(f, LAMBDA y : y.ok /\ y.wire = LD /\ y.field \in 1..14) = m
    BY <1>2, Zenon DEF SelectInSeq
  <1> HIDE DEF m, I
  <1>6. f[m].field = x.field /\ f[m].bytes = x.bytes
    <2>1. PICK y \in S : IsItem(f[m], y)
      BY <1>1, <1>4
    <2>2. y = x
      BY <1>4, <2>1 DEF IsItem
    <2> QED BY <2>1, <2>2 DEF IsItem
  <1>7. m # 0
    BY <1>1, <1>4
  <1>8. DecodeOneof(f) = DecodeVariant(ResponseFields[f[m].field], f[m].bytes)
    BY <1>5, <1>7, Zenon DEF DecodeOneof
  <1> QED BY <1>6, <1>8 DEF f

\* What a response may hold.
IsReply(r) ==
    /\ \E k \in 1..14 : ResponseFields[k] = r.type
    /\ r.type \in {"Value", "Ok", "SetNx", "Counter", "WatchEvent"} => r.version \in Word
    /\ r.type \in {"PatternDeleted", "PatternTtlUpdated"} => r.count \in Word
    /\ r.type = "Counter" => r.count \in -(2^(WordBits - 1))..(2^(WordBits - 1) - 1)
    /\ r.type = "Error" => r.code \in Word
    /\ r.type = "SetNx" => r.created \in BOOLEAN
    /\ r.type = "Value" => r.value \in Seq(Octets) /\ Fits(r.value)
    /\ r.type = "WatchEvent" =>
          /\ r.key \in Seq(Octets) /\ Fits(r.key)
          /\ r.value = None \/ (r.value \in Seq(Octets) /\ Fits(r.value))

\* What the client is meant to read: the response itself, and the name of an
\* error instead of its number.
Decoded(r) ==
    CASE r.type \in SimpleResponses -> [type |-> r.type]
      [] r.type = "Value" -> [type |-> r.type, value |-> r.value, version |-> r.version]
      [] r.type = "Ok" -> [type |-> r.type, version |-> r.version]
      [] r.type = "Error" -> [type |-> r.type, code |-> ErrorCodeName(r.code)]
      [] r.type = "WatchEvent" ->
            [type |-> r.type, key |-> r.key, value |-> r.value, version |-> r.version]
      [] r.type \in {"PatternDeleted", "PatternTtlUpdated"} ->
            [type |-> r.type, count |-> r.count]
      [] r.type = "SetNx" ->
            [type |-> r.type, created |-> r.created, version |-> r.version]
      [] r.type = "Counter" -> [type |-> r.type, count |-> r.count, version |-> r.version]

\* The body e of the response r is read as meant.
ReplyRead(r, e) ==
    /\ \E S : Message(e, S, BodyRoom)
    /\ DecodeVariant(r.type, e) = Decoded(r)

\* Fields that this version of the protocol does not have.
Newer(x, X) == Message(x, X, 100) /\ \A y \in X : y.field >= 20

\* The bounds that are used here.
LEMMA Rooms ==
    /\ 20 \in Nat /\ 100 \in Nat /\ Room + 20 \in Nat
    /\ 20 + 100 \in Nat /\ 20 + 100 <= BodyRoom
    /\ 20 + 20 \in Nat /\ 20 + 20 + 100 \in Nat /\ 20 + 20 + 100 <= BodyRoom
    /\ Room + 20 + 20 \in Nat /\ Room + 20 + 20 + 100 \in Nat
    /\ Room + 20 + 20 + 100 <= BodyRoom
    /\ (Room + 20) + (Room + 20 + 20) \in Nat
    /\ (Room + 20) + (Room + 20 + 20) + 20 \in Nat
    /\ (Room + 20) + (Room + 20 + 20) + 20 + 100 \in Nat
    /\ (Room + 20) + (Room + 20 + 20) + 20 + 100 <= BodyRoom
    /\ BodyRoom \in Nat /\ 100 <= BodyRoom
    /\ Room <= FrameRoom /\ Room + 20 <= FrameRoom
  BY SMT DEF Room, BodyRoom, FrameRoom

\* Strings that fit have lengths up to Room.
LEMMA FitsInRoom ==
    ASSUME NEW p \in Seq(Octets), Fits(p)
    PROVE  Len(p) <= Room /\ Room \in Nat
  <1>1. Len(p) \in Nat /\ Len(p) < Room
    BY LenProperties DEF Fits
  <1> QED BY <1>1, SMT DEF Room

\* A body of one number, and what may follow it.
LEMMA OneNumber ==
    ASSUME Wide, NEW v \in Word, NEW x, NEW X, Newer(x, X)
    PROVE  LET e == Uint64Field(1, v) \o x
           IN  /\ \E S : Message(e, S, BodyRoom)
               /\ Readable(Fields(e)) /\ NumOf(Fields(e), 1) = v
  <1> DEFINE e == Uint64Field(1, v) \o x
             S1 == NumSlot(1, v)
             S == S1 \cup X
  <1>1. Message(Uint64Field(1, v), S1, 20)
    <2>1. 1 \in 1..31
      OBVIOUS
    <2> QED BY <2>1, NumberMessage
  <1>2. Message(x, X, 100) /\ \A y \in X : y.field # 1
    BY DEF Newer
  <1>3. \A y \in S1 : y.field = 1
    BY NumSlotFields
  <1> HIDE DEF S1
  <1>4. Message(e, S, 20 + 100)
    BY <1>1, <1>2, Rooms, Join
  <1>5. Message(e, S, BodyRoom) /\ IsMessage(e, S)
    <2> HIDE DEF e, S
    <2> QED BY <1>4, Rooms, Within DEF Message
  <1>6. Readable(Fields(e))
    BY <1>5, MessageReadable
  <1>7. NumOf(Fields(e), 1) = v
    <2>1. S1 \subseteq S /\ \A y \in S : y.field = 1 => y \in S1
      BY <1>2
    <2> HIDE DEF e, S
    <2> QED BY <1>5, <2>1, NumRead DEF S1
  <1> QED BY <1>5, <1>6, <1>7

\* A body of two numbers, and what may follow it.  The first one is in a field
\* that may be left out or not.
LEMMA TwoNumbers ==
    ASSUME Wide, NEW a, NEW A, Message(a, A, 20), \A y \in A : y.field = 1,
           NEW v \in Word, NEW x, NEW X, Newer(x, X)
    PROVE  LET e == (a \o Uint64Field(2, v)) \o x
           IN  /\ \E S : Message(e, S, BodyRoom)
               /\ \E S : /\ IsMessage(e, S) /\ A \subseteq S
                         /\ \A y \in S : y.field = 1 => y \in A
               /\ Readable(Fields(e)) /\ NumOf(Fields(e), 2) = v
  <1> DEFINE e == (a \o Uint64Field(2, v)) \o x
             S2 == NumSlot(2, v)
             S == (A \cup S2) \cup X
  <1>1. Message(Uint64Field(2, v), S2, 20)
    <2>1. 2 \in 1..31
      OBVIOUS
    <2> QED BY <2>1, NumberMessage
  <1>2. Message(x, X, 100) /\ \A y \in X : y.field # 1 /\ y.field # 2
    BY DEF Newer
  <1>3. \A y \in S2 : y.field = 2
    BY NumSlotFields
  <1> HIDE DEF S2
  <1>4. Message(e, S, 20 + 20 + 100)
    <2>1. Message(a \o Uint64Field(2, v), A \cup S2, 20 + 20)
      BY <1>1, Rooms, Join
    <2> QED BY <1>2, <2>1, Rooms, Join
  <1>5. Message(e, S, BodyRoom) /\ IsMessage(e, S)
    <2> HIDE DEF e, S
    <2> QED BY <1>4, Rooms, Within DEF Message
  <1>6. Readable(Fields(e))
    BY <1>5, MessageReadable
  <1>7. NumOf(Fields(e), 2) = v
    <2>1. S2 \subseteq S /\ \A y \in S : y.field = 2 => y \in S2
      BY <1>2
    <2> HIDE DEF e, S
    <2> QED BY <1>5, <2>1, NumRead DEF S2
  <1>8. A \subseteq S /\ \A y \in S : y.field = 1 => y \in A
    BY <1>2, <1>3
  <1> HIDE DEF e, S
  <1>9. /\ \E T : Message(e, T, BodyRoom)
        /\ \E T : /\ IsMessage(e, T) /\ A \subseteq T
                  /\ \A y \in T : y.field = 1 => y \in A
    BY <1>5, <1>8
  <1> QED BY <1>6, <1>7, <1>9 DEF e

\* The bodies with one number: Ok, Error, PatternDeleted and PatternTtlUpdated.
LEMMA NumberReply ==
    ASSUME Wide, NEW r, IsReply(r),
           r.type \in {"Ok", "Error", "PatternDeleted", "PatternTtlUpdated"},
           NEW x, NEW X, Newer(x, X)
    PROVE  ReplyRead(r, EncodeVariant(r) \o x)
  <1> DEFINE e == EncodeVariant(r) \o x
  <1>1. ASSUME NEW v \in Word, EncodeVariant(r) = Uint64Field(1, v)
        PROVE  /\ \E S : Message(e, S, BodyRoom)
               /\ Readable(Fields(e)) /\ NumOf(Fields(e), 1) = v
    BY <1>1, OneNumber
  <1>2. r.type \notin SimpleResponses
    BY DEF SimpleResponses
  <1> HIDE DEF e
  <1>3. DecodeVariant(r.type, e) = DecodeFields(r.type, Fields(e))
    BY <1>2, Zenon DEF DecodeVariant
  <1>4. CASE r.type = "Ok"
    <2>1. r.version \in Word /\ EncodeVariant(r) = Uint64Field(1, r.version)
      BY <1>2, <1>4 DEF IsReply, EncodeVariant
    <2>2. (\E S : Message(e, S, BodyRoom)) /\ Readable(Fields(e)) /\ NumOf(Fields(e), 1) = r.version
      BY <1>1, <2>1
    <2>3. DecodeFields(r.type, Fields(e)) = [type |-> r.type, version |-> r.version]
      BY <1>4, <2>2 DEF DecodeFields
    <2>4. Decoded(r) = [type |-> r.type, version |-> r.version]
      BY <1>2, <1>4 DEF Decoded
    <2> QED BY <1>3, <2>2, <2>3, <2>4 DEF ReplyRead, e
  <1>5. CASE r.type = "Error"
    <2>1. r.code \in Word /\ EncodeVariant(r) = Uint64Field(1, r.code)
      BY <1>2, <1>5 DEF IsReply, EncodeVariant
    <2>2. (\E S : Message(e, S, BodyRoom)) /\ Readable(Fields(e)) /\ NumOf(Fields(e), 1) = r.code
      BY <1>1, <2>1
    <2>3. DecodeFields(r.type, Fields(e)) = [type |-> r.type, code |-> ErrorCodeName(r.code)]
      BY <1>5, <2>2 DEF DecodeFields
    <2>4. Decoded(r) = [type |-> r.type, code |-> ErrorCodeName(r.code)]
      BY <1>2, <1>5 DEF Decoded
    <2> QED BY <1>3, <2>2, <2>3, <2>4 DEF ReplyRead, e
  <1>6. CASE r.type \in {"PatternDeleted", "PatternTtlUpdated"}
    <2>1. r.count \in Word /\ EncodeVariant(r) = Uint64Field(1, r.count)
      BY <1>2, <1>6 DEF IsReply, EncodeVariant
    <2>2. (\E S : Message(e, S, BodyRoom)) /\ Readable(Fields(e)) /\ NumOf(Fields(e), 1) = r.count
      BY <1>1, <2>1
    <2>3. DecodeFields(r.type, Fields(e)) = [type |-> r.type, count |-> r.count]
      BY <1>6, <2>2 DEF DecodeFields
    <2>4. Decoded(r) = [type |-> r.type, count |-> r.count]
      BY <1>2, <1>6 DEF Decoded
    <2> QED BY <1>3, <2>2, <2>3, <2>4 DEF ReplyRead, e
  <1> QED BY <1>4, <1>5, <1>6

\* The bodies without fields.
LEMMA SimpleReply ==
    ASSUME NEW r, r.type \in SimpleResponses, NEW x, NEW X, Newer(x, X)
    PROVE  ReplyRead(r, EncodeVariant(r) \o x)
  <1>1. EncodeVariant(r) = <<>>
    BY DEF EncodeVariant, SimpleResponses
  <1>2. Message(x, X, BodyRoom) /\ x \in Seq(Octets)
    BY Rooms, Within DEF Newer, Message
  <1>3. <<>> \o x = x
    BY <1>2, ConcatEmptySeq
  <1>4. DecodeVariant(r.type, x) = [type |-> r.type] /\ Decoded(r) = [type |-> r.type]
    BY DEF DecodeVariant, Decoded, SimpleResponses
  <1> QED BY <1>1, <1>2, <1>3, <1>4 DEF ReplyRead

\* The body of SetNx: a flag as a number.
LEMMA SetNxReply ==
    ASSUME Wide, NEW r, IsReply(r), r.type = "SetNx", NEW x, NEW X, Newer(x, X)
    PROVE  ReplyRead(r, EncodeVariant(r) \o x)
  <1> DEFINE b == IF r.created THEN 1 ELSE 0
             a == Uint64Field(1, b)
             A == NumSlot(1, b)
             e == (a \o Uint64Field(2, r.version)) \o x
  <1>1. EncodeVariant(r) \o x = e
    BY DEF EncodeVariant, SimpleResponses
  <1>2. r.version \in Word /\ r.created \in BOOLEAN
    BY DEF IsReply
  <1>3. b \in Word
    <2>1. 0 \in Nat /\ 1 \in Nat /\ 0 <= 3 * Room + 1000 /\ 1 <= 3 * Room + 1000
      BY SMT DEF Room
    <2>2. 0 \in Word /\ 1 \in Word
      BY <2>1, SmallWord
    <2> QED BY <2>2
  <1>4. (b # 0) = r.created
    BY <1>2
  <1> HIDE DEF b
  <1>5. Message(a, A, 20)
    <2>1. 1 \in 1..31
      OBVIOUS
    <2> QED BY <1>3, <2>1, NumberMessage
  <1>6. \A y \in A : y.field = 1
    BY NumSlotFields
  <1> HIDE DEF a, A
  <1>7. /\ \E S : Message(e, S, BodyRoom)
        /\ \E S : IsMessage(e, S) /\ A \subseteq S /\ \A y \in S : y.field = 1 => y \in A
        /\ Readable(Fields(e)) /\ NumOf(Fields(e), 2) = r.version
    BY <1>2, <1>5, <1>6, TwoNumbers
  <1> HIDE DEF e
  <1>8. NumOf(Fields(e), 1) = b
    BY <1>7, NumRead DEF A
  <1>9. DecodeVariant(r.type, e) = DecodeFields(r.type, Fields(e))
    BY DEF DecodeVariant, SimpleResponses
  <1>10. DecodeFields(r.type, Fields(e))
           = [type |-> r.type, created |-> b # 0, version |-> r.version]
    BY <1>7, <1>8 DEF DecodeFields
  <1>11. Decoded(r) = [type |-> r.type, created |-> r.created, version |-> r.version]
    BY DEF Decoded, SimpleResponses
  <1> QED BY <1>1, <1>4, <1>7, <1>9, <1>10, <1>11 DEF ReplyRead

\* The body of Counter: the value travels in two's complement.
LEMMA CounterReply ==
    ASSUME Wide, NEW r, IsReply(r), r.type = "Counter", NEW x, NEW X, Newer(x, X)
    PROVE  ReplyRead(r, EncodeVariant(r) \o x)
  <1> DEFINE w == r.count % 2^WordBits
             a == Int64Field(1, r.count)
             i == VarintItem(1, w)
             e == (a \o Uint64Field(2, r.version)) \o x
  <1>1. EncodeVariant(r) \o x = e
    BY DEF EncodeVariant, SimpleResponses
  <1>2. /\ r.version \in Word /\ r.count \in Int
        /\ r.count \in -(2^(WordBits - 1))..(2^(WordBits - 1) - 1)
    <2>1. r.count \in -(2^(WordBits - 1))..(2^(WordBits - 1) - 1) /\ r.version \in Word
      BY DEF IsReply
    <2>2. \A H \in Nat : \A z \in (-H)..(H - 1) : z \in Int
      OBVIOUS
    <2>3. 2^(WordBits - 1) \in Nat
      BY WordAssumption
    <2> QED BY <2>1, <2>2, <2>3
  <1>3. w \in Word
    <2>1. 2^WordBits \in Nat \ {0} /\ 2^WordBits <= 2 * Sign
      BY WordAssumption DEF Wide
    <2>2. \A m \in Nat \ {0} : \A d \in Int : d % m \in 0..(m - 1)
      OBVIOUS
    <2>3. w \in 0..(2^WordBits - 1)
      BY <1>2, <2>1, <2>2
    <2> HIDE DEF w
    <2>4. \A m \in Nat \ {0} : m <= 2 * Sign /\ w \in 0..(m - 1) => w \in Nat /\ w < 2 * Sign
      BY WordFits
    <2> QED BY <2>1, <2>3, <2>4 DEF Word
  <1>4. ReadInt64(w) = r.count
    BY <1>2, Int64Travels
  <1>5. a = Tag(1, Varint) \o EncodeVarint[w]
    BY DEF Int64Field
  <1> HIDE DEF w
  <1>6. Message(a, {i}, 20)
    <2>1. 1 \in 1..31
      OBVIOUS
    <2> QED BY <1>3, <1>5, <2>1, NumberMessage
  <1>7. i.field = 1 /\ i.wire = Varint /\ i.num = w
    BY DEF VarintItem
  <1> HIDE DEF a, i
  <1>8. /\ \E S : Message(e, S, BodyRoom)
        /\ \E S : IsMessage(e, S) /\ {i} \subseteq S /\ \A y \in S : y.field = 1 => y \in {i}
        /\ Readable(Fields(e)) /\ NumOf(Fields(e), 2) = r.version
    <2>1. \A y \in {i} : y.field = 1
      BY <1>7
    <2> QED BY <1>2, <1>6, <2>1, TwoNumbers
  <1> HIDE DEF e
  <1>9. NumOf(Fields(e), 1) = w
    <2>1. PICK S : IsMessage(e, S) /\ {i} \subseteq S /\ \A y \in S : y.field = 1 => y \in {i}
      BY <1>8
    <2>2. i \in S /\ \A y \in S : y.field = i.field => y = i
      BY <1>7, <2>1
    <2> QED BY <1>7, <2>1, <2>2, LastFound DEF NumOf
  <1>10. DecodeVariant(r.type, e) = DecodeFields(r.type, Fields(e))
    BY DEF DecodeVariant, SimpleResponses
  <1>11. DecodeFields(r.type, Fields(e))
           = [type |-> r.type, count |-> ReadInt64(w), version |-> r.version]
    BY <1>8, <1>9 DEF DecodeFields
  <1>12. Decoded(r) = [type |-> r.type, count |-> r.count, version |-> r.version]
    BY DEF Decoded, SimpleResponses
  <1> QED BY <1>1, <1>4, <1>8, <1>10, <1>11, <1>12 DEF ReplyRead

\* The body of Value.
LEMMA ValueReply ==
    ASSUME Wide, NEW r, IsReply(r), r.type = "Value", NEW x, NEW X, Newer(x, X)
    PROVE  ReplyRead(r, EncodeVariant(r) \o x)
  <1> DEFINE S2 == Slot(2, r.value)
             S3 == NumSlot(3, r.version)
             S == (S2 \cup S3) \cup X
             e == (LdField(2, r.value) \o Uint64Field(3, r.version)) \o x
  <1>1. EncodeVariant(r) \o x = e
    BY DEF EncodeVariant, SimpleResponses
  <1>2. r.version \in Word /\ r.value \in Seq(Octets) /\ Fits(r.value)
    BY DEF IsReply
  <1>3. Message(LdField(2, r.value), S2, Room + 20)
    <2>1. 2 \in 1..31
      OBVIOUS
    <2> QED BY <1>2, <2>1, Rooms, FitsInRoom, FieldMessage
  <1>4. Message(Uint64Field(3, r.version), S3, 20)
    <2>1. 3 \in 1..31
      OBVIOUS
    <2> QED BY <1>2, <2>1, NumberMessage
  <1>5. Message(x, X, 100) /\ \A y \in X : y.field # 2 /\ y.field # 3
    BY DEF Newer
  <1>6. (\A y \in S2 : y.field = 2) /\ \A y \in S3 : y.field = 3
    BY SlotFields, NumSlotFields
  <1> HIDE DEF S2, S3
  <1>7. Message(e, S, Room + 20 + 20 + 100)
    <2>1. Message(LdField(2, r.value) \o Uint64Field(3, r.version), S2 \cup S3, Room + 20 + 20)
      BY <1>3, <1>4, Rooms, Join
    <2> QED BY <1>5, <2>1, Rooms, Join
  <1>8. Message(e, S, BodyRoom) /\ IsMessage(e, S)
    <2> HIDE DEF e, S
    <2> QED BY <1>7, Rooms, Within DEF Message
  <1>9. /\ S2 \subseteq S /\ \A y \in S : y.field = 2 => y \in S2
        /\ S3 \subseteq S /\ \A y \in S : y.field = 3 => y \in S3
    BY <1>5, <1>6
  <1> HIDE DEF e, S
  <1>10. BytesOf(Fields(e), 2) = r.value /\ NumOf(Fields(e), 3) = r.version /\ Readable(Fields(e))
    <2>1. BytesOf(Fields(e), 2) = r.value
      BY <1>8, <1>9, SlotRead DEF S2
    <2>2. NumOf(Fields(e), 3) = r.version
      BY <1>8, <1>9, NumRead DEF S3
    <2>3. Readable(Fields(e))
      BY <1>8, MessageReadable
    <2> QED BY <2>1, <2>2, <2>3
  <1>11. DecodeVariant(r.type, e) = DecodeFields(r.type, Fields(e))
    BY DEF DecodeVariant, SimpleResponses
  <1>12. DecodeFields(r.type, Fields(e))
           = [type |-> r.type, value |-> r.value, version |-> r.version]
    BY <1>10 DEF DecodeFields
  <1>13. Decoded(r) = [type |-> r.type, value |-> r.value, version |-> r.version]
    BY DEF Decoded, SimpleResponses
  <1> QED BY <1>1, <1>8, <1>11, <1>12, <1>13 DEF ReplyRead

\* The value of a WatchEvent, in a message of its own.
LEMMA OptionalValue ==
    ASSUME Wide, NEW v \in Seq(Octets), Fits(v)
    PROVE  LET q == LdField(1, v)
           IN  /\ q \in Seq(Octets) /\ Len(q) <= Room + 20
               /\ q # None /\ Readable(Fields(q)) /\ OptionalBytes(q) = v
  <1> DEFINE q == LdField(1, v)
  <1>1. Message(q, Slot(1, v), Room + 20)
    <2>1. 1 \in 1..31
      OBVIOUS
    <2> QED BY <2>1, Rooms, FitsInRoom, FieldMessage
  <1> HIDE DEF q
  <1>2. q \in Seq(Octets) /\ Len(q) <= Room + 20 /\ IsMessage(q, Slot(1, v))
    BY <1>1 DEF Message
  <1>3. q # None
    BY <1>2, NoneAssumption DEF Octets
  <1>4. BytesOf(Fields(q), 1) = v
    BY <1>2, SlotRead, SlotFields
  <1>5. Readable(Fields(q))
    BY <1>2, MessageReadable
  <1> QED BY <1>2, <1>3, <1>4, <1>5 DEF OptionalBytes, q

\* The body of WatchEvent, with a value or without.
LEMMA WatchEventReply ==
    ASSUME Wide, NEW r, IsReply(r), r.type = "WatchEvent", NEW x, NEW X, Newer(x, X)
    PROVE  ReplyRead(r, EncodeVariant(r) \o x)
  <1> DEFINE q == LdField(1, r.value)
             m == IF r.value = None THEN <<>> ELSE LdFieldAlways(2, q)
             S1 == Slot(1, r.key)
             S2 == IF r.value = None THEN {} ELSE {LdItem(2, q)}
             S3 == NumSlot(3, r.version)
             S == ((S1 \cup S2) \cup S3) \cup X
             e == ((LdField(1, r.key) \o m) \o Uint64Field(3, r.version)) \o x
             f == Fields(e)
  <1>1. EncodeVariant(r) \o x = e
    BY DEF EncodeVariant, SimpleResponses
  <1>2. /\ r.version \in Word /\ r.key \in Seq(Octets) /\ Fits(r.key)
        /\ r.value # None => r.value \in Seq(Octets) /\ Fits(r.value)
    BY DEF IsReply
  <1>3. r.value # None =>
           /\ q \in Seq(Octets) /\ Len(q) <= Room + 20
           /\ q # None /\ Readable(Fields(q)) /\ OptionalBytes(q) = r.value
    BY <1>2, OptionalValue
  <1> HIDE DEF q
  <1>4. Message(LdField(1, r.key), S1, Room + 20)
    <2>1. 1 \in 1..31
      OBVIOUS
    <2> QED BY <1>2, <2>1, Rooms, FitsInRoom, FieldMessage
  <1>5. Message(m, S2, Room + 20 + 20)
    <2>1. CASE r.value = None
      <3>1. m = <<>> /\ S2 = {} /\ <<>> \in Seq(Octets) /\ Len(<<>>) = 0
        BY <2>1
      <3>2. 0 <= Room + 20 + 20
        BY Rooms
      <3> HIDE DEF m, S2
      <3> QED BY <3>1, <3>2, NoFields DEF Message
    <2>2. CASE r.value # None
      <3>1. m = LdFieldAlways(2, q) /\ S2 = {LdItem(2, q)}
        BY <2>2
      <3>2. 2 \in 1..31
        OBVIOUS
      <3>3. Message(LdFieldAlways(2, q), {LdItem(2, q)}, Room + 20 + 20)
        BY <1>3, <2>2, <3>2, Rooms, FieldMessage
      <3> QED BY <3>1, <3>3
    <2> QED BY <2>1, <2>2
  <1>6. Message(Uint64Field(3, r.version), S3, 20)
    <2>1. 3 \in 1..31
      OBVIOUS
    <2> QED BY <1>2, <2>1, NumberMessage
  <1>7. Message(x, X, 100) /\ \A y \in X : y.field # 1 /\ y.field # 2 /\ y.field # 3
    BY DEF Newer
  <1>8. /\ \A y \in S1 : y.field = 1
        /\ \A y \in S2 : y.field = 2 /\ y.wire = LD /\ y.bytes = q /\ r.value # None
        /\ \A y \in S3 : y.field = 3
    <2>1. \A y \in S2 : y.field = 2 /\ y.wire = LD /\ y.bytes = q /\ r.value # None
      BY DEF LdItem
    <2> QED BY <2>1, SlotFields, NumSlotFields
  <1>9. r.value # None => \E y \in S2 : S2 = {y}
    OBVIOUS
  <1>10. r.value = None => S2 = {}
    OBVIOUS
  <1> HIDE DEF S1, S2, S3, m
  <1>11. Message(e, S, (Room + 20) + (Room + 20 + 20) + 20 + 100)
    <2>1. Message(LdField(1, r.key) \o m, S1 \cup S2, (Room + 20) + (Room + 20 + 20))
      BY <1>4, <1>5, Rooms, Join
    <2>2. Message((LdField(1, r.key) \o m) \o Uint64Field(3, r.version), (S1 \cup S2) \cup S3,
                  (Room + 20) + (Room + 20 + 20) + 20)
      BY <1>6, <2>1, Rooms, Join
    <2> QED BY <1>7, <2>2, Rooms, Join
  <1>12. Message(e, S, BodyRoom) /\ IsMessage(e, S)
    <2> HIDE DEF e, S
    <2> QED BY <1>11, Rooms, Within DEF Message
  <1>13. /\ S1 \subseteq S /\ \A y \in S : y.field = 1 => y \in S1
         /\ S2 \subseteq S /\ \A y \in S : y.field = 2 => y \in S2
         /\ S3 \subseteq S /\ \A y \in S : y.field = 3 => y \in S3
    BY <1>7, <1>8
  <1> HIDE DEF e, S
  <1>14. /\ BytesOf(f, 1) = r.key /\ NumOf(f, 3) = r.version
         /\ Readable(f) /\ DOMAIN f = 1..Len(f)
         /\ \A k \in 1..Len(f) : \E y \in S : IsItem(f[k], y)
    <2>1. BytesOf(f, 1) = r.key
      BY <1>12, <1>13, SlotRead DEF S1
    <2>2. NumOf(f, 3) = r.version
      BY <1>12, <1>13, NumRead DEF S3
    <2> QED BY <1>12, <2>1, <2>2, MessageReadable
  <1>15. OptionalBytes(LastOf(f, 2, LD, None).bytes) = r.value
    <2>1. CASE r.value = None
      <3>1. \A y \in S : y.field # 2
        BY <1>10, <1>13, <2>1
      <3>2. LastOf(f, 2, LD, None).bytes = None
        BY <1>12, <3>1, LastAbsent
      <3> QED BY <2>1, <3>2 DEF OptionalBytes
    <2>2. CASE r.value # None
      <3>1. PICK y \in S2 : S2 = {y}
        BY <1>9, <2>2
      <3>2. y \in S /\ y.field = 2 /\ y.wire = LD /\ y.bytes = q
            /\ \A z \in S : z.field = y.field => z = y
        BY <1>8, <1>13, <3>1
      <3>3. LastOf(f, 2, LD, None).bytes = q
        BY <1>12, <3>2, LastFound
      <3> QED BY <1>3, <2>2, <3>3
    <2> QED BY <2>1, <2>2
  <1>16. \A k \in DOMAIN f : f[k].field = 2 /\ f[k].wire = LD => Readable(Fields(f[k].bytes))
    <2> SUFFICES ASSUME NEW k \in 1..Len(f), f[k].field = 2 PROVE Readable(Fields(f[k].bytes))
      BY <1>14
    <2>1. PICK y \in S : IsItem(f[k], y)
      BY <1>14
    <2>2. y \in S2 /\ f[k].bytes = y.bytes
      BY <1>13, <2>1 DEF IsItem
    <2> QED BY <1>3, <1>8, <2>2
  <1> HIDE DEF f
  <1>17. DecodeWatchEvent(f) = [type |-> "WatchEvent", key |-> r.key, value |-> r.value,
                                version |-> r.version]
    BY <1>14, <1>15, <1>16, Zenon DEF DecodeWatchEvent
  <1>18. DecodeVariant(r.type, e) = DecodeFields(r.type, f)
    BY DEF DecodeVariant, SimpleResponses, f
  <1>19. DecodeFields(r.type, f) = DecodeWatchEvent(f)
    BY <1>14 DEF DecodeFields
  <1>20. Decoded(r) = [type |-> r.type, key |-> r.key, value |-> r.value, version |-> r.version]
    BY DEF Decoded, SimpleResponses
  <1> QED BY <1>1, <1>12, <1>17, <1>18, <1>19, <1>20 DEF ReplyRead

\* Every body is read as meant, and whatever follows it is stepped over.
LEMMA ReplyBody ==
    ASSUME Wide, NEW r, IsReply(r), NEW x, NEW X, Newer(x, X)
    PROVE  ReplyRead(r, EncodeVariant(r) \o x)
  <1>1. r.type \in SimpleResponses \cup {"Ok", "Error", "PatternDeleted", "PatternTtlUpdated"}
                     \cup {"Value", "WatchEvent", "SetNx", "Counter"}
    BY DEF IsReply, ResponseFields, SimpleResponses
  <1> QED BY <1>1, SimpleReply, NumberReply, ValueReply, WatchEventReply, SetNxReply, CounterReply

\* The number of a response is that of its type.
LEMMA NumberOfReply ==
    ASSUME NEW r, IsReply(r)
    PROVE  ResponseNumber(r) \in 1..14 /\ ResponseFields[ResponseNumber(r)] = r.type
  <1> DEFINE I == {i \in 1..Len(ResponseFields) : ResponseFields[i] = r.type}
  <1>1. Len(ResponseFields) = 14
    BY DEF ResponseFields
  <1>2. I \in SUBSET (1..14) /\ I # {} /\ 14 \in Nat
    BY <1>1 DEF IsReply
  <1>3. ResponseNumber(r) = Min(I)
    BY <1>2, Zenon DEF ResponseNumber, SelectInSeq
  <1>4. Min(I) \in I
    BY <1>2, FirstPosition
  <1> QED BY <1>1, <1>3, <1>4

\* A response, among fields that this version of the protocol does not have,
\* is read as meant.
LEMMA ResponseRead ==
    ASSUME Wide, NEW r, IsReply(r), NEW z, NEW Z, Newer(z, Z), NEW x, NEW X, Newer(x, X)
    PROVE  LET w == z \o LdFieldAlways(ResponseNumber(r), EncodeVariant(r) \o x)
           IN  /\ w \in Seq(Octets) /\ Len(w) <= BodyRoom + 120
               /\ DecodeOneof(Fields(w)) = Decoded(r)
  <1> DEFINE n == ResponseNumber(r)
             e == EncodeVariant(r) \o x
             i == LdItem(n, e)
             w == z \o LdFieldAlways(n, e)
             S == Z \cup {i}
  <1>1. n \in 1..14 /\ n \in 1..31 /\ ResponseFields[n] = r.type
    BY NumberOfReply
  <1>2. (\E T : Message(e, T, BodyRoom)) /\ DecodeVariant(r.type, e) = Decoded(r)
    BY ReplyBody DEF ReplyRead
  <1> HIDE DEF n, e
  <1>3. BodyRoom \in Nat /\ BodyRoom <= FrameRoom /\ BodyRoom + 20 \in Nat /\ 100 \in Nat
    BY SMT DEF Room, BodyRoom, FrameRoom
  <1>4. Message(LdFieldAlways(n, e), {i}, BodyRoom + 20)
    <2>1. e \in Seq(Octets) /\ Len(e) <= BodyRoom
      BY <1>2 DEF Message
    <2> QED BY <1>1, <1>3, <2>1, FieldMessage
  <1>5. Message(z, Z, 100) /\ \A y \in Z : y.field >= 20
    BY DEF Newer
  <1>6. i.field = n /\ i.wire = LD /\ i.bytes = e
    BY DEF LdItem
  <1> HIDE DEF i
  <1>7. Message(w, S, 100 + (BodyRoom + 20))
    <2> DEFINE b == BodyRoom + 20
    <2>1. b \in Nat /\ Message(LdFieldAlways(n, e), {i}, b)
      BY <1>3, <1>4
    <2> HIDE DEF b
    <2>2. Message(w, S, 100 + b)
      BY <1>3, <1>5, <2>1, Join
    <2> QED BY <2>2 DEF b
  <1>8. w \in Seq(Octets) /\ Len(w) <= BodyRoom + 120 /\ IsMessage(w, S)
    <2>1. 100 + (BodyRoom + 20) = BodyRoom + 120
      BY <1>3
    <2> HIDE DEF w, S
    <2> QED BY <1>7, <2>1 DEF Message
  <1>9. i \in S /\ i.field \in 1..14 /\ \A y \in S : y.wire = LD /\ y.field \in 1..14 => y = i
    BY <1>1, <1>5, <1>6
  <1> HIDE DEF w, S
  <1>10. DecodeOneof(Fields(w)) = DecodeVariant(ResponseFields[i.field], i.bytes)
    BY <1>6, <1>8, <1>9, OneofFound
  <1>11. DecodeOneof(Fields(w)) = Decoded(r)
    BY <1>1, <1>2, <1>6, <1>10
  <1> QED BY <1>8, <1>11 DEF w, n, e

\* An envelope around a response, with a version.
LEMMA ResponseEnvelope ==
    ASSUME Wide, NEW v \in Word, NEW w \in Seq(Octets), Len(w) <= BodyRoom + 120
    PROVE  LET f == Fields(Uint64Field(1, v) \o LdFieldAlways(3, w))
           IN  /\ Readable(f) /\ NumOf(f, 1) = v /\ LastOf(f, 3, LD, None).bytes = w
  <1> DEFINE e == Uint64Field(1, v) \o LdFieldAlways(3, w)
             N == NumSlot(1, v)
             i == LdItem(3, w)
             S == N \cup {i}
  <1>1. BodyRoom + 120 \in Nat /\ BodyRoom + 120 <= FrameRoom /\ BodyRoom + 120 + 20 \in Nat
    BY SMT DEF Room, BodyRoom, FrameRoom
  <1>2. IsMessage(Uint64Field(1, v), N)
    <2>1. 1 \in 1..31
      OBVIOUS
    <2> QED BY <2>1, NumberMessage DEF Message
  <1>3. IsMessage(LdFieldAlways(3, w), {i})
    <2>1. 3 \in 1..31
      OBVIOUS
    <2> QED BY <1>1, <2>1, FieldMessage DEF Message
  <1>4. i.field = 3 /\ i.wire = LD /\ i.bytes = w /\ \A y \in N : y.field = 1
    BY NumSlotFields DEF LdItem
  <1> HIDE DEF i, N
  <1>5. IsMessage(e, S)
    BY <1>2, <1>3, BothFields
  <1>6. /\ N \subseteq S /\ \A y \in S : y.field = 1 => y \in N
        /\ i \in S /\ \A y \in S : y.field = i.field => y = i
    BY <1>4
  <1> HIDE DEF e, S
  <1>7. Readable(Fields(e))
    BY <1>5, MessageReadable
  <1>8. NumOf(Fields(e), 1) = v
    BY <1>5, <1>6, NumRead DEF N
  <1>9. LastOf(Fields(e), 3, LD, None).bytes = w
    BY <1>4, <1>5, <1>6, LastFound
  <1> QED BY <1>7, <1>8, <1>9 DEF e

\* Two responses in an envelope: the second one is taken.
LEMMA SecondResponse ==
    ASSUME Wide, NEW u \in Seq(Octets), Len(u) <= BodyRoom + 120,
           NEW w \in Seq(Octets), Len(w) <= BodyRoom + 120
    PROVE  LET f == Fields(LdFieldAlways(3, u) \o LdFieldAlways(3, w))
           IN  /\ Readable(f) /\ NumOf(f, 1) = 0 /\ LastOf(f, 3, LD, None).bytes = w
  <1> DEFINE e == LdFieldAlways(3, u) \o LdFieldAlways(3, w)
             h == LdItem(3, u)
             i == LdItem(3, w)
             S == {h} \cup {i}
  <1>1. BodyRoom + 120 \in Nat /\ BodyRoom + 120 <= FrameRoom /\ BodyRoom + 120 + 20 \in Nat
        /\ BodyRoom + 120 <= 3 * Room + 1000
    BY SMT DEF Room, BodyRoom, FrameRoom
  <1>2. 3 \in 1..31
    OBVIOUS
  <1>3. IsMessage(LdFieldAlways(3, u), {h}) /\ IsMessage(LdFieldAlways(3, w), {i})
    BY <1>1, <1>2, FieldMessage DEF Message
  <1>4. Encodes(LdFieldAlways(3, w), <<i>>)
    <2>1. Len(w) \in Nat
      BY LenProperties
    <2>2. Len(w) <= 3 * Room + 1000
      BY <2>1, SMT DEF Room, BodyRoom
    <2>3. Short(Len(w))
      BY <2>1, <2>2, SmallWord, WordShort
    <2> QED BY <1>2, <2>3, EncodesLdAlways
  <1>5. /\ i.field = 3 /\ i.wire = LD /\ i.bytes = w /\ h.field = 3
    BY DEF LdItem
  <1> HIDE DEF h, i
  <1>6. IsMessage(e, S)
    BY <1>3, BothFields
  <1>7. \A y \in S : y.field # 1
    BY <1>5
  <1>8. LastOf(Fields(e), 3, LD, None).bytes = w
    BY <1>3, <1>4, <1>5, LastAppended
  <1> HIDE DEF e, S
  <1>9. Readable(Fields(e)) /\ NumOf(Fields(e), 1) = 0
    BY <1>6, <1>7, MessageReadable, LastAbsent DEF NumOf
  <1> QED BY <1>8, <1>9 DEF e

\* Nothing, and fields of a later version, are fields that this version of the
\* protocol does not have.
LEMMA NewerFields == ASSUME Wide PROVE Newer(<<>>, {}) /\ Newer(NewFields, NewItems)
  <1>1. <<>> \in Seq(Octets) /\ Len(<<>>) = 0 /\ 0 <= 100 /\ 0 \in Nat
    OBVIOUS
  <1> QED BY <1>1, NoFields, NewMessage, NewNumbers DEF Newer, Message

\* Sequences of bytes are put together.
LEMMA Glue == \A s, t \in Seq(Octets) : s \o t \in Seq(Octets)
  BY ConcatProperties

\* Every field that the codec writes is made of bytes.
LEMMA FieldBytes ==
    /\ \A n, w \in Nat : Tag(n, w) \in Seq(Octets)
    /\ \A n \in Nat, p \in Seq(Octets) :
          LdFieldAlways(n, p) \in Seq(Octets) /\ LdField(n, p) \in Seq(Octets)
    /\ \A n, v \in Nat : Uint64Field(n, v) \in Seq(Octets)
    /\ \A n \in Nat, v \in Int : Int64Field(n, v) \in Seq(Octets)
  <1>1. \A v \in Nat : EncodeVarint[v] \in Seq(Octets)
    BY VarintEquation
  <1>2. \A n, w \in Nat : Tag(n, w) \in Seq(Octets)
    <2>1. \A n, w \in Nat : 8 * n + w \in Nat
      OBVIOUS
    <2> QED BY <1>1, <2>1 DEF Tag
  <1>3. LD \in Nat /\ Varint \in Nat /\ <<>> \in Seq(Octets)
    BY DEF LD, Varint
  <1>4. ASSUME NEW n \in Nat, NEW p \in Seq(Octets)
        PROVE  LdFieldAlways(n, p) \in Seq(Octets)
    <2>1. Tag(n, LD) \in Seq(Octets) /\ EncodeVarint[Len(p)] \in Seq(Octets)
      BY <1>1, <1>2, <1>3, LenProperties
    <2> QED BY <2>1, Glue DEF LdFieldAlways
  <1>5. ASSUME NEW n \in Nat, NEW p \in Seq(Octets)
        PROVE  LdField(n, p) \in Seq(Octets)
    BY <1>3, <1>4 DEF LdField
  <1>6. ASSUME NEW n \in Nat, NEW v \in Nat
        PROVE  Uint64Field(n, v) \in Seq(Octets)
    <2>1. Tag(n, Varint) \in Seq(Octets) /\ EncodeVarint[v] \in Seq(Octets)
      BY <1>1, <1>2, <1>3
    <2> QED BY <1>3, <2>1, Glue DEF Uint64Field
  <1>7. ASSUME NEW n \in Nat, NEW v \in Int
        PROVE  Int64Field(n, v) \in Seq(Octets)
    <2>1. v % 2^WordBits \in Nat
      <3>1. 2^WordBits \in Nat /\ 2^WordBits > 0
        BY WordAssumption
      <3>2. \A W \in Nat : W > 0 => v % W \in Nat
        OBVIOUS
      <3> QED BY <3>1, <3>2
    <2>2. Tag(n, Varint) \in Seq(Octets) /\ EncodeVarint[v % 2^WordBits] \in Seq(Octets)
      BY <1>1, <1>2, <1>3, <2>1
    <2> QED BY <2>2, Glue DEF Int64Field
  <1> QED BY <1>2, <1>4, <1>5, <1>6, <1>7

\* So are fields that this version does not know.
LEMMA NewFieldsBytes == NewFields \in Seq(Octets)
  <1>1. 2^WordBits - 1 \in Nat
    <2>1. \A W \in Nat \ {0} : 2 * W - 1 \in Nat
      OBVIOUS
    <2> QED BY <2>1, WordAssumption
  <1>2. /\ Uint64Field(20, 2^WordBits - 1) \in Seq(Octets)
        /\ Tag(22, 1) \in Seq(Octets) /\ Tag(23, 5) \in Seq(Octets)
    BY <1>1, FieldBytes
  <1>3. /\ <<255>> \in Seq(Octets) /\ <<255, 1, 2, 3>> \in Seq(Octets)
        /\ <<255, 1, 2, 3, 4, 5, 6, 7>> \in Seq(Octets)
    BY DEF Octets
  <1>4. LdField(21, <<255>>) \in Seq(Octets)
    BY <1>3, FieldBytes
  <1> QED BY <1>2, <1>3, <1>4, Glue DEF NewFields

\* The types of what a response holds.
IsTyped(r) ==
    /\ \E k \in 1..14 : ResponseFields[k] = r.type
    /\ r.type \in {"Value", "Ok", "SetNx", "Counter", "WatchEvent"} => r.version \in Nat
    /\ r.type \in {"PatternDeleted", "PatternTtlUpdated"} => r.count \in Nat
    /\ r.type = "Counter" => r.count \in Int
    /\ r.type = "Error" => r.code \in Nat
    /\ r.type = "Value" => r.value \in Seq(Octets)
    /\ r.type = "WatchEvent" => r.key \in Seq(Octets) /\ r.value \in Seq(Octets) \cup {None}

\* The contents of a response are bytes.
LEMMA VariantBytes ==
    ASSUME NEW r, IsTyped(r)
    PROVE  EncodeVariant(r) \in Seq(Octets)
  <1>2. r.type \in SimpleResponses \cup {"Value", "Ok", "Error", "WatchEvent",
                     "PatternDeleted", "PatternTtlUpdated", "SetNx", "Counter"}
    BY DEF IsTyped, ResponseFields, SimpleResponses
  <1>3. CASE r.type \in SimpleResponses
    BY <1>3 DEF EncodeVariant, SimpleResponses
  <1>4. CASE r.type = "Value"
    <2>1. r.value \in Seq(Octets) /\ r.version \in Nat
      BY <1>4 DEF IsTyped
    <2>2. LdField(2, r.value) \in Seq(Octets) /\ Uint64Field(3, r.version) \in Seq(Octets)
      BY <2>1, FieldBytes
    <2>3. EncodeVariant(r) = LdField(2, r.value) \o Uint64Field(3, r.version)
      BY <1>4 DEF EncodeVariant, SimpleResponses
    <2> QED BY <2>2, <2>3, Glue
  <1>5. CASE r.type = "Ok"
    <2>1. EncodeVariant(r) = Uint64Field(1, r.version) /\ r.version \in Nat
      BY <1>5 DEF EncodeVariant, SimpleResponses, IsTyped
    <2> QED BY <2>1, FieldBytes
  <1>6. CASE r.type = "Error"
    <2>1. EncodeVariant(r) = Uint64Field(1, r.code) /\ r.code \in Nat
      BY <1>6 DEF EncodeVariant, SimpleResponses, IsTyped
    <2> QED BY <2>1, FieldBytes
  <1>7. CASE r.type = "WatchEvent"
    <2> DEFINE v == IF r.value = None THEN <<>> ELSE LdFieldAlways(2, LdField(1, r.value))
    <2>1. /\ r.key \in Seq(Octets) /\ r.version \in Nat
          /\ r.value # None => r.value \in Seq(Octets)
      BY <1>7 DEF IsTyped
    <2>2. /\ LdField(1, r.key) \in Seq(Octets) /\ Uint64Field(3, r.version) \in Seq(Octets)
          /\ r.value # None => LdField(1, r.value) \in Seq(Octets)
      BY <2>1, FieldBytes
    <2>3. v \in Seq(Octets)
      <3>1. <<>> \in Seq(Octets)
        OBVIOUS
      <3>2. r.value # None => LdFieldAlways(2, LdField(1, r.value)) \in Seq(Octets)
        BY <2>2, FieldBytes
      <3> QED BY <3>1, <3>2, Zenon
    <2>4. EncodeVariant(r) = LdField(1, r.key) \o v \o Uint64Field(3, r.version)
      BY <1>7, Zenon DEF EncodeVariant, SimpleResponses
    <2> HIDE DEF v
    <2> QED BY <2>2, <2>3, <2>4, Glue
  <1>8. CASE r.type \in {"PatternDeleted", "PatternTtlUpdated"}
    <2>1. EncodeVariant(r) = Uint64Field(1, r.count) /\ r.count \in Nat
      BY <1>8 DEF EncodeVariant, SimpleResponses, IsTyped
    <2> QED BY <2>1, FieldBytes
  <1>9. CASE r.type = "SetNx"
    <2> DEFINE b == IF r.created THEN 1 ELSE 0
    <2>1. r.version \in Nat /\ b \in Nat
      BY <1>9 DEF IsTyped
    <2>2. EncodeVariant(r) = Uint64Field(1, b) \o Uint64Field(2, r.version)
      BY <1>9, Zenon DEF EncodeVariant, SimpleResponses
    <2> HIDE DEF b
    <2>3. Uint64Field(1, b) \in Seq(Octets) /\ Uint64Field(2, r.version) \in Seq(Octets)
      BY <2>1, FieldBytes
    <2> QED BY <2>2, <2>3, Glue
  <1>10. CASE r.type = "Counter"
    <2>1. r.version \in Nat /\ r.count \in Int
      BY <1>10 DEF IsTyped
    <2>2. EncodeVariant(r) = Int64Field(1, r.count) \o Uint64Field(2, r.version)
      BY <1>10 DEF EncodeVariant, SimpleResponses
    <2>3. Int64Field(1, r.count) \in Seq(Octets) /\ Uint64Field(2, r.version) \in Seq(Octets)
      BY <2>1, FieldBytes
    <2> QED BY <2>2, <2>3, Glue
  <1> QED BY <1>2, <1>3, <1>4, <1>5, <1>6, <1>7, <1>8, <1>9, <1>10

\* What a response may hold has these types.
LEMMA ReplyBytes ==
    ASSUME NEW r, IsReply(r)
    PROVE  EncodeVariant(r) \in Seq(Octets)
  <1>1. Word \subseteq Nat
    BY DEF Word
  <1>2. r.type = "Counter" => r.count \in Int
    <2>1. \A H \in Nat : \A z \in (-H)..(H - 1) : z \in Int
      OBVIOUS
    <2>2. 2^(WordBits - 1) \in Nat
      BY WordAssumption
    <2> QED BY <2>1, <2>2 DEF IsReply
  <1>3. IsTyped(r)
    BY <1>1, <1>2 DEF IsTyped, IsReply
  <1> QED BY <1>3, VariantBytes

\* A payload without fields has no response.
LEMMA EmptyUndecodable == DecodeResponse(<<>>) = Undecodable
  <1>1. LastOf(Fields(<<>>), 3, LD, None).bytes = None
    <2>1. \A y \in {} : y.field # 3
      OBVIOUS
    <2> QED BY <2>1, NoFields, LastAbsent
  <1> QED BY <1>1, Zenon DEF DecodeResponse, DecodeEnvelope

\* What stands before the last byte still stands there without it.
LEMMA StandsBefore ==
    ASSUME NEW p \in Seq(Octets), NEW q \in Seq(Octets), NEW k, StandsAt(q, p, k),
           k + Len(q) - 1 <= Len(p) - 1
    PROVE  StandsAt(q, SubSeq(p, 1, Len(p) - 1), k)
  <1> DEFINE n == Len(p)
             b == SubSeq(p, 1, n - 1)
             m == Len(q)
  <1>1. n \in Nat /\ m \in Nat /\ k \in Nat \ {0} /\ k + m - 1 <= n - 1
    BY LenProperties DEF StandsAt
  <1>2. \A i \in 1..(n - 1) : p[i] \in Octets
    <2>1. \A i \in 1..n : p[i] \in Octets
      BY ElementOfSeq
    <2> QED BY <1>1, <2>1
  <1>3. n - 1 >= 0
    BY <1>1
  <1> HIDE DEF n, m
  <1>4. /\ b \in Seq(Octets) /\ Len(b) = n - 1 /\ \A i \in 1..(n - 1) : b[i] = p[i]
    <2>1. /\ b \in Seq(Octets) /\ Len(b) = IF 1 <= n - 1 THEN (n - 1) - 1 + 1 ELSE 0
          /\ \A i \in 1..((n - 1) - 1 + 1) : b[i] = p[1 + i - 1]
      BY <1>1, <1>2, SubSeqProperties DEF n
    <2>2. \A i \in 1..(n - 1) : b[i] = p[1 + i - 1] /\ 1 + i - 1 = i
      BY <1>1, <2>1
    <2> HIDE DEF b
    <2> QED BY <1>1, <1>3, <2>1, <2>2
  <1> HIDE DEF b
  <1>5. \A j \in 1..m : p[k + j - 1] = q[j] /\ k + j - 1 \in 1..(n - 1)
    <2>1. \A j \in 1..m : k + j - 1 \in 1..(n - 1)
      BY <1>1
    <2> QED BY <2>1 DEF StandsAt, m
  <1>6. \A j \in 1..m : b[k + j - 1] = q[j]
    BY <1>4, <1>5
  <1> QED BY <1>1, <1>4, <1>6 DEF StandsAt, b, n, m

\* A length-delimited field that ends after the buffer breaks the reader.
LEMMA CutField ==
    ASSUME NEW buf, NEW tag, NEW arg, tag.num % 8 = LD,
           ~(arg.next + arg.num <= Len(buf) + 1)
    PROVE  ReadAfterTag(buf, tag, arg) = Broken
  <1> DEFINE field == [ok |-> TRUE, field |-> tag.num \div 8, wire |-> tag.num % 8,
                       num |-> 0, bytes |-> <<>>, next |-> 0]
  <1>1. field.wire = LD /\ LD # Varint /\ LD # 1 /\ LD # 5
    BY DEF LD, Varint
  <1> HIDE DEF field
  <1>2. ReadAfterTag(buf, tag, arg) =
        CASE field.wire = Varint /\ arg.ok ->
              [field EXCEPT !.num = arg.num, !.next = arg.next]
        [] field.wire = LD /\ arg.ok /\ arg.next + arg.num <= Len(buf) + 1 ->
              [field EXCEPT !.bytes = SubSeq(buf, arg.next, arg.next + arg.num - 1),
                            !.next = arg.next + arg.num]
        [] field.wire = 1 -> [field EXCEPT !.next = tag.next + 8]
        [] field.wire = 5 -> [field EXCEPT !.next = tag.next + 4]
        [] OTHER          -> Broken
    BY Zenon DEF ReadAfterTag, field
  <1> QED BY <1>1, <1>2

\* An answer that lacks its last byte is not decoded.
LEMMA TruncatedUndecodable ==
    ASSUME Wide, NEW r, IsReply(r)
    PROVE  DecodeResponse(Front(EncodeResponse(r))) = Undecodable
  <1> DEFINE w == LdFieldAlways(ResponseNumber(r), EncodeVariant(r))
             v == Tag(1, Varint) \o EncodeVarint[1]
             t == EncodeVarint[8 * 3 + LD]
             l == EncodeVarint[Len(w)]
             q == (t \o l) \o w
             p == v \o q
             i == 1 + Len(v)
             buf == SubSeq(p, 1, Len(p) - 1)
  <1>1. Front(EncodeResponse(r)) = buf
    <2>1. EncodeResponse(r) = p
      BY DEF EncodeResponse, Envelope, Uint64Field, LdFieldAlways, Tag
    <2> HIDE DEF p
    <2> QED BY <2>1 DEF Front
  <1>2. w \in Seq(Octets) /\ Len(w) \in Word /\ Len(w) \in Nat /\ Len(w) > 0
    <2>1. <<>> \o w \in Seq(Octets) /\ Len(<<>> \o w) <= BodyRoom + 120 /\ w \in Seq(Octets)
      <3>1. /\ EncodeVariant(r) \in Seq(Octets) /\ ResponseNumber(r) \in Nat
        BY ReplyBytes, NumberOfReply
      <3>2. EncodeVariant(r) \o <<>> = EncodeVariant(r) /\ w \in Seq(Octets)
        BY <3>1, FieldBytes, ConcatEmptySeq
      <3>3. /\ <<>> \o LdFieldAlways(ResponseNumber(r), EncodeVariant(r) \o <<>>) \in Seq(Octets)
            /\ Len(<<>> \o LdFieldAlways(ResponseNumber(r), EncodeVariant(r) \o <<>>))
                 <= BodyRoom + 120
        BY NewerFields, ResponseRead
      <3> QED BY <3>2, <3>3
    <2>2. <<>> \o w = w /\ Len(w) \in Nat
      BY <2>1, ConcatEmptySeq, LenProperties
    <2>3. Len(w) \in Word
      <3>1. Len(w) <= 3 * Room + 1000
        BY <2>1, <2>2, SMT DEF Room, BodyRoom
      <3> QED BY <2>2, <3>1, SmallWord
    <2>4. Len(w) > 0
      <3>1. ResponseNumber(r) \in 1..31 /\ EncodeVariant(r) \in Seq(Octets)
        BY ReplyBytes, NumberOfReply
      <3>2. Len(EncodeVariant(r)) \in Word
        <4>1. \E S : Message(EncodeVariant(r) \o <<>>, S, BodyRoom)
          BY NewerFields, ReplyBody DEF ReplyRead
        <4>2. EncodeVariant(r) \o <<>> = EncodeVariant(r)
          BY <3>1, ConcatEmptySeq
        <4>3. Len(EncodeVariant(r)) \in Nat /\ Len(EncodeVariant(r)) <= BodyRoom
          BY <4>1, <4>2 DEF Message
        <4>4. Len(EncodeVariant(r)) <= 3 * Room + 1000
          BY <4>3, SMT DEF Room, BodyRoom
        <4> QED BY <4>3, <4>4, SmallWord
      <3> QED BY <3>1, <3>2, LdLength
    <2> QED BY <2>1, <2>2, <2>3, <2>4
  <1> HIDE DEF w
  <1>3. /\ 8 * 3 + LD \in Nat /\ Short(8 * 3 + LD) /\ (8 * 3 + LD) % 8 = LD
        /\ Short(8 * 1 + Varint) /\ 8 * 1 + Varint \in Nat
        /\ Short(1) /\ Short(Len(w))
    <2>1. 1 \in 1..31 /\ 3 \in 1..31 /\ LD \in 0..7 /\ Varint \in 0..7 /\ 3 \in Nat
      BY DEF LD, Varint
    <2>2. 1 \in Word
      <3>1. 1 \in Nat /\ 1 <= 3 * Room + 1000
        BY SMT DEF Room
      <3> QED BY <3>1, SmallWord
    <2> QED BY <1>2, <2>1, <2>2, TagShort, TagParts, WordShort
  <1>4. /\ v \in Seq(Octets) /\ t \in Seq(Octets) /\ l \in Seq(Octets)
        /\ Len(v) \in Nat /\ Len(t) \in Nat /\ Len(l) \in Nat
        /\ Len(t) >= 1
    <2>1. t \in Seq(Octets) /\ l \in Seq(Octets) /\ Tag(1, Varint) \in Seq(Octets)
          /\ EncodeVarint[1] \in Seq(Octets)
      BY <1>2, <1>3, VarintCases DEF Tag
    <2>2. v \in Seq(Octets)
      BY <2>1, Glue
    <2>3. Len(t) >= 1
      BY <1>3, EncodedShape DEF VarintShape
    <2> QED BY <2>1, <2>2, <2>3, LenProperties
  <1> HIDE DEF v, t, l
  <1>5. /\ t \o l \in Seq(Octets) /\ Len(t \o l) = Len(t) + Len(l)
        /\ q \in Seq(Octets) /\ Len(q) = Len(t) + Len(l) + Len(w)
        /\ p \in Seq(Octets) /\ Len(p) = Len(v) + (Len(t) + Len(l) + Len(w))
    <2>1. t \o l \in Seq(Octets) /\ Len(t \o l) = Len(t) + Len(l)
      BY <1>4, ConcatProperties
    <2>2. q \in Seq(Octets) /\ Len(q) = Len(t \o l) + Len(w)
      BY <1>2, <2>1, ConcatProperties
    <2> HIDE DEF q
    <2>3. p \in Seq(Octets) /\ Len(p) = Len(v) + Len(q)
      <3>1. \A a, b \in Seq(Octets) : a \o b \in Seq(Octets) /\ Len(a \o b) = Len(a) + Len(b)
        BY ConcatProperties
      <3> QED BY <1>4, <2>2, <3>1, Zenon
    <2> QED BY <2>1, <2>2, <2>3
  <1>6. StandsAt(v, p, 1) /\ StandsAt(t, p, i) /\ StandsAt(l, p, i + Len(t))
    <2>1. StandsAt(p, p, 1)
      <3>1. Len(p) \in Nat /\ p \in Seq(Octets)
        BY <1>5, LenProperties
      <3> HIDE DEF p
      <3>2. \A j \in 1..Len(p) : 1 + j - 1 = j
        BY <3>1
      <3> QED BY <3>1, <3>2 DEF StandsAt
    <2>2. StandsAt(v, p, 1) /\ StandsAt(q, p, i)
      <3> HIDE DEF q
      <3>1. \A x : StandsAt(v \o q, x, 1) => StandsAt(v, x, 1) /\ StandsAt(q, x, 1 + Len(v))
        BY <1>4, <1>5, StandsParts
      <3> QED BY <2>1, <3>1
    <2> HIDE DEF p, i
    <2>3. StandsAt(t \o l, p, i)
      <3> DEFINE s == t \o l
      <3>1. s \in Seq(Octets) /\ StandsAt(s \o w, p, i)
        BY <1>5, <2>2
      <3> HIDE DEF s
      <3>2. StandsAt(s, p, i)
        BY <1>2, <3>1, StandsParts
      <3> QED BY <3>2 DEF s
    <2>4. StandsAt(t, p, i) /\ StandsAt(l, p, i + Len(t))
      BY <1>4, <2>3, StandsParts
    <2> QED BY <2>2, <2>4
  <1> HIDE DEF q, p
  <1>7. /\ Len(p) \in Nat /\ i \in Nat \ {0} /\ i + Len(t) \in Nat
        /\ 1 + Len(v) - 1 <= Len(p) - 1 /\ i + Len(t) - 1 <= Len(p) - 1
        /\ (i + Len(t)) + Len(l) - 1 <= Len(p) - 1
        /\ (i + Len(t) + Len(l)) + Len(w) = Len(p) + 1
    <2>1. \A a, b, c, d \in Nat : d > 0 =>
            LET n == a + (b + c + d)
                k == 1 + a
            IN  /\ n \in Nat /\ k \in Nat \ {0} /\ k + b \in Nat
                /\ 1 + a - 1 <= n - 1 /\ k + b - 1 <= n - 1
                /\ (k + b) + c - 1 <= n - 1 /\ (k + b + c) + d = n + 1
      OBVIOUS
    <2> QED BY <1>2, <1>4, <1>5, <2>1
  <1>8. StandsAt(v, buf, 1) /\ StandsAt(t, buf, i) /\ StandsAt(l, buf, i + Len(t))
    <2> HIDE DEF i, buf
    <2>1. \A s \in Seq(Octets), k \in Nat : StandsAt(s, p, k) /\ k + Len(s) - 1 <= Len(p) - 1
             => StandsAt(s, buf, k)
      BY <1>5, StandsBefore DEF buf
    <2>2. 1 \in Nat /\ i \in Nat
      BY <1>7
    <2> QED BY <1>4, <1>6, <1>7, <2>1, <2>2
  <1>9. buf \in Seq(Octets) /\ Len(buf) \in Nat /\ i <= Len(buf) /\ Len(buf) = Len(p) - 1
    <2>1. buf \in Seq(Octets)
      BY <1>8 DEF StandsAt
    <2>2. i + Len(t) - 1 <= Len(buf)
      BY <1>8 DEF StandsAt
    <2>3. Len(buf) = Len(p) - 1
      <3>1. \A j \in 1..(Len(p) - 1) : p[j] \in Octets
        <4>1. \A j \in 1..Len(p) : p[j] \in Octets
          BY <1>5, ElementOfSeq
        <4> QED BY <1>7, <4>1
      <3>2. Len(buf) = IF 1 <= Len(p) - 1 THEN (Len(p) - 1) - 1 + 1 ELSE 0
        BY <1>7, <3>1, SubSeqProperties
      <3> HIDE DEF buf
      <3> QED BY <1>4, <1>7, <3>2
    <2> HIDE DEF buf, i
    <2> QED BY <1>4, <1>7, <2>1, <2>2, <2>3, LenProperties
  <1> HIDE DEF buf
  <1>10. FieldAt(buf, 1).ok = TRUE /\ FieldAt(buf, 1).next = i
    <2>1. FieldAt(buf, 1) = [ok |-> TRUE, field |-> 1, wire |-> Varint, num |-> 1, bytes |-> <<>>,
                             next |-> 1 + Len(Tag(1, Varint) \o EncodeVarint[1])]
      BY <1>3, <1>8, VarintFieldReadBack DEF FieldAt, v
    <2> QED BY <2>1 DEF v
  <1> HIDE DEF i
  <1>11. FieldAt(buf, i) = Broken
    <2> DEFINE tag == [ok |-> TRUE, num |-> 8 * 3 + LD, next |-> i + Len(t)]
               arg == [ok |-> TRUE, num |-> Len(w), next |-> (i + Len(t)) + Len(l)]
    <2>1. ReadVarint(buf, i) = tag
      BY <1>3, <1>8, ReadBack DEF Short, t
    <2>2. ReadVarint(buf, i + Len(t)) = arg
      BY <1>2, <1>3, <1>8, ReadBack DEF Short, l
    <2>3. /\ tag.ok = TRUE /\ tag.num % 8 = LD /\ tag.next = i + Len(t)
          /\ arg.next + arg.num = (i + Len(t) + Len(l)) + Len(w)
      BY <1>3
    <2> HIDE DEF tag, arg
    <2>4. ~(arg.next + arg.num <= Len(buf) + 1)
      BY <1>7, <1>9, <2>3
    <2>5. FieldAt(buf, i) = ReadAfterTag(buf, tag, arg)
      BY <2>1, <2>2, <2>3 DEF FieldAt, ReadField
    <2> QED BY <2>3, <2>4, <2>5, CutField
  <1>12. PICK f : Parsing(f, buf) /\ Fields(buf) = f[1]
    BY <1>9, FieldsParsed
  <1> DEFINE x == FieldAt(buf, 1)
  <1>13. f[1] = <<x>> \o <<Broken>>
    <2>1. Broken.ok = FALSE
      BY DEF Broken
    <2>2. f[i] = <<Broken>> \o <<>>
      <3>1. i \in Nat \ {0} /\ ~(i > Len(buf))
        BY <1>7, <1>9
      <3>2. f[i] = <<Broken>> \o (IF Broken.ok THEN f[Broken.next] ELSE <<>>)
        BY <1>11, <1>12, <3>1, Zenon DEF Parsing
      <3> QED BY <2>1, <3>2
    <2>3. <<Broken>> \o <<>> = <<Broken>>
      BY ConcatEmptySeq
    <2>4. f[1] = <<x>> \o (IF x.ok THEN f[x.next] ELSE <<>>)
      <3>1. 1 \in Nat \ {0} /\ ~(1 > Len(buf))
        BY <1>7, <1>9
      <3> QED BY <1>12, <3>1, Zenon DEF Parsing
    <2> HIDE DEF x
    <2> QED BY <1>10, <2>2, <2>3, <2>4 DEF x
  <1>14. ~Readable(f[1])
    <2>1. <<x>> \in Seq({x, Broken}) /\ <<Broken>> \in Seq({x, Broken})
          /\ Len(<<x>>) = 1 /\ Len(<<Broken>>) = 1
      OBVIOUS
    <2>2. /\ f[1] \in Seq({x, Broken}) /\ Len(f[1]) = Len(<<x>>) + Len(<<Broken>>)
          /\ \A k \in 1..(Len(<<x>>) + Len(<<Broken>>)) :
                f[1][k] = IF k <= Len(<<x>>) THEN <<x>>[k] ELSE <<Broken>>[k - Len(<<x>>)]
      BY <1>13, <2>1, ConcatProperties
    <2> HIDE DEF x
    <2>3. 2 \in DOMAIN f[1] /\ f[1][2] = Broken
      BY <2>1, <2>2
    <2> QED BY <2>3 DEF Readable, Broken
  <1> QED BY <1>1, <1>12, <1>14, Zenon DEF DecodeResponse, DecodeEnvelope

\* Whatever the server answers, the client reads it from the payload that it
\* is encoded in: for every type of response, every key and value of bytes up
\* to a gigabyte, every version, count and counter; also among the fields of a
\* later version of the protocol, and when an earlier response stands before
\* it.  An envelope of a later version is not decoded at all, and neither is an
\* answer that lacks its last byte.
THEOREM ResponseRoundTrip ==
    ASSUME Wide, NEW r, IsReply(r)
    PROVE  LET response == LdFieldAlways(ResponseNumber(r), EncodeVariant(r))
               extended == NewFields \o LdFieldAlways(ResponseNumber(r), EncodeVariant(r) \o NewFields)
           IN  /\ DecodeResponse(EncodeResponse(r)) = Decoded(r)
               /\ DecodeResponse(Uint64Field(1, 1) \o LdFieldAlways(3, extended)) = Decoded(r)
               /\ \A u \in Seq(Octets) :
                     Len(u) <= BodyRoom =>
                        DecodeResponse(LdFieldAlways(3, u) \o LdFieldAlways(3, response))
                          = Decoded(r)
               /\ DecodeResponse(Uint64Field(1, 2) \o LdFieldAlways(3, response)) = Undecodable
               /\ DecodeResponse(Front(EncodeResponse(r))) = Undecodable
  <1> DEFINE n == ResponseNumber(r)
             v == EncodeVariant(r)
             response == LdFieldAlways(n, v)
             extended == NewFields \o LdFieldAlways(n, v \o NewFields)
  <1>1. v \in Seq(Octets) /\ n \in Nat /\ <<>> \in Seq(Octets)
    BY ReplyBytes, NumberOfReply
  <1>2. response \in Seq(Octets) /\ v \o <<>> = v
    BY <1>1, FieldBytes, ConcatEmptySeq
  <1>3. /\ Len(response) <= BodyRoom + 120
        /\ DecodeOneof(Fields(response)) = Decoded(r)
    <2> DEFINE w == <<>> \o LdFieldAlways(n, v \o <<>>)
    <2>1. Len(w) <= BodyRoom + 120 /\ DecodeOneof(Fields(w)) = Decoded(r)
      BY NewerFields, ResponseRead
    <2>2. w = response
      BY <1>2, ConcatEmptySeq
    <2> QED BY <2>1, <2>2
  <1>4. /\ extended \in Seq(Octets) /\ Len(extended) <= BodyRoom + 120
        /\ DecodeOneof(Fields(extended)) = Decoded(r)
    BY NewerFields, ResponseRead
  <1>13. DecodeResponse(Front(EncodeResponse(r))) = Undecodable
    BY TruncatedUndecodable
  <1> HIDE DEF n, v, response, extended
  <1>5. 1 \in Word /\ 2 \in Word
    <2>1. 1 \in Nat /\ 2 \in Nat /\ 1 <= 3 * Room + 1000 /\ 2 <= 3 * Room + 1000
      BY SMT DEF Room
    <2> QED BY <2>1, SmallWord
  <1>6. \A p \in Seq(Octets) : p # None
    BY NoneAssumption DEF Octets
  <1>7. ASSUME NEW f, Readable(f), NumOf(f, 1) \in {0, 1}, NEW w \in Seq(Octets),
               LastOf(f, 3, LD, None).bytes = w
        PROVE  DecodeEnvelope(f, LastOf(f, 3, LD, None).bytes) = DecodeOneof(Fields(w))
    BY <1>6, <1>7, Zenon DEF DecodeEnvelope
  <1>8. ASSUME NEW w \in Seq(Octets), Len(w) <= BodyRoom + 120
        PROVE  DecodeResponse(Uint64Field(1, 1) \o LdFieldAlways(3, w)) = DecodeOneof(Fields(w))
    <2> DEFINE e == Uint64Field(1, 1) \o LdFieldAlways(3, w)
    <2>1. Readable(Fields(e)) /\ NumOf(Fields(e), 1) = 1 /\ LastOf(Fields(e), 3, LD, None).bytes = w
      BY <1>5, <1>8, ResponseEnvelope
    <2> HIDE DEF e
    <2>2. DecodeResponse(e) = DecodeOneof(Fields(w))
      BY <1>7, <2>1 DEF DecodeResponse
    <2> QED BY <2>2 DEF e
  <1>9. EncodeResponse(r) = Uint64Field(1, 1) \o LdFieldAlways(3, response)
    BY DEF EncodeResponse, Envelope, response, n, v
  <1>10. ASSUME NEW u \in Seq(Octets), Len(u) <= BodyRoom
         PROVE  DecodeResponse(LdFieldAlways(3, u) \o LdFieldAlways(3, response)) = Decoded(r)
    <2> DEFINE e == LdFieldAlways(3, u) \o LdFieldAlways(3, response)
    <2>1. Len(u) <= BodyRoom + 120
      <3>1. Len(u) \in Nat
        BY LenProperties
      <3> QED BY <1>10, <3>1, SMT DEF Room, BodyRoom
    <2>2. Readable(Fields(e)) /\ NumOf(Fields(e), 1) = 0
          /\ LastOf(Fields(e), 3, LD, None).bytes = response
      BY <1>2, <1>3, <2>1, SecondResponse
    <2> HIDE DEF e
    <2>3. DecodeResponse(e) = DecodeOneof(Fields(response))
      BY <1>2, <1>7, <2>2 DEF DecodeResponse
    <2> QED BY <1>3, <2>3 DEF e
  <1>11. DecodeResponse(Uint64Field(1, 2) \o LdFieldAlways(3, response)) = Undecodable
    <2> DEFINE e == Uint64Field(1, 2) \o LdFieldAlways(3, response)
    <2>1. NumOf(Fields(e), 1) = 2
      BY <1>2, <1>3, <1>5, ResponseEnvelope
    <2> HIDE DEF e
    <2>2. DecodeResponse(e) = Undecodable
      BY <2>1 DEF DecodeResponse, DecodeEnvelope
    <2> QED BY <2>2 DEF e
  <1> QED BY <1>2, <1>3, <1>4, <1>8, <1>9, <1>10, <1>11, <1>13 DEF response, extended, n, v
=============================================================================
