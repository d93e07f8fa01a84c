------------------------- MODULE PythonClientsProofs -------------------------
(***************************************************************************)
(* The calls of the Python SDK: the types, the framing of the answers, the *)
(* faithfulness of requests and of results over TCP and over HTTP, and     *)
(* strict mode, for every set of calls and responses, every limit on       *)
(* frames, every way in which the answers are cut into pieces, and events  *)
(* pushed at any time.                                                     *)
(*                                                                         *)
(* IInv is inductive for all values of the constants: the types, what the  *)
(* server has read (AskInv) and what an operation in progress holds        *)
(* (CallInv).  FrameInv says that the connection holds the rest of the     *)
(* frames written and not yet read, QueueInv that a request or an answer   *)
(* is there only for the call in progress, unless something stray is on    *)
(* the connection.  AuthInv, AnswerInv and EndInv follow an operation from *)
(* the answer that it reads to its result.                                 *)
(*                                                                         *)
(* What the server reads is what was asked when the words are as wide as   *)
(* the code's (Wide) and the arguments of the calls fit in them            *)
(* (ProperCalls); a result is what the answer means when the responses fit *)
(* in the words (ProperResponses).                                         *)
(***************************************************************************)
EXTENDS PythonClients, CodecProofs

(***************************************************************************)
(* What the server writes                                                  *)
(***************************************************************************)

\* The bytes of the clients are those of the codec.
LEMMA BytesAreOctets == Bytes = Octets
  BY DEF Bytes, Octets

\* The responses that travel over TCP.
TcpResponses == {r \in Responses : r.type # "Stats"}

\* The contents of a response are bytes.
LEMMA ResponseBytes ==
    ASSUME NEW r \in TcpResponses
    PROVE  EncodeVariant(r) \in Seq(Octets)
  <1>1. IsResponse(r) /\ \E k \in 1..14 : ResponseFields[k] = r.type
    BY ConstantsAssumption DEF TcpResponses, Range, ResponseFields
  <1>2. IsTyped(r)
    BY <1>1, BytesAreOctets DEF IsTyped, IsResponse
  <1> QED BY <1>2, VariantBytes

\* The field number of a response.
LEMMA NumberOfResponse == ASSUME NEW r PROVE ResponseNumber(r) \in Nat
  <1> DEFINE I == {i \in 1..Len(ResponseFields) : ResponseFields[i] = r.type}
  <1>1. ResponseNumber(r) = IF I # {} THEN Min(I) ELSE 0
    BY Zenon DEF ResponseNumber, SelectInSeq
  <1>2. Len(ResponseFields) \in Nat /\ I \in SUBSET (1..Len(ResponseFields))
    BY DEF ResponseFields
  <1>3. I # {} => Min(I) \in I
    BY <1>2, FirstPosition
  <1> QED BY <1>1, <1>2, <1>3

\* The payload of an answer is bytes, in each of its shapes.
LEMMA PayloadBytes ==
    ASSUME NEW r \in TcpResponses, NEW form \in GoodForms \cup BadForms
    PROVE  Payload(r, form) \in Seq(Octets)
  <1> DEFINE n == ResponseNumber(r)
             v == EncodeVariant(r)
             q == LdFieldAlways(n, v)
             e == EncodeResponse(r)
             x == LdFieldAlways(n, v \o NewFields)
  <1>1. n \in Nat /\ v \in Seq(Octets) /\ NewFields \in Seq(Octets) /\ <<>> \in Seq(Octets)
    BY NumberOfResponse, ResponseBytes, NewFieldsBytes
  <1> HIDE DEF n, v
  <1>2. q \in Seq(Octets) /\ v \o NewFields \in Seq(Octets)
    BY <1>1, FieldBytes, Glue
  <1>3. x \in Seq(Octets) /\ NewFields \o x \in Seq(Octets)
    BY <1>1, <1>2, FieldBytes, Glue
  <1>4. e = Uint64Field(1, 1) \o LdFieldAlways(3, q)
    BY DEF EncodeResponse, Envelope, n, v
  <1>5. /\ Uint64Field(1, 1) \in Seq(Octets) /\ Uint64Field(1, 2) \in Seq(Octets)
        /\ LdFieldAlways(7, <<>>) \in Seq(Octets)
    BY <1>1, FieldBytes
  <1> HIDE DEF q, x
  <1>6. /\ LdFieldAlways(3, q) \in Seq(Octets) /\ LdFieldAlways(3, NewFields \o x) \in Seq(Octets)
        /\ LdFieldAlways(3, LdFieldAlways(7, <<>>)) \in Seq(Octets)
    BY <1>2, <1>3, <1>5, FieldBytes
  <1>7. e \in Seq(Octets)
    BY <1>4, <1>5, <1>6, Glue
  <1> HIDE DEF e
  <1>8. form \in {"plain", "extended", "repeated", "truncated", "newer", "empty"}
    BY DEF GoodForms, BadForms
  <1>9. CASE form = "plain"
    BY <1>7, <1>9 DEF Payload, e
  <1>10. CASE form = "extended"
    <2>1. Payload(r, form) = Uint64Field(1, 1) \o LdFieldAlways(3, NewFields \o x)
      BY <1>10 DEF Payload, x, n, v
    <2> QED BY <1>5, <1>6, <2>1, Glue
  <1>11. CASE form = "repeated"
    <2>1. Payload(r, form) = LdFieldAlways(3, LdFieldAlways(7, <<>>)) \o LdFieldAlways(3, q)
      BY <1>11 DEF Payload, q, n, v
    <2> QED BY <1>6, <2>1, Glue
  <1>12. CASE form = "truncated"
    <2>1. Payload(r, form) = SubSeq(e, 1, Len(e) - 1)
      BY <1>12 DEF Payload, Front, e
    <2>2. Len(e) \in Nat
      BY <1>7, LenProperties
    <2>3. SubSeq(e, 1, Len(e) - 1) \in Seq(Octets)
      BY <1>7, <2>2, SubSeqProperties
    <2> QED BY <2>1, <2>3
  <1>13. CASE form = "newer"
    <2>1. Payload(r, form) = Uint64Field(1, 2) \o LdFieldAlways(3, q)
      BY <1>13 DEF Payload, q, n, v
    <2> QED BY <1>5, <1>6, <2>1, Glue
  <1>14. CASE form = "empty"
    BY <1>1, <1>14 DEF Payload
  <1> QED BY <1>8, <1>9, <1>10, <1>11, <1>12, <1>13, <1>14

\* A frame, or the beginning of one that is too long.
WellFramed(f) ==
    /\ f \in Seq(Bytes) /\ Len(f) >= 4
    /\ Length(f) <= MaxFrame => Len(f) = 4 + Length(f)

\* The last byte of a number and the rest of it.
LEMMA Div256 == \A m \in Nat : m = 256 * (m \div 256) + (m % 256)
  OBVIOUS

\* The length prefix says the length, up to what four bytes can say.
LEMMA Prefix ==
    ASSUME NEW n \in Nat, n <= MaxFrame + 1, NEW p \in Seq(Bytes)
    PROVE  /\ Length32(n) \o p \in Seq(Bytes)
           /\ Len(Length32(n) \o p) = 4 + Len(p)
           /\ Length(Length32(n) \o p) = n
  <1> DEFINE h == Length32(n)
             f == h \o p
  <1>1. MaxFrame \in Nat /\ (MaxFrame + 1) \div 16777216 \in Bytes
    BY ConstantsAssumption
  <1>2. /\ n \div 16777216 \in Bytes /\ (n \div 65536) % 256 \in Bytes
        /\ (n \div 256) % 256 \in Bytes /\ n % 256 \in Bytes
    BY <1>1, SMT DEF Bytes
  <1>3. h \in Seq(Bytes) /\ Len(h) = 4
    BY <1>2 DEF Length32
  <1>4. /\ h[1] = n \div 16777216 /\ h[2] = (n \div 65536) % 256
        /\ h[3] = (n \div 256) % 256 /\ h[4] = n % 256
    BY DEF Length32
  <1> HIDE DEF h
  <1>5. Len(p) \in Nat
    BY LenProperties
  <1>6. /\ f \in Seq(Bytes) /\ Len(f) = Len(h) + Len(p)
        /\ \A i \in 1..(Len(h) + Len(p)) : f[i] = IF i <= Len(h) THEN h[i] ELSE p[i - Len(h)]
    BY <1>3, ConcatProperties
  <1> HIDE DEF f
  <1>7. f[1] = h[1] /\ f[2] = h[2] /\ f[3] = h[3] /\ f[4] = h[4]
    BY <1>3, <1>5, <1>6
  <1>8. 16777216 * (n \div 16777216) + 65536 * ((n \div 65536) % 256)
            + 256 * ((n \div 256) % 256) + (n % 256) = n
    <2>2. (n \div 256) \div 256 = n \div 65536
      OBVIOUS
    <2>3. (n \div 65536) \div 256 = n \div 16777216
      OBVIOUS
    <2> DEFINE a == n \div 256
               b == n \div 65536
               c == n \div 16777216
    <2>4. a \in Nat /\ b \in Nat /\ c \in Nat
      OBVIOUS
    <2>5. n = 256 * a + (n % 256) /\ a = 256 * b + (a % 256) /\ b = 256 * c + (b % 256)
      <3>1. n = 256 * (n \div 256) + (n % 256)
        BY Div256
      <3>2. a = 256 * (a \div 256) + (a % 256) /\ b = 256 * (b \div 256) + (b % 256)
        <4> HIDE DEF a, b
        <4> QED BY <2>4, Div256
      <3>3. a \div 256 = b /\ b \div 256 = c
        BY <2>2, <2>3
      <3> HIDE DEF b, c
      <3> QED BY <3>1, <3>2, <3>3, Zenon
    <2> HIDE DEF a, b, c
    <2>6. n % 256 \in Nat /\ a % 256 \in Nat /\ b % 256 \in Nat
      BY <2>4
    <2>7. \A x, y, z \in Nat :
             n = 256 * a + x /\ a = 256 * b + y /\ b = 256 * c + z
                => 16777216 * c + 65536 * z + 256 * y + x = n
      BY <2>4, SMT
    <2>8. 16777216 * c + 65536 * (b % 256) + 256 * (a % 256) + (n % 256) = n
      BY <2>5, <2>6, <2>7, SMT
    <2> QED BY <2>8, SMT DEF a, b, c
  <1>9. Length(f) = n
    BY <1>4, <1>7, <1>8 DEF Length
  <1>10. Len(f) = 4 + Len(p)
    BY <1>3, <1>6
  <1> QED BY <1>6, <1>9, <1>10 DEF f, h

\* A length prefix is a number.
LEMMA LengthIsNat ==
    ASSUME NEW h \in Seq(Bytes), Len(h) >= 4
    PROVE  Length(h) \in Nat
  <1>1. Len(h) \in Nat
    BY LenProperties
  <1>2. 1 \in 1..Len(h) /\ 2 \in 1..Len(h) /\ 3 \in 1..Len(h) /\ 4 \in 1..Len(h)
    BY <1>1
  <1>3. \A i \in 1..Len(h) : h[i] \in Bytes
    BY ElementOfSeq
  <1> DEFINE i == h[1]
             j == h[2]
             k == h[3]
             l == h[4]
  <1>4. i \in Bytes /\ j \in Bytes /\ k \in Bytes /\ l \in Bytes
    BY <1>2, <1>3, Zenon
  <1>5. Length(h) = 16777216 * i + 65536 * j + 256 * k + l
    BY SMT DEF Length
  <1> HIDE DEF i, j, k, l
  <1> QED BY <1>4, <1>5, SMT DEF Bytes

\* The shapes of what the server writes.
AllForms == GoodForms \cup BadForms \cup {"oversized"}

\* Who a frame may be for.
Callers == Calls \cup {EventWait, AuthCall}

\* What Write() puts on the connection.
AnswerFrame(r, form) ==
    IF form = "oversized" THEN Length32(MaxFrame + 1) \o <<0>> ELSE Frame(Payload(r, form))

\* What is written, with the history of it.
Frames ==
    {x \in [bytes : Seq(Bytes), resp : TcpResponses, form : AllForms, to : Callers] :
        /\ x.bytes = AnswerFrame(x.resp, x.form)
        /\ x.form # "oversized" => Len(Payload(x.resp, x.form)) <= MaxFrame}

\* A frame has the length that its prefix says, unless that is too long.
LEMMA FrameOfAnswer ==
    ASSUME NEW r \in TcpResponses, NEW form \in AllForms,
           form # "oversized" => Len(Payload(r, form)) <= MaxFrame
    PROVE  WellFramed(AnswerFrame(r, form))
  <1>1. MaxFrame \in Nat
    BY ConstantsAssumption
  <1>2. CASE form = "oversized"
    <2> DEFINE n == MaxFrame + 1
               f == Length32(n) \o <<0>>
    <2>1. n \in Nat /\ n <= MaxFrame + 1 /\ <<0>> \in Seq(Bytes) /\ Len(<<0>>) = 1
      BY <1>1 DEF Bytes
    <2>2. ~(n <= MaxFrame)
      BY <1>1
    <2>3. AnswerFrame(r, form) = f
      BY <1>2 DEF AnswerFrame
    <2> HIDE DEF n
    <2>4. f \in Seq(Bytes) /\ Len(f) = 4 + Len(<<0>>) /\ Length(f) = n
      BY <2>1, Prefix
    <2>5. Len(f) >= 4
      BY <2>1, <2>4
    <2> HIDE DEF f
    <2> QED BY <2>2, <2>3, <2>4, <2>5 DEF WellFramed
  <1>3. CASE form # "oversized"
    <2> DEFINE p == Payload(r, form)
               n == Len(p)
               f == Frame(p)
    <2>1. form \in GoodForms \cup BadForms
      BY <1>3 DEF AllForms
    <2>2. p \in Seq(Bytes)
      BY <2>1, PayloadBytes, BytesAreOctets
    <2>3. n <= MaxFrame /\ AnswerFrame(r, form) = f
      BY <1>3 DEF AnswerFrame
    <2> HIDE DEF p
    <2>4. n \in Nat /\ n <= MaxFrame + 1
      BY <1>1, <2>2, <2>3, LenProperties
    <2>5. f = Length32(n) \o p
      BY DEF Frame
    <2> HIDE DEF f
    <2>6. f \in Seq(Bytes) /\ Len(f) = 4 + n /\ Length(f) = n
      BY <2>2, <2>4, <2>5, Prefix
    <2> HIDE DEF n
    <2> QED BY <2>3, <2>4, <2>6 DEF WellFramed
  <1> QED BY <1>2, <1>3

\* Whatever is written is a frame.
LEMMA FramesAreFramed == \A x \in Frames : WellFramed(x.bytes)
  BY FrameOfAnswer DEF Frames

\* The server writes one frame, after what it wrote before.
LEMMA WriteFrame ==
    ASSUME NEW r \in TcpResponses, NEW form \in AllForms, NEW c \in Callers, Write(r, form, c)
    PROVE  \E x \in Frames :
              /\ x.to = c
              /\ stream' = stream \o x.bytes /\ unread' = Append(unread, x)
  <1> DEFINE f == AnswerFrame(r, form)
             x == [bytes |-> f, resp |-> r, form |-> form, to |-> c]
  <1>1. /\ form # "oversized" => Len(Payload(r, form)) <= MaxFrame
        /\ stream' = stream \o f /\ unread' = Append(unread, x)
    BY Zenon DEF Write, AnswerFrame
  <1>2. f \in Seq(Bytes)
    BY <1>1, FrameOfAnswer DEF WellFramed
  <1> HIDE DEF f
  <1>3. /\ x.bytes = f /\ x.resp = r /\ x.form = form /\ x.to = c
        /\ x \in [bytes : Seq(Bytes), resp : TcpResponses, form : AllForms, to : Callers]
    BY <1>2
  <1> HIDE DEF x
  <1>4. x \in Frames
    BY <1>1, <1>3 DEF Frames, f
  <1> QED BY <1>1, <1>3, <1>4

\* f joins the sequences in seqs one after the other.
Joining(f, seqs) ==
    \A i \in 1..Len(seqs) : f[i] = IF i = 1 THEN seqs[i] ELSE f[i - 1] \o seqs[i]

\* There is such a function for all sequences: it is built from its beginning.
LEMMA JoiningExists ==
    ASSUME NEW seqs, Len(seqs) \in Nat
    PROVE  \E f : f = [i \in 1..Len(seqs) |-> f[i]] /\ Joining(f, seqs)
  <1> DEFINE P == 1..Len(seqs)
             E(f, i) == IF i = 1 THEN seqs[i] ELSE f[i - 1] \o seqs[i]
             D(n) == \E g : g = [i \in P |-> g[i]] /\ \A i \in P : i <= n => g[i] = E(g, i)
             T == {n \in Nat : ~D(n)}
  <1>1. D(0)
    <2> DEFINE g == [i \in P |-> <<>>]
    <2>1. \A i \in P : ~(i <= 0)
      OBVIOUS
    <2>2. g = [i \in P |-> g[i]]
      OBVIOUS
    <2> HIDE DEF g, E
    <2> QED BY <2>1, <2>2
  <1>2. ASSUME NEW n \in Nat, D(n) PROVE D(n + 1)
    <2>1. PICK g : g = [i \in P |-> g[i]] /\ \A i \in P : i <= n => g[i] = E(g, i)
      BY <1>2
    <2> DEFINE h == [i \in P |-> E(g, i)]
    <2>2. \A i \in P : i <= n => h[i] = g[i]
      <3> HIDE DEF E
      <3> QED BY <2>1
    <2>3. ASSUME NEW i \in P, i <= n + 1 PROVE h[i] = E(h, i)
      <3>1. h[i] = E(g, i)
        OBVIOUS
      <3>2. i # 1 => h[i - 1] = g[i - 1]
        <4>1. i # 1 => i - 1 \in P /\ i - 1 <= n
          BY <2>3
        <4> HIDE DEF h
        <4> QED BY <2>2, <4>1
      <3> HIDE DEF h
      <3> QED BY <3>1, <3>2
    <2>4. h = [i \in P |-> h[i]]
      <3> HIDE DEF E
      <3> QED OBVIOUS
    <2> HIDE DEF h, E
    <2> QED BY <2>3, <2>4
  <1> HIDE DEF D
  <1>3. T = {}
    <2> SUFFICES ASSUME T # {} PROVE FALSE
      OBVIOUS
    <2>1. PICK n \in T : \A m \in T : n <= m
      BY LeastElement
    <2>2. n \in Nat /\ ~D(n) /\ n # 0
      BY <1>1, <2>1
    <2>3. n - 1 \in Nat /\ n - 1 < n /\ (n - 1) + 1 = n
      BY <2>2
    <2>4. D(n - 1)
      BY <2>1, <2>3
    <2> QED BY <1>2, <2>2, <2>3, <2>4
  <1>4. D(Len(seqs))
    BY <1>3
  <1>5. PICK g : g = [i \in P |-> g[i]] /\ \A i \in P : i <= Len(seqs) => g[i] = E(g, i)
    BY <1>4 DEF D
  <1>6. \A i \in P : g[i] = E(g, i)
    <2> HIDE DEF E
    <2> QED BY <1>5
  <1> QED BY <1>5, <1>6, Zenon DEF Joining

\* FlattenSeq joins the sequences.
LEMMA Flattened ==
    ASSUME NEW seqs, Len(seqs) \in Nat \ {0}
    PROVE  \E f : Joining(f, seqs) /\ FlattenSeq(seqs) = f[Len(seqs)]
  <1> DEFINE E(f, i) == IF i = 1 THEN seqs[i] ELSE f[i - 1] \o seqs[i]
             flatten == CHOOSE f : f = [i \in 1..Len(seqs) |-> E(f, i)]
  <1>1. Len(seqs) # 0
    OBVIOUS
  <1>2. FlattenSeq(seqs) = flatten[Len(seqs)]
    BY <1>1, Zenon DEF FlattenSeq
  <1>3. PICK g : g = [i \in 1..Len(seqs) |-> g[i]] /\ Joining(g, seqs)
    BY JoiningExists
  <1>4. \A i \in 1..Len(seqs) : g[i] = E(g, i)
    BY <1>3, Zenon DEF Joining
  <1>5. g = [i \in 1..Len(seqs) |-> E(g, i)]
    <2> HIDE DEF E
    <2> QED BY <1>3, <1>4
  <1>6. flatten = [i \in 1..Len(seqs) |-> E(flatten, i)]
    <2> HIDE DEF E
    <2> QED BY <1>5, Zenon
  <1> HIDE DEF flatten
  <1>7. \A i \in 1..Len(seqs) : flatten[i] = E(flatten, i)
    <2> HIDE DEF E
    <2> QED BY <1>6
  <1> QED BY <1>2, <1>7, Zenon DEF Joining

\* Bytes are joined to bytes, in whichever order.
LEMMA Grouping ==
    \A a, b, c \in Seq(Bytes) :
       /\ a \o b \in Seq(Bytes)
       /\ (a \o b) \o c = a \o (b \o c)
       /\ a \o <<>> = a /\ <<>> \o a = a /\ <<>> \in Seq(Bytes)
  <1> SUFFICES ASSUME NEW a \in Seq(Bytes), NEW b \in Seq(Bytes), NEW c \in Seq(Bytes)
               PROVE  /\ a \o b \in Seq(Bytes)
                      /\ (a \o b) \o c = a \o (b \o c)
                      /\ a \o <<>> = a /\ <<>> \o a = a /\ <<>> \in Seq(Bytes)
    OBVIOUS
  <1>1. a \o b \in Seq(Bytes)
    BY ConcatProperties
  <1>2. (a \o b) \o c = a \o (b \o c)
    BY ConcatAssociative, SMTT(30)
  <1>3. a \o <<>> = a /\ <<>> \o a = a /\ <<>> \in Seq(Bytes)
    BY ConcatEmptySeq, EmptySeq
  <1> QED BY <1>1, <1>2, <1>3

\* What holds of 1, and of i + 1 with i, holds up to n.
LEMMA Climbing ==
    ASSUME NEW n \in Nat, NEW T, n = 0 \/ 1 \in T,
           \A i \in 1..n : i \in T /\ i < n => i + 1 \in T
    PROVE  \A i \in 1..n : i \in T
  <1> DEFINE S == {i \in 1..n : i \notin T}
  <1> SUFFICES ASSUME S # {} PROVE FALSE
    OBVIOUS
  <1>1. S \in SUBSET Nat
    OBVIOUS
  <1>2. PICK m \in S : \A i \in S : m <= i
    BY <1>1, LeastElement
  <1>3. m \in 1..n /\ m \notin T /\ m # 1
    BY <1>2
  <1>4. m - 1 \in 1..n /\ m - 1 < n /\ m - 1 < m /\ (m - 1) + 1 = m
    BY <1>3
  <1>5. m - 1 \in T
    BY <1>2, <1>4
  <1> QED BY <1>3, <1>4, <1>5

\* The bytes of the frames in u.
Joined(u) == FlattenSeq([i \in DOMAIN u |-> u[i].bytes])

\* The frames and their bytes.
LEMMA FrameAt ==
    ASSUME NEW u \in Seq(Frames)
    PROVE  /\ Len(u) \in Nat /\ DOMAIN u = 1..Len(u)
           /\ \A i \in 1..Len(u) : u[i] \in Frames /\ u[i].bytes \in Seq(Bytes)
  <1>1. Len(u) \in Nat /\ DOMAIN u = 1..Len(u)
    BY LenProperties
  <1>2. \A i \in 1..Len(u) : u[i] \in Frames
    BY ElementOfSeq
  <1> QED BY <1>1, <1>2 DEF Frames

\* No frames, no bytes.
LEMMA JoinedNone == Joined(<<>>) = <<>>
  <1> DEFINE s == [i \in DOMAIN <<>> |-> (<<>>[i]).bytes]
  <1>1. s = <<>>
    OBVIOUS
  <1>2. FlattenSeq(<<>>) = <<>>
    BY DEF FlattenSeq
  <1> HIDE DEF s
  <1>3. Joined(<<>>) = FlattenSeq(s)
    BY Zenon DEF Joined, s
  <1> QED BY <1>1, <1>2, <1>3

\* f joins the frames one after the other.
JoiningFrames(f, u) ==
    \A i \in 1..Len(u) : f[i] = IF i = 1 THEN u[1].bytes ELSE f[i - 1] \o u[i].bytes

\* The bytes of some frames are joined.
LEMMA JoinedFrames ==
    ASSUME NEW u \in Seq(Frames), u # <<>>
    PROVE  /\ Len(u) \in Nat \ {0}
           /\ \E f : JoiningFrames(f, u) /\ Joined(u) = f[Len(u)]
  <1> DEFINE n == Len(u)
             s == [i \in 1..n |-> u[i].bytes]
  <1>1. n \in Nat /\ n # 0 /\ DOMAIN u = 1..n
    BY FrameAt, EmptySeq
  <1>2. Joined(u) = FlattenSeq(s)
    BY <1>1, Zenon DEF Joined
  <1>3. s \in Seq(Seq(Bytes)) /\ Len(s) = n /\ \A i \in 1..n : s[i] = u[i].bytes
    <2>1. \A i \in 1..n : u[i].bytes \in Seq(Bytes)
      BY FrameAt
    <2> QED BY <1>1, <2>1
  <1> HIDE DEF s, n
  <1>4. PICK f : Joining(f, s) /\ FlattenSeq(s) = f[Len(s)]
    BY <1>1, <1>3, Flattened
  <1>5. ASSUME NEW i \in 1..n
        PROVE  f[i] = IF i = 1 THEN u[1].bytes ELSE f[i - 1] \o u[i].bytes
    <2>1. f[i] = IF i = 1 THEN s[i] ELSE f[i - 1] \o s[i]
      BY <1>3, <1>4 DEF Joining
    <2> QED BY <1>3, <2>1
  <1>6. JoiningFrames(f, u)
    BY <1>5, Zenon DEF JoiningFrames, n
  <1>7. Joined(u) = f[n]
    BY <1>2, <1>3, <1>4
  <1> QED BY <1>1, <1>6, <1>7 DEF n

\* They are bytes.
LEMMA JoiningTyped ==
    ASSUME NEW u \in Seq(Frames), NEW f, JoiningFrames(f, u)
    PROVE  \A i \in 1..Len(u) : f[i] \in Seq(Bytes)
  <1> DEFINE n == Len(u)
             T == {i \in 1..n : f[i] \in Seq(Bytes)}
  <1>1. n \in Nat /\ \A i \in 1..n : u[i].bytes \in Seq(Bytes)
    BY FrameAt
  <1>2. n = 0 \/ 1 \in T
    BY <1>1 DEF JoiningFrames
  <1>3. ASSUME NEW i \in 1..n, i \in T, i < n PROVE i + 1 \in T
    <2>1. i + 1 \in 1..n /\ i + 1 # 1 /\ (i + 1) - 1 = i
      BY <1>1, <1>3
    <2>2. f[i + 1] = f[i] \o u[i + 1].bytes
      BY <2>1 DEF JoiningFrames
    <2>3. f[i] \in Seq(Bytes) /\ u[i + 1].bytes \in Seq(Bytes)
      BY <1>1, <1>3, <2>1
    <2> QED BY <2>1, <2>2, <2>3, ConcatProperties
  <1> HIDE DEF T, n
  <1>4. \A i \in 1..n : i \in T
    BY <1>1, <1>2, <1>3, Climbing
  <1> QED BY <1>4 DEF T, n

\* So are all of them together.
LEMMA JoinedTyped ==
    ASSUME NEW u \in Seq(Frames)
    PROVE  Joined(u) \in Seq(Bytes)
  <1>1. CASE u = <<>>
    <2>1. <<>> \in Seq(Bytes)
      OBVIOUS
    <2> QED BY <1>1, <2>1, JoinedNone
  <1>2. CASE u # <<>>
    <2>1. PICK f : JoiningFrames(f, u) /\ Joined(u) = f[Len(u)]
      BY <1>2, JoinedFrames
    <2>2. Len(u) \in 1..Len(u)
      BY <1>2, JoinedFrames
    <2> QED BY <2>1, <2>2, JoiningTyped
  <1> QED BY <1>1, <1>2

\* A frame more.
LEMMA JoinedAppend ==
    ASSUME NEW u \in Seq(Frames), NEW x \in Frames
    PROVE  Joined(Append(u, x)) = Joined(u) \o x.bytes
  <1> DEFINE w == Append(u, x)
             n == Len(u)
  <1>1. n \in Nat
    BY LenProperties
  <1>2. /\ w \in Seq(Frames) /\ w # <<>> /\ Len(w) = n + 1
        /\ \A i \in 1..n : w[i] = u[i]
        /\ w[n + 1] = x
    BY AppendProperties
  <1> HIDE DEF w
  <1>3. PICK g : JoiningFrames(g, w) /\ Joined(w) = g[n + 1]
    BY <1>2, JoinedFrames
  <1>4. g[n + 1] = IF n + 1 = 1 THEN w[1].bytes ELSE g[(n + 1) - 1] \o w[n + 1].bytes
    BY <1>1, <1>2, <1>3 DEF JoiningFrames
  <1>5. CASE u = <<>>
    <2>1. n = 0
      BY <1>5
    <2>2. x.bytes \in Seq(Bytes)
      BY DEF Frames
    <2>3. <<>> \o x.bytes = x.bytes
      BY <2>2, ConcatEmptySeq
    <2>4. Joined(w) = x.bytes
      BY <1>2, <1>3, <1>4, <2>1
    <2>5. Joined(u) = <<>>
      BY <1>5, JoinedNone
    <2> QED BY <2>3, <2>4, <2>5 DEF w
  <1>6. CASE u # <<>>
    <2>1. PICK f : JoiningFrames(f, u) /\ Joined(u) = f[n]
      BY <1>6, JoinedFrames
    <2>2. n # 0
      BY <1>6, JoinedFrames
    <2> DEFINE T == {i \in 1..n : g[i] = f[i]}
    <2>3. 1 \in T
      <3>1. 1 \in 1..n /\ 1 \in 1..Len(w)
        BY <1>1, <1>2, <2>2
      <3>2. f[1] = u[1].bytes /\ g[1] = w[1].bytes
        BY <1>3, <2>1, <3>1 DEF JoiningFrames
      <3> QED BY <1>2, <3>1, <3>2
    <2>4. ASSUME NEW i \in 1..n, i \in T, i < n PROVE i + 1 \in T
      <3>1. i + 1 \in 1..n /\ i + 1 \in 1..Len(w) /\ i + 1 # 1 /\ (i + 1) - 1 = i
        BY <1>1, <1>2, <2>4
      <3>2. f[i + 1] = f[i] \o u[i + 1].bytes /\ g[i + 1] = g[i] \o w[i + 1].bytes
        BY <1>3, <2>1, <3>1 DEF JoiningFrames
      <3>3. w[i + 1] = u[i + 1] /\ g[i] = f[i]
        BY <1>2, <2>4, <3>1
      <3> QED BY <3>1, <3>2, <3>3
    <2> HIDE DEF T
    <2>5. n \in T
      <3>1. \A i \in 1..n : i \in T
        <4> HIDE DEF n
        <4> QED BY <1>1, <2>3, <2>4, Climbing
      <3> QED BY <1>1, <2>2, <3>1
    <2>6. g[n] = f[n] /\ n + 1 # 1 /\ (n + 1) - 1 = n
      BY <1>1, <2>2, <2>5 DEF T
    <2> QED BY <1>2, <1>3, <1>4, <2>1, <2>6 DEF w
  <1> QED BY <1>5, <1>6

\* What follows the first of a queue.
LEMMA RestOf ==
    ASSUME NEW S, NEW q \in Seq(S), q # <<>>
    PROVE  /\ Head(q) = q[1] /\ Head(q) \in S
           /\ Rest(q) \in Seq(S) /\ Len(q) \in Nat \ {0} /\ Len(Rest(q)) = Len(q) - 1
           /\ \A i \in 1..(Len(q) - 1) : Rest(q)[i] = q[i + 1]
  <1> DEFINE n == Len(q)
             t == SubSeq(q, 2, n)
  <1>1. n \in Nat /\ n # 0 /\ \A i \in 1..n : q[i] \in S
    BY LenProperties, EmptySeq, ElementOfSeq
  <1>2. \A i \in 2..n : q[i] \in S
    BY <1>1
  <1>3. 2 \in Int /\ n \in Int
    BY <1>1
  <1>4. /\ t \in Seq(S) /\ Len(t) = (IF 2 <= n THEN n - 2 + 1 ELSE 0)
        /\ \A i \in 1..(n - 2 + 1) : t[i] = q[2 + i - 1]
    <2> HIDE DEF n
    <2> QED BY <1>2, <1>3, SubSeqProperties
  <1>5. Rest(q) = t
    BY DEF Rest
  <1> HIDE DEF t, n
  <1>6. Len(t) = n - 1 /\ n - 2 + 1 = n - 1
    BY <1>1, <1>4
  <1>7. \A i \in 1..(n - 1) : t[i] = q[i + 1]
    <2>1. ASSUME NEW i \in 1..(n - 1) PROVE t[i] = q[i + 1]
      <3>1. i \in 1..(n - 2 + 1) /\ 2 + i - 1 = i + 1
        BY <1>1
      <3>2. t[i] = q[2 + i - 1]
        BY <1>4, <3>1
      <3> QED BY <3>1, <3>2
    <2> QED BY <2>1
  <1>8. Head(q) = q[1] /\ q[1] \in S
    <2>1. 1 \in 1..n
      BY <1>1
    <2> QED BY <1>1, <2>1
  <1> QED BY <1>1, <1>4, <1>5, <1>6, <1>7, <1>8 DEF n

\* The first frame and the others.
LEMMA JoinedRest ==
    ASSUME NEW u \in Seq(Frames), u # <<>>
    PROVE  Joined(u) = Head(u).bytes \o Joined(Rest(u))
  <1> DEFINE n == Len(u)
             v == Rest(u)
             b == u[1].bytes
  <1>1. /\ Head(u) = u[1] /\ v \in Seq(Frames) /\ n \in Nat \ {0} /\ Len(v) = n - 1
        /\ \A i \in 1..(n - 1) : v[i] = u[i + 1]
    BY RestOf
  <1>2. b \in Seq(Bytes)
    BY <1>1, FrameAt
  <1> HIDE DEF v
  <1>3. PICK f : JoiningFrames(f, u) /\ Joined(u) = f[n]
    BY JoinedFrames
  <1>4. f[1] = b
    BY <1>1, <1>3 DEF JoiningFrames
  <1>5. CASE v = <<>>
    <2>1. n = 1
      BY <1>1, <1>5
    <2>2. b \o <<>> = b
      BY <1>2, ConcatEmptySeq
    <2>3. Joined(v) = <<>>
      BY <1>5, JoinedNone
    <2> HIDE DEF b, n
    <2> QED BY <1>1, <1>3, <1>4, <2>1, <2>2, <2>3 DEF v, b
  <1>6. CASE v # <<>>
    <2>1. PICK g : JoiningFrames(g, v) /\ Joined(v) = g[n - 1]
      BY <1>1, <1>6, JoinedFrames
    <2>2. n - 1 \in Nat /\ n - 1 # 0
      BY <1>1, <1>6, JoinedFrames
    <2>3. \A i \in 1..(n - 1) : g[i] \in Seq(Bytes)
      BY <1>1, <2>1, JoiningTyped
    <2> DEFINE T == {i \in 1..(n - 1) : f[i + 1] = b \o g[i]}
    <2>4. 1 \in T
      <3>1. 1 \in 1..Len(v) /\ 2 \in 1..n /\ 1 \in 1..(n - 1) /\ 2 # 1 /\ 2 - 1 = 1 /\ 1 + 1 = 2
        BY <1>1, <2>2
      <3>2. g[1] = v[1].bytes
        BY <2>1, <3>1 DEF JoiningFrames
      <3>3. f[2] = f[2 - 1] \o u[2].bytes
        BY <1>3, <3>1 DEF JoiningFrames
      <3>4. v[1] = u[1 + 1]
        BY <1>1, <3>1
      <3> HIDE DEF b, n
      <3> QED BY <1>4, <3>1, <3>2, <3>3, <3>4
    <2>5. ASSUME NEW i \in 1..(n - 1), i \in T, i < n - 1 PROVE i + 1 \in T
      <3> DEFINE j == i + 1
      <3>1. /\ j \in 1..(n - 1) /\ j \in 1..Len(v) /\ j # 1 /\ j - 1 = i
            /\ j + 1 \in 1..n /\ j + 1 # 1 /\ (j + 1) - 1 = j
        BY <1>1, <2>5
      <3>2. g[j] = g[i] \o v[j].bytes
        BY <2>1, <3>1 DEF JoiningFrames
      <3>3. f[j + 1] = f[j] \o u[j + 1].bytes
        BY <1>3, <3>1 DEF JoiningFrames
      <3>4. v[j] = u[j + 1] /\ f[j] = b \o g[i]
        BY <1>1, <2>5, <3>1
      <3>5. g[i] \in Seq(Bytes) /\ v[j].bytes \in Seq(Bytes)
        BY <1>1, <2>3, <3>1, FrameAt
      <3> HIDE DEF b, j
      <3>6. (b \o g[i]) \o v[j].bytes = b \o (g[i] \o v[j].bytes)
        <4> DEFINE p == g[i]
                   r == v[j].bytes
        <4>1. p \in Seq(Bytes) /\ r \in Seq(Bytes)
          BY <3>5
        <4> HIDE DEF p, r
        <4>2. (b \o p) \o r = b \o (p \o r)
          BY <1>2, <4>1, Grouping
        <4> QED BY <4>2 DEF p, r
      <3>7. f[j + 1] = b \o g[j]
        BY <3>2, <3>3, <3>4, <3>6
      <3> QED BY <3>1, <3>7 DEF j
    <2> HIDE DEF T
    <2>6. n - 1 \in T
      <3> DEFINE m == n - 1
      <3>1. \A i \in 1..m : i \in T
        <4> HIDE DEF n
        <4>1. m \in Nat
          BY <2>2
        <4> HIDE DEF m
        <4>2. \A i \in 1..m : i \in T /\ i < m => i + 1 \in T
          BY <2>5 DEF m
        <4> QED BY <2>4, <4>1, <4>2, Climbing
      <3>2. m \in 1..m
        <4>1. m \in Nat /\ m # 0
          BY <2>2
        <4> HIDE DEF m
        <4> QED BY <4>1
      <3> QED BY <3>1, <3>2
    <2> HIDE DEF b, n
    <2>7. f[(n - 1) + 1] = b \o g[n - 1] /\ (n - 1) + 1 = n
      <3>1. f[(n - 1) + 1] = b \o g[n - 1]
        BY <2>6 DEF T
      <3>2. (n - 1) + 1 = n
        BY <1>1
      <3> QED BY <3>1, <3>2
    <2> QED BY <1>1, <1>3, <2>1, <2>7 DEF v, b
  <1> QED BY <1>5, <1>6

\* Of two ways to cut a sequence in two, the first part of the one is the
\* beginning of the first part of the other.
LEMMA Cuts ==
    ASSUME NEW a \in Seq(Bytes), NEW x \in Seq(Bytes), NEW b \in Seq(Bytes), NEW y \in Seq(Bytes),
           a \o x = b \o y, Len(a) <= Len(b)
    PROVE  \E v \in Seq(Bytes) : b = a \o v /\ x = v \o y
  <1> DEFINE m == Len(a)
             n == Len(b)
             v == SubSeq(b, m + 1, n)
             w == SubSeq(b, 1, m)
  <1>1. m \in Nat /\ n \in Nat /\ Len(x) \in Nat /\ Len(y) \in Nat
    BY LenProperties
  <1>2. \A i \in 1..n : b[i] \in Bytes
    BY ElementOfSeq
  <1>3. /\ v \in Seq(Bytes)
        /\ w \in Seq(Bytes) /\ Len(w) = m /\ \A i \in 1..m : w[i] = b[i]
    <2> HIDE DEF m, n
    <2> QED BY <1>1, <1>2, SubSeqProperties DEF m, n
  <1>4. a = w
    <2>1. /\ \A i \in 1..(Len(a) + Len(x)) : (a \o x)[i] = IF i <= Len(a) THEN a[i] ELSE x[i - Len(a)]
          /\ \A i \in 1..(Len(b) + Len(y)) : (b \o y)[i] = IF i <= Len(b) THEN b[i] ELSE y[i - Len(b)]
      BY ConcatProperties
    <2>2. ASSUME NEW i \in 1..m PROVE a[i] = b[i]
      <3>1. /\ i \in 1..(Len(a) + Len(x)) /\ i <= Len(a)
            /\ i \in 1..(Len(b) + Len(y)) /\ i <= Len(b)
        BY <1>1
      <3>2. (a \o x)[i] = a[i] /\ (b \o y)[i] = b[i]
        BY <2>1, <3>1
      <3> QED BY <3>2
    <2> HIDE DEF w
    <2> QED BY <1>3, <2>2, SeqEqual
  <1>5. w \o v = b
    <2>1. /\ 1 \in 1..(n + 1) /\ m \in (1 - 1)..n /\ n \in m..n
      BY <1>1
    <2>2. SubSeq(b, 1, m) \o SubSeq(b, m + 1, n) = SubSeq(b, 1, n)
      <3> HIDE DEF m
      <3> QED BY <2>1, ConcatAdjacentSubSeq
    <2>3. SubSeq(b, 1, n) = b
      BY SubSeqFull
    <2> QED BY <2>2, <2>3
  <1> HIDE DEF v, w
  <1>6. b = a \o v
    BY <1>4, <1>5
  <1>7. a \o x = a \o (v \o y) /\ v \o y \in Seq(Bytes)
    <2>1. (a \o v) \o y = a \o (v \o y)
      <3>1. v \in Seq(Bytes)
        BY <1>3
      <3> QED BY <3>1, Grouping
    <2>2. v \o y \in Seq(Bytes)
      BY <1>3, ConcatProperties
    <2> QED BY <1>6, <2>1, <2>2
  <1>8. x = v \o y
    BY <1>7, ConcatSimplifications
  <1> QED BY <1>3, <1>6, <1>8

(***************************************************************************)
(* Types, and the requests                                                 *)
(***************************************************************************)

\* The operations that are sent over TCP.
SentOps == TcpOps \cup {"auth"}

\* What _recvn() is asked for is a number.
LEMMA WantedIsNat == ASSUME TypeOK, Reading PROVE Wanted \in Nat
  <1>1. CASE at = "header"
    BY <1>1 DEF Wanted
  <1>2. CASE at = "payload"
    <2>1. head \in Seq(Bytes) /\ Len(head) = 4
      BY <1>2 DEF TypeOK
    <2>2. Len(head) >= 4
      BY <2>1
    <2>3. Length(head) \in Nat
      BY <2>1, <2>2, LengthIsNat
    <2> QED BY <1>2, <2>3 DEF Wanted
  <1> QED BY <1>1, <1>2 DEF Reading

\* recv() returns something, and no more than was asked for.
LEMMA RecvSize ==
    ASSUME TypeOK, Reading, Len(data) < Wanted, stream # <<>>, NEW k \in ChunkSizes
    PROVE  Recv(k) \in 1..Len(stream) /\ Len(data) + Recv(k) <= Wanted
  <1> DEFINE w == Wanted - Len(data)
             S == {k, w, Len(stream)}
             m == Recv(k)
  <1>1. k \in Nat /\ k >= 1
    BY ConstantsAssumption
  <1>2. Len(stream) \in Nat /\ Len(stream) >= 1 /\ Len(data) \in Nat
    <2>1. stream \in Seq(Bytes) /\ data \in Seq(Bytes)
      BY DEF TypeOK
    <2> QED BY <2>1, LenProperties, EmptySeq
  <1>3. Wanted \in Nat
    BY WantedIsNat
  <1>4. w \in Nat /\ w >= 1
    BY <1>2, <1>3
  <1> HIDE DEF w
  <1>5. \E x \in S : \A y \in S : x <= y
    <2>1. S \in SUBSET Nat /\ S # {}
      BY <1>1, <1>2, <1>4
    <2> QED BY <2>1, LeastElement
  <1>6. m = CHOOSE x \in S : \A y \in S : x <= y
    BY Zenon DEF Recv, Min, w
  <1> HIDE DEF S
  <1>7. m \in S /\ \A y \in S : m <= y
    <2> HIDE DEF m
    <2> QED BY <1>5, <1>6, Zenon
  <1> HIDE DEF m
  <1>8. m \in Nat /\ m >= 1 /\ m <= w /\ m <= Len(stream)
    BY <1>1, <1>2, <1>4, <1>7 DEF S
  <1>9. Len(data) + m <= Wanted
    BY <1>2, <1>3, <1>8 DEF w
  <1> QED BY <1>2, <1>8, <1>9 DEF m

\* The statistics are never sent over TCP.
LEMMA NoStats ==
    ASSUME NEW op \in SentOps \cup {"event"}
    PROVE  "Stats" \notin Accepted[op] \cup {"Error", "Pong"}
  <1>1. op \in {"get", "set", "delete", "ping", "auth", "watch", "unwatch",
                "delete_by_pattern", "set_ttl_by_pattern", "set_nx", "incr", "event"}
    BY DEF SentOps, TcpOps, Range, RequestFields
  <1> QED BY <1>1 DEF Accepted

\* Neither an event nor the statistics are asked for with a request.
LEMMA OpsApart == "event" \notin SentOps /\ "stats" \notin SentOps /\ TcpOps \subseteq SentOps
  BY DEF SentOps, TcpOps, Range, RequestFields

\* The calls whose requests are sent, with strict mode s over the transport t:
\* they have passed the checks, and there is a token to authenticate with.
Asked(s, t) ==
    IF t = "tcp"
    THEN {c \in Calls \cup {AuthCall} :
             c.op \in SentOps /\ Validate(s, c) /\ (c.op = "auth" => Token # None)}
    ELSE {c \in Calls : c.op \in HttpOps /\ Validate(s, c) /\ ~HeaderRefused(c.ns)}

\* A call on the wire, and as the server reads it.
Encoded(t, c) == IF t = "tcp" THEN EncodeRequest(c) ELSE HttpRequest(c)

ServerReads(t, c) ==
    IF t = "tcp" THEN DecodeRequest(EncodeRequest(c)) ELSE ParseHttp(HttpRequest(c))

Requests(s, t) == {[call |-> c, bytes |-> Encoded(t, c)] : c \in Asked(s, t)}
Readings(s, t) == {[call |-> c, read |-> ServerReads(t, c)] : c \in Asked(s, t)}

\* What is on its way to the server, and what it has read, are the encodings
\* of calls.
AskInv ==
    /\ requests \in Seq(Requests(strict, transport))
    /\ seen \in Readings(strict, transport) \cup {None}

\* What is known of the current operation.
CallInv ==
    /\ at = "idle" => call = NoCall
    /\ at \in {"idle", "header", "payload"} => answer = None
    /\ at = "http" => transport = "http" /\ call \in Calls /\ call.op \in HttpOps
    /\ Reading => call.op \in SentOps \cup {"event"}
    /\ at # "payload" => head = <<>>
    /\ unread \in Seq(Frames)

IInv == TypeOK /\ AskInv /\ CallInv

\* A request is that of a call.
LEMMA QueuedRequest ==
    ASSUME NEW s, NEW t, NEW q \in Requests(s, t)
    PROVE  /\ q.call \in Asked(s, t) /\ q.bytes = Encoded(t, q.call)
           /\ t = "tcp" => [call |-> q.call, read |-> DecodeRequest(q.bytes)] \in Readings(s, t)
           /\ t # "tcp" => [call |-> q.call, read |-> ParseHttp(q.bytes)] \in Readings(s, t)
  <1>1. PICK c \in Asked(s, t) : q = [call |-> c, bytes |-> Encoded(t, c)]
    BY DEF Requests
  <1>2. q.call = c /\ q.bytes = Encoded(t, c)
    BY <1>1
  <1>3. t = "tcp" => ServerReads(t, c) = DecodeRequest(q.bytes)
    BY <1>2, Zenon DEF Encoded, ServerReads
  <1>4. t # "tcp" => ServerReads(t, c) = ParseHttp(q.bytes)
    BY <1>2, Zenon DEF Encoded, ServerReads
  <1>5. [call |-> c, read |-> ServerReads(t, c)] \in Readings(s, t)
    BY DEF Readings
  <1> QED BY <1>2, <1>3, <1>4, <1>5

\* What is sent over TCP is a call of the application or an authentication.
LEMMA AskedOverTcp ==
    ASSUME NEW s, NEW c \in Asked(s, "tcp")
    PROVE  c \in Callers /\ c \in Calls \cup {AuthCall} /\ c.op \in SentOps /\ Validate(s, c)
  BY DEF Asked, Callers

\* A call joins the queue.
LEMMA SendAsks ==
    ASSUME AskInv, transport = "tcp", NEW c \in Asked(strict, "tcp"), Send(c)
    PROVE  requests' \in Seq(Requests(strict, transport))
  <1> DEFINE S == Requests(strict, transport)
             q == [call |-> c, bytes |-> EncodeRequest(c)]
  <1>1. q \in S
    <2>1. EncodeRequest(c) = Encoded(transport, c)
      BY Zenon DEF Encoded
    <2> QED BY <2>1 DEF Requests
  <1>2. requests' \in {requests, Append(requests, q)} /\ requests \in Seq(S)
    BY DEF Send, AskInv
  <1> HIDE DEF S, q
  <1>3. Append(requests, q) \in Seq(S)
    BY <1>1, <1>2, AppendProperties
  <1> QED BY <1>2, <1>3 DEF S

\* Nothing is asked for at the start.
LEMMA InitAskInv == Init => AskInv
  BY EmptySeq DEF Init, AskInv

\* A call of the application as a request.
LEMMA CallIsAsked ==
    ASSUME NEW c \in Calls, Validate(strict, c), transport \in {"tcp", "http"},
           c.op \in IF transport = "tcp" THEN TcpOps ELSE HttpOps,
           transport = "http" => ~HeaderRefused(c.ns)
    PROVE  c \in Asked(strict, transport)
  <1>1. c.op # "auth"
    BY ConstantsAssumption DEF TcpOps
  <1>2. CASE transport = "tcp"
    <2>1. c.op \in SentOps
      BY <1>2 DEF SentOps
    <2> QED BY <1>1, <1>2, <2>1 DEF Asked
  <1>3. CASE transport = "http"
    BY <1>3 DEF Asked
  <1> QED BY <1>2, <1>3

\* Every step keeps the requests.
LEMMA StepAskInv == IInv /\ [Next]_vars => AskInv'
  <1> SUFFICES ASSUME TypeOK, AskInv, CallInv, [Next]_vars PROVE AskInv'
    BY DEF IInv
  <1>e. \A S : <<>> \in Seq(S)
    BY EmptySeq
  <1>1. ASSUME UNCHANGED <<strict, transport>>, requests' \in {requests, <<>>},
               seen' \in {seen, None}
        PROVE  AskInv'
    BY <1>1, <1>e DEF AskInv
  <1>2. CASE Connect
    <2>1. UNCHANGED <<strict, transport, seen>> /\ transport = "tcp"
      BY <1>2 DEF Connect
    <2>2. CASE Token = None
      BY <1>1, <1>2, <2>1, <2>2 DEF Connect
    <2>3. CASE Token # None
      <3>1. Send(AuthCall)
        BY <1>2, <2>3 DEF Connect
      <3>2. AuthCall.op = "auth"
        BY DEF AuthCall, NoCall
      <3>3. AuthCall \in Asked(strict, "tcp")
        BY <2>3, <3>2 DEF Asked, SentOps, Validate
      <3>4. requests' \in Seq(Requests(strict, transport))
        BY <2>1, <3>1, <3>3, SendAsks
      <3> QED BY <2>1, <3>4 DEF AskInv
    <2> QED BY <2>2, <2>3
  <1>3. ASSUME NEW c \in Calls, Call(c) PROVE AskInv'
    <2>1. /\ UNCHANGED <<strict, transport, seen>> /\ transport \in {"tcp", "http"}
          /\ c.op \in IF transport = "tcp" THEN TcpOps ELSE HttpOps
      BY <1>3 DEF Call, TypeOK
    <2>2. CASE requests' = requests
      BY <1>1, <2>1, <2>2
    <2>3. CASE Validate(strict, c) /\ transport = "tcp" /\ Send(c)
      <3>1. c \in Asked(strict, "tcp")
        BY <2>1, <2>3, CallIsAsked
      <3>2. requests' \in Seq(Requests(strict, transport))
        BY <2>3, <3>1, SendAsks
      <3> QED BY <2>1, <3>2 DEF AskInv
    <2>4. CASE /\ Validate(strict, c) /\ transport = "http" /\ ~HeaderRefused(c.ns)
               /\ requests' = <<[call |-> c, bytes |-> HttpRequest(c)]>>
      <3> DEFINE q == [call |-> c, bytes |-> HttpRequest(c)]
                 S == Requests(strict, transport)
      <3>1. c \in Asked(strict, transport)
        BY <2>1, <2>4, CallIsAsked
      <3>2. HttpRequest(c) = Encoded(transport, c)
        BY <2>4, Zenon DEF Encoded
      <3>3. q \in S
        BY <3>1, <3>2 DEF Requests
      <3>4. requests' = <<q>>
        BY <2>4
      <3> HIDE DEF q, S
      <3>5. requests' \in Seq(S)
        BY <3>3, <3>4
      <3> QED BY <2>1, <3>5 DEF AskInv, S
    <2> QED BY <1>3, <2>2, <2>3, <2>4 DEF Call
  <1>4. CASE Serve
    <2>1. /\ transport = "tcp" /\ requests # <<>> /\ requests' = Rest(requests)
          /\ seen' = [call |-> Head(requests).call, read |-> DecodeRequest(Head(requests).bytes)]
          /\ UNCHANGED <<strict, transport>>
      BY <1>4 DEF Serve, TypeOK
    <2> DEFINE S == Requests(strict, transport)
               q == Head(requests)
    <2>2. requests \in Seq(S)
      BY DEF AskInv
    <2> HIDE DEF S
    <2>3. q \in S /\ Rest(requests) \in Seq(S)
      BY <2>1, <2>2, RestOf
    <2> HIDE DEF q
    <2>4. seen' \in Readings(strict, transport)
      BY <2>1, <2>3, QueuedRequest DEF S, q
    <2> QED BY <2>1, <2>3, <2>4 DEF AskInv, S
  <1>5. CASE ServeHttp
    <2>1. /\ at = "http" /\ requests # <<>> /\ requests' = <<>>
          /\ seen' = [call |-> Head(requests).call, read |-> ParseHttp(Head(requests).bytes)]
          /\ UNCHANGED <<strict, transport>> /\ transport = "http"
      BY <1>5 DEF ServeHttp, CallInv
    <2> DEFINE S == Requests(strict, transport)
               q == Head(requests)
    <2>2. requests \in Seq(S)
      BY DEF AskInv
    <2> HIDE DEF S
    <2>3. q \in S
      BY <2>1, <2>2, RestOf
    <2> HIDE DEF q
    <2>4. seen' \in Readings(strict, transport)
      BY <2>1, <2>3, QueuedRequest DEF S, q
    <2> QED BY <1>e, <2>1, <2>4 DEF AskInv
  <1>6. CASE \/ ConnectFails \/ Close \/ WaitWatchEvent \/ Finish \/ Push \/ Break
             \/ RecvChunk \/ HttpAnswered \/ HttpLost \/ UNCHANGED vars
    <2>1. UNCHANGED <<strict, transport>> /\ requests' \in {requests, <<>>} /\ seen' \in {seen, None}
      BY <1>6 DEF ConnectFails, Close, CloseLocked, WaitWatchEvent, Finish, Push, Break,
                  RecvChunk, HttpAnswered, HttpLost, vars
    <2> QED BY <1>1, <2>1
  <1>7. CASE ReadFails \/ PayloadRead \/ (HeaderRead /\ ~TooLarge(data))
    <2>1. UNCHANGED <<strict, transport>> /\ requests' \in {requests, <<>>} /\ seen' = seen
      BY <1>7 DEF ReadFails, CloseAfterFailure, KeepSock, CloseLocked, PayloadRead, HeaderRead
    <2> QED BY <1>1, <2>1
  <1>8. RecvEof \/ RecvTimeout \/ (HeaderRead /\ TooLarge(data)) => ReadFails
    BY DEF RecvEof, RecvTimeout, HeaderRead
  <1> QED BY <1>2, <1>3, <1>4, <1>5, <1>6, <1>7, <1>8 DEF Next

\* The server's answer to a request is a frame to whoever sent it.
LEMMA ServeFrame ==
    ASSUME TypeOK, AskInv, Serve
    PROVE  /\ transport = "tcp" /\ sock = "open" /\ requests # <<>>
           /\ \E x \in Frames :
                 /\ x.to = Head(requests).call
                 /\ stream' = stream \o x.bytes /\ unread' = Append(unread, x)
           /\ watching' \in BOOLEAN
  <1> DEFINE c == Head(requests).call
  <1>1. transport = "tcp" /\ sock = "open" /\ requests # <<>>
    BY DEF Serve, TypeOK
  <1>2. c \in Asked(strict, "tcp")
    <2> DEFINE S == Requests(strict, transport)
    <2>1. requests \in Seq(S)
      BY DEF AskInv
    <2> HIDE DEF S
    <2>2. Head(requests) \in S
      BY <1>1, <2>1, RestOf
    <2> QED BY <1>1, <2>2, QueuedRequest DEF S
  <1>3. c \in Callers /\ c.op \in SentOps
    BY <1>2, AskedOverTcp
  <1>4. PICK r \in {x \in Responses : x.type \in Accepted[c.op] \cup {"Error", "Pong"}} :
           \E form \in FormsFor(c.op, r) :
              /\ Mixed => <<r, form>> \in WatchingFrames
              /\ Write(r, form, c)
              /\ watching' = CASE r.type = "Watching"  -> TRUE
                               [] r.type = "Unwatched" -> FALSE
                               [] OTHER                -> watching
    BY Zenon DEF Serve
  <1>5. PICK form \in FormsFor(c.op, r) :
              /\ Mixed => <<r, form>> \in WatchingFrames
              /\ Write(r, form, c)
              /\ watching' = CASE r.type = "Watching"  -> TRUE
                               [] r.type = "Unwatched" -> FALSE
                               [] OTHER                -> watching
    BY <1>4, Zenon
  <1>6. watching' \in BOOLEAN
    <2>1. watching \in BOOLEAN
      BY DEF TypeOK
    <2>2. watching' = TRUE \/ watching' = FALSE \/ watching' = watching
      BY <1>5, Zenon
    <2> QED BY <2>1, <2>2
  <1> HIDE DEF c
  <1>7. r \in TcpResponses
    BY <1>3, <1>4, NoStats DEF TcpResponses
  <1>8. form \in AllForms
    BY DEF FormsFor, AllForms
  <1>9. \E x \in Frames : x.to = c /\ stream' = stream \o x.bytes /\ unread' = Append(unread, x)
    BY <1>3, <1>5, <1>7, <1>8, WriteFrame
  <1> QED BY <1>1, <1>6, <1>9 DEF c

\* An event is a frame to nobody's request.
LEMMA PushFrame ==
    ASSUME TypeOK, Push
    PROVE  /\ transport = "tcp" /\ sock = "open"
           /\ \E x \in Frames :
                 /\ x.to = EventWait
                 /\ stream' = stream \o x.bytes /\ unread' = Append(unread, x)
  <1>1. transport = "tcp" /\ sock = "open"
    BY DEF Push, TypeOK
  <1>2. PICK r \in {x \in Responses : x.type \in {"WatchEvent", "Error", "Pong"}} :
           \E form \in FormsFor("event", r) :
              <<r, form>> \in WatchingFrames /\ Write(r, form, EventWait)
    BY DEF Push
  <1>3. PICK form \in FormsFor("event", r) : Write(r, form, EventWait)
    BY <1>2
  <1>4. r \in TcpResponses
    BY <1>2 DEF TcpResponses
  <1>5. form \in AllForms
    BY DEF FormsFor, AllForms
  <1>6. EventWait \in Callers
    BY DEF Callers
  <1> QED BY <1>1, <1>3, <1>4, <1>5, <1>6, WriteFrame

\* What is written keeps the types.
LEMMA WriteTypes ==
    ASSUME TypeOK, CallInv, NEW x \in Frames,
           stream' = stream \o x.bytes, unread' = Append(unread, x)
    PROVE  stream' \in Seq(Bytes) /\ unread' \in Seq(Frames)
  <1>1. x.bytes \in Seq(Bytes)
    BY DEF Frames
  <1>2. stream \in Seq(Bytes) /\ unread \in Seq(Frames)
    BY DEF TypeOK, CallInv
  <1>3. stream' \in Seq(Bytes)
    BY <1>1, <1>2, ConcatProperties
  <1>4. unread' \in Seq(Frames)
    BY <1>2, AppendProperties
  <1> QED BY <1>3, <1>4

\* The invariant holds at the start.
LEMMA InitIInv == Init => IInv
  <1> SUFFICES ASSUME Init PROVE IInv
    OBVIOUS
  <1>1. <<>> \in Seq(Bytes) /\ <<>> \in Seq(Frames)
    BY EmptySeq
  <1>2. TypeOK
    BY <1>1 DEF Init, TypeOK, Reading
  <1>3. CallInv
    BY <1>1 DEF Init, CallInv, Reading
  <1> QED BY <1>2, <1>3, InitAskInv DEF IInv

\* A read that fails leaves nothing behind but the connection.
LEMMA ReadFailsIInv ==
    ASSUME TypeOK, CallInv, Reading, ReadFails
    PROVE  TypeOK' /\ CallInv'
  <1>1. <<>> \in Seq(Bytes) /\ <<>> \in Seq(Frames)
    BY EmptySeq
  <1>2. transport = "tcp"
    BY DEF TypeOK
  <1>3. /\ sock' \in {sock, "none"} /\ stream' \in {stream, <<>>} /\ watching' \in {watching, FALSE}
        /\ unread' \in {unread, <<>>} /\ torn' \in BOOLEAN /\ stray' \in BOOLEAN
    BY DEF ReadFails, CloseAfterFailure, KeepSock, CloseLocked, TypeOK
  <1>4. /\ at' = "done" /\ head' = <<>> /\ data' = <<>>
        /\ UNCHANGED <<strict, transport, call, reply, seen, answer>>
    BY DEF ReadFails, Return
  <1>5. TypeOK'
    BY <1>1, <1>2, <1>3, <1>4 DEF TypeOK, Reading
  <1>6. CallInv'
    BY <1>1, <1>3, <1>4 DEF CallInv, Reading
  <1> QED BY <1>5, <1>6

\* Every step keeps the types, and what is known of the operation.
LEMMA StepTypes == IInv /\ [Next]_vars => TypeOK' /\ CallInv'
  <1> SUFFICES ASSUME TypeOK, AskInv, CallInv, [Next]_vars PROVE TypeOK' /\ CallInv'
    BY DEF IInv
  <1>e. <<>> \in Seq(Bytes) /\ <<>> \in Seq(Frames) /\ Len(<<>>) = 0
    BY EmptySeq
  <1>1. CASE Connect
    <2>1. TypeOK'
      BY <1>1, <1>e DEF TypeOK, Connect, Return, Reading, Wanted
    <2>2. "auth" \in SentOps /\ AuthCall.op = "auth"
      BY DEF SentOps, AuthCall, NoCall
    <2>3. CallInv'
      BY <1>1, <2>2 DEF CallInv, Connect, Return, Reading
    <2> QED BY <2>1, <2>3
  <1>2. CASE ConnectFails \/ HttpAnswered \/ HttpLost
    <2>1. /\ UNCHANGED <<strict, transport, tcpVars, call>>
          /\ at' = "done" /\ at \notin {"header", "payload"} /\ answer' = answer
      BY <1>2 DEF ConnectFails, HttpAnswered, HttpLost, Return
    <2>2. TypeOK'
      BY <2>1 DEF TypeOK, Reading, tcpVars
    <2>3. CallInv'
      BY <2>1 DEF CallInv, Reading, tcpVars
    <2> QED BY <2>2, <2>3
  <1>3. CASE Close
    BY <1>3, <1>e DEF TypeOK, CallInv, Close, CloseLocked, Reading
  <1>4. ASSUME NEW c \in Calls, Call(c) PROVE TypeOK' /\ CallInv'
    <2>1. /\ at = "idle" /\ call' = c /\ answer' = answer
          /\ UNCHANGED <<strict, transport, tcpVars>>
          /\ c.op \in IF transport = "tcp" THEN TcpOps ELSE HttpOps
          /\ \/ at' = "done"
             \/ at' = "header" /\ transport = "tcp" /\ sock # "none"
             \/ at' = "http" /\ transport = "http"
      BY <1>4 DEF Call, Return
    <2>2. TypeOK'
      BY <2>1, <1>e DEF TypeOK, Reading, Wanted, tcpVars
    <2>3. transport = "tcp" => c.op \in SentOps
      BY <2>1, OpsApart
    <2>4. CallInv'
      BY <2>1, <2>3 DEF CallInv, Reading, tcpVars
    <2> QED BY <2>2, <2>4
  <1>5. CASE WaitWatchEvent
    <2>1. TypeOK'
      BY <1>5, <1>e DEF TypeOK, WaitWatchEvent, Return, Reading, Wanted, tcpVars
    <2>2. EventWait.op = "event"
      BY DEF EventWait, NoCall
    <2>3. CallInv'
      BY <1>5, <2>2 DEF CallInv, WaitWatchEvent, Return, Reading, tcpVars
    <2> QED BY <2>1, <2>3
  <1>6. CASE Finish
    <2>1. TypeOK'
      BY <1>6 DEF TypeOK, Finish, Reading, tcpVars
    <2>2. CallInv'
      BY <1>6 DEF CallInv, Finish, Reading, tcpVars
    <2> QED BY <2>1, <2>2
  <1>7. ASSUME NEW x \in Frames, stream' = stream \o x.bytes, unread' = Append(unread, x),
               watching' \in BOOLEAN, stray' \in BOOLEAN,
               UNCHANGED <<strict, transport, sock, head, data, torn, at, call, answer>>
        PROVE  TypeOK' /\ CallInv'
    <2>1. stream' \in Seq(Bytes) /\ unread' \in Seq(Frames)
      BY <1>7, WriteTypes
    <2>2. TypeOK'
      BY <1>7, <2>1 DEF TypeOK, Reading, Wanted
    <2>3. CallInv'
      BY <1>7, <2>1 DEF CallInv, Reading
    <2> QED BY <2>2, <2>3
  <1>8. CASE Serve
    <2>1. /\ UNCHANGED <<strict, transport, sock, head, data, torn, stray, at, call, answer>>
          /\ stray \in BOOLEAN
      BY <1>8 DEF Serve, TypeOK
    <2>2. watching' \in BOOLEAN
      BY <1>8, ServeFrame
    <2>3. PICK x \in Frames : /\ x.to = Head(requests).call
                              /\ stream' = stream \o x.bytes /\ unread' = Append(unread, x)
      BY <1>8, ServeFrame
    <2> QED BY <1>7, <2>1, <2>2, <2>3
  <1>9. CASE Push
    <2>1. /\ UNCHANGED <<strict, transport, sock, head, data, watching, torn, at, call, answer>>
          /\ stray' = TRUE /\ watching \in BOOLEAN
      BY <1>9 DEF Push, TypeOK
    <2>2. PICK x \in Frames : /\ x.to = EventWait
                              /\ stream' = stream \o x.bytes /\ unread' = Append(unread, x)
      BY <1>9, PushFrame
    <2> QED BY <1>7, <2>1, <2>2
  <1>10. CASE Break
    <2>1. TypeOK'
      BY <1>10, <1>e DEF TypeOK, Break, Reading, Wanted
    <2>2. CallInv'
      BY <1>10 DEF CallInv, Break, Reading
    <2> QED BY <2>1, <2>2
  <1>11. CASE ServeHttp
    <2>1. at = "http" /\ UNCHANGED <<strict, transport, tcpVars, at, call>>
      BY <1>11 DEF ServeHttp
    <2>2. TypeOK'
      BY <2>1 DEF TypeOK, Reading, Wanted, tcpVars
    <2>3. CallInv'
      BY <2>1 DEF CallInv, Reading, tcpVars
    <2> QED BY <2>2, <2>3
  <1>12. CASE RecvChunk
    <2>1. Reading /\ Len(data) < Wanted /\ stream # <<>>
      BY <1>12 DEF RecvChunk
    <2>2. PICK k \in ChunkSizes : /\ data' = data \o SubSeq(stream, 1, Recv(k))
                                  /\ stream' = SubSeq(stream, Recv(k) + 1, Len(stream))
      BY <1>12 DEF RecvChunk
    <2> DEFINE m == Recv(k)
               s == SubSeq(stream, 1, m)
    <2>3. m \in 1..Len(stream) /\ Len(data) + m <= Wanted
      BY <2>1, RecvSize
    <2>4. /\ stream \in Seq(Bytes) /\ data \in Seq(Bytes)
          /\ Len(stream) \in Nat /\ Len(data) \in Nat
      BY LenProperties DEF TypeOK
    <2> HIDE DEF m
    <2>5. s \in Seq(Bytes) /\ Len(s) = m
      BY <2>3, <2>4, SubSeqProperties
    <2>6. stream' \in Seq(Bytes)
      <3>1. SubSeq(stream, m + 1, Len(stream)) \in Seq(Bytes)
        BY <2>3, <2>4, SubSeqProperties
      <3> QED BY <2>2, <3>1 DEF m
    <2>7. data' \in Seq(Bytes) /\ Len(data') = Len(data) + m
      <3> HIDE DEF s
      <3>1. data \o s \in Seq(Bytes) /\ Len(data \o s) = Len(data) + m
        BY <2>4, <2>5, ConcatProperties
      <3>2. data' = data \o s
        BY <2>2 DEF s, m
      <3> QED BY <3>1, <3>2
    <2>8. UNCHANGED <<strict, transport, sock, head, watching, unread, torn, stray,
                      at, call, requests, reply, result, seen, answer>>
      BY <1>12 DEF RecvChunk
    <2>9. Wanted' = Wanted /\ Reading
      BY <2>1, <2>8 DEF Wanted
    <2>10. TypeOK'
      BY <2>3, <2>6, <2>7, <2>8, <2>9 DEF TypeOK, Reading
    <2>11. CallInv'
      BY <2>8 DEF CallInv, Reading
    <2> QED BY <2>10, <2>11
  <1>13. CASE RecvEof
    BY <1>13, ReadFailsIInv DEF RecvEof
  <1>14. CASE RecvTimeout
    BY <1>14, ReadFailsIInv DEF RecvTimeout
  <1>15. CASE HeaderRead
    <2>1. CASE TooLarge(data)
      BY <1>15, <2>1, ReadFailsIInv DEF HeaderRead, Reading
    <2>2. CASE ~TooLarge(data)
      <3>1. /\ at = "header" /\ Len(data) = 4 /\ at' = "payload"
            /\ head' = data /\ data' = <<>>
            /\ UNCHANGED <<strict, transport, sock, stream, unread, watching, torn, stray,
                           call, requests, reply, result, seen, answer>>
        BY <1>15, <2>2 DEF HeaderRead
      <3>2. data \in Seq(Bytes) /\ Len(data) >= 4
        BY <3>1 DEF TypeOK
      <3>3. Length(data) \in Nat /\ MaxFrame \in Nat
        BY <3>2, LengthIsNat, ConstantsAssumption
      <3>4. Length(data) <= MaxFrame
        BY <2>2, <3>3 DEF TooLarge
      <3>5. Wanted' = Length(data)
        BY <3>1 DEF Wanted, Length
      <3>6. Len(head') = 4 /\ Length(head') <= MaxFrame /\ Len(data') <= Wanted'
        BY <1>e, <3>1, <3>3, <3>4, <3>5
      <3>7. TypeOK'
        BY <1>e, <3>1, <3>2, <3>6 DEF TypeOK, Reading, Length
      <3>8. CallInv'
        BY <3>1 DEF CallInv, Reading
      <3> QED BY <3>7, <3>8
    <2> QED BY <2>1, <2>2
  <1>16. CASE PayloadRead
    <2>1. /\ at = "payload" /\ at' = "done" /\ head' = <<>> /\ data' = <<>>
          /\ UNCHANGED <<strict, transport, call, reply, seen>>
      BY <1>16 DEF PayloadRead, Return
    <2>2. /\ sock' \in {sock, "none"} /\ stream' \in {stream, <<>>}
          /\ watching' \in {watching, FALSE} /\ torn' \in {torn, FALSE} /\ stray' \in BOOLEAN
          /\ unread' \in {Rest(unread), <<>>}
      BY <1>16 DEF PayloadRead, CloseLocked, TypeOK
    <2>3. TypeOK'
      BY <1>e, <2>1, <2>2 DEF TypeOK, Reading
    <2>4. Rest(unread) \in Seq(Frames)
      <3>1. unread \in Seq(Frames)
        BY DEF CallInv
      <3>2. CASE unread = <<>>
        <4>1. SubSeq(<<>>, 2, Len(<<>>)) = <<>>
          OBVIOUS
        <4> QED BY <1>e, <3>2, <4>1 DEF Rest
      <3>3. CASE unread # <<>>
        BY <3>1, <3>3, RestOf
      <3> QED BY <3>2, <3>3
    <2>5. CallInv'
      BY <1>e, <2>1, <2>2, <2>4 DEF CallInv, Reading
    <2> QED BY <2>3, <2>5
  <1>17. CASE UNCHANGED vars
    <2>1. TypeOK'
      BY <1>17 DEF TypeOK, vars, tcpVars, Reading, Wanted
    <2>2. CallInv'
      BY <1>17 DEF CallInv, vars, tcpVars, Reading
    <2> QED BY <2>1, <2>2
  <1> QED
    BY <1>1, <1>2, <1>3, <1>4, <1>5, <1>6, <1>8, <1>9, <1>10, <1>11, <1>12,
       <1>13, <1>14, <1>15, <1>16, <1>17 DEF Next

\* Every step keeps the invariant.
LEMMA StepIInv == IInv /\ [Next]_vars => IInv'
  BY StepTypes, StepAskInv DEF IInv

\* The state is well formed; no more of a payload is read than its
\* header says, and never one beyond max_frame_bytes (TypeOK).
THEOREM TypeCorrect == Spec => []TypeOK
  <1>1. IInv => TypeOK
    BY DEF IInv
  <1> QED BY <1>1, InitIInv, StepIInv, PTL DEF Spec

(***************************************************************************)
(* Frames                                                                  *)
(***************************************************************************)

\* The frames u of which the client has read the header h and d of the rest,
\* and s is left to receive.  Some of them may be lost with the connection.
Arrived(u, h, d, s, k) ==
    \E lost \in Seq(Bytes) :
       /\ Joined(u) = ((h \o d) \o s) \o lost
       /\ k # "eof" => lost = <<>>

\* Three parts, joined in whichever order.
LEMMA Regrouped == \A a, b, c \in Seq(Bytes) : (a \o b) \o c = a \o (b \o c)
  BY Grouping

\* Two parts joined, or nothing added.
LEMMA Closed ==
    \A a, b \in Seq(Bytes) : a \o b \in Seq(Bytes) /\ a \o <<>> = a
  BY Grouping

\* Nothing has arrived of nothing.
LEMMA ArrivedNone == \A k : Arrived(<<>>, <<>>, <<>>, <<>>, k)
  <1>1. <<>> \in Seq(Bytes) /\ <<>> \o <<>> = <<>>
    BY Grouping
  <1>2. Joined(<<>>) = ((<<>> \o <<>>) \o <<>>) \o <<>>
    BY <1>1, JoinedNone
  <1> QED BY <1>1, <1>2 DEF Arrived

\* A frame is written.
LEMMA ArrivedWrite ==
    ASSUME NEW u \in Seq(Frames), NEW h \in Seq(Bytes), NEW d \in Seq(Bytes),
           NEW s \in Seq(Bytes), NEW k, Arrived(u, h, d, s, k), k # "eof", NEW x \in Frames
    PROVE  Arrived(Append(u, x), h, d, s \o x.bytes, k)
  <1> DEFINE b == x.bytes
             hd == h \o d
  <1>1. b \in Seq(Bytes) /\ hd \in Seq(Bytes)
    BY Grouping DEF Frames
  <1>2. Joined(Append(u, x)) = Joined(u) \o b
    BY JoinedAppend
  <1> HIDE DEF b
  <1>3. PICK lost \in Seq(Bytes) : Joined(u) = (hd \o s) \o lost /\ lost = <<>>
    BY DEF Arrived
  <1> HIDE DEF hd
  <1>4. /\ (hd \o s) \o b = hd \o (s \o b) /\ (hd \o (s \o b)) \o <<>> = hd \o (s \o b)
        /\ (hd \o s) \o <<>> = hd \o s /\ <<>> \in Seq(Bytes)
    <2>1. (hd \o s) \o b = hd \o (s \o b)
      <3>1. b \in Seq(Bytes)
        BY <1>1
      <3>2. hd \in Seq(Bytes)
        BY <1>1
      <3> QED BY <3>1, <3>2, Regrouped, SMTT(60)
    <2>2. s \o b \in Seq(Bytes) /\ hd \o s \in Seq(Bytes)
      BY <1>1, Closed
    <2>3. hd \o (s \o b) \in Seq(Bytes)
      BY <1>1, <2>2, Closed
    <2>4. (hd \o (s \o b)) \o <<>> = hd \o (s \o b)
      BY <2>3, Closed
    <2>5. (hd \o s) \o <<>> = hd \o s
      BY <2>2, Closed
    <2>6. <<>> \in Seq(Bytes)
      OBVIOUS
    <2> QED BY <2>1, <2>4, <2>5, <2>6
  <1>5. Joined(u) = hd \o s
    BY <1>3, <1>4
  <1>7. Joined(Append(u, x)) = (hd \o (s \o b)) \o <<>>
    BY <1>2, <1>4, <1>5
  <1> QED BY <1>4, <1>7 DEF Arrived, hd, b

\* A connection that is not lost yet is opened or lost.
LEMMA ArrivedBreak ==
    ASSUME NEW u, NEW h \in Seq(Bytes), NEW d \in Seq(Bytes), NEW s \in Seq(Bytes),
           NEW k, Arrived(u, h, d, s, k), k # "eof", NEW j
    PROVE  Arrived(u, h, d, s, j) /\ Arrived(u, h, d, <<>>, "eof")
  <1> DEFINE hd == h \o d
             hs == hd \o s
  <1>1. PICK lost \in Seq(Bytes) : Joined(u) = hs \o lost /\ lost = <<>>
    BY DEF Arrived
  <1>2. hd \in Seq(Bytes)
    BY Grouping
  <1> HIDE DEF hd
  <1>3. hs \o <<>> = hs /\ hd \o <<>> = hd /\ <<>> \in Seq(Bytes)
    <2>1. hs \in Seq(Bytes)
      BY <1>2, Closed
    <2>2. hs \o <<>> = hs
      BY <2>1, Closed
    <2>3. hd \o <<>> = hd
      BY <1>2, Closed
    <2>4. <<>> \in Seq(Bytes)
      OBVIOUS
    <2> QED BY <2>2, <2>3, <2>4
  <1>4. Joined(u) = hs \o <<>>
    BY <1>1
  <1>5. Joined(u) = (hd \o <<>>) \o s
    BY <1>3, <1>4
  <1> QED BY <1>3, <1>4, <1>5 DEF Arrived, hd

\* More is received.
LEMMA ArrivedChunk ==
    ASSUME NEW u, NEW h \in Seq(Bytes), NEW d \in Seq(Bytes), NEW s \in Seq(Bytes),
           NEW k, Arrived(u, h, d, s, k), NEW a \in Seq(Bytes), NEW b \in Seq(Bytes), s = a \o b
    PROVE  Arrived(u, h, d \o a, b, k)
  <1> DEFINE hd == h \o d
  <1>1. hd \in Seq(Bytes) /\ h \o (d \o a) = hd \o a
    <2>1. hd \in Seq(Bytes)
      BY Closed
    <2>2. (h \o d) \o a = h \o (d \o a)
      BY Regrouped
    <2> QED BY <2>1, <2>2
  <1>2. PICK lost \in Seq(Bytes) :
               Joined(u) = (hd \o (a \o b)) \o lost /\ (k # "eof" => lost = <<>>)
    BY DEF Arrived
  <1>3. hd \o (a \o b) = (hd \o a) \o b
    <2> HIDE DEF hd
    <2> QED BY <1>1, Regrouped
  <1>4. Joined(u) = ((h \o (d \o a)) \o b) \o lost
    BY <1>1, <1>2, <1>3
  <1> QED BY <1>2, <1>4 DEF Arrived

\* The header is complete.
LEMMA ArrivedHeader ==
    ASSUME NEW u, NEW d \in Seq(Bytes), NEW s, NEW k, Arrived(u, <<>>, d, s, k)
    PROVE  Arrived(u, d, <<>>, s, k)
  <1>1. <<>> \o d = d \o <<>>
    BY Grouping
  <1> QED BY <1>1 DEF Arrived

\* b is a with a part of x after it, and y is the rest of x.
Cut(a, x, b, y) == \E v \in Seq(Bytes) : b = a \o v /\ x = v \o y

\* Of two ways to cut a sequence in two, one is within the other.
LEMMA CutsCut ==
    \A a, x, b, y \in Seq(Bytes) :
       a \o x = b \o y => (Len(a) <= Len(b) => Cut(a, x, b, y))
  BY Cuts DEF Cut

\* What has been read of the first frame, and what is left of it.
Begun(u, h, d, s, k) ==
    /\ u # <<>> /\ Head(u) \in Frames
    /\ Len(h) = 4 => Length(Head(u).bytes) = Length(h)
    /\ \E v \in Seq(Bytes), lost \in Seq(Bytes) :
          /\ Head(u).bytes = (h \o d) \o v
          /\ s \o lost = v \o Joined(Rest(u))
          /\ k # "eof" => lost = <<>>

\* The parts of a frame that can be read of it.
FitsFrame(h, d) ==
    \/ h = <<>> /\ Len(d) <= 4
    \/ Len(h) = 4 /\ Length(h) <= MaxFrame /\ Len(d) <= Length(h)

\* What the client has read of a frame is the beginning of the first of them.
LEMMA ArrivedFront ==
    ASSUME NEW u \in Seq(Frames), NEW h \in Seq(Bytes), NEW d \in Seq(Bytes),
           NEW s \in Seq(Bytes), NEW k, Arrived(u, h, d, s, k), h \o d # <<>>, FitsFrame(h, d)
    PROVE  Begun(u, h, d, s, k)
  <1> DEFINE hd == h \o d
             f == Head(u).bytes
             t == Joined(Rest(u))
  <1>1. hd \in Seq(Bytes)
    BY Grouping
  <1>2. PICK lost \in Seq(Bytes) :
               Joined(u) = (hd \o s) \o lost /\ (k # "eof" => lost = <<>>)
    BY DEF Arrived
  <1>3. Len(h) \in Nat /\ Len(d) \in Nat /\ Len(hd) = Len(h) + Len(d)
    BY LenProperties, ConcatProperties
  <1>4. \A i \in 1..Len(h) : hd[i] = h[i]
    <2>1. \A i \in 1..(Len(h) + Len(d)) : hd[i] = IF i <= Len(h) THEN h[i] ELSE d[i - Len(h)]
      BY ConcatProperties
    <2> HIDE DEF hd
    <2> QED BY <1>3, <2>1
  <1>5. hd # <<>>
    OBVIOUS
  <1> HIDE DEF hd
  <1>6. (hd \o s) \o lost = hd \o (s \o lost) /\ s \o lost \in Seq(Bytes)
    <2>1. (hd \o s) \o lost = hd \o (s \o lost)
      BY <1>1, Regrouped
    <2>2. s \o lost \in Seq(Bytes)
      BY Closed
    <2> QED BY <2>1, <2>2
  <1>7. u # <<>>
    <2> SUFFICES ASSUME u = <<>> PROVE FALSE
      OBVIOUS
    <2>1. hd \o (s \o lost) = <<>>
      BY <1>2, <1>6, JoinedNone
    <2> QED BY <1>1, <1>5, <1>6, <2>1, ConcatSimplifications
  <1>8. Head(u) \in Frames /\ Rest(u) \in Seq(Frames)
    BY <1>7, RestOf
  <1>9. /\ f \in Seq(Bytes) /\ Len(f) >= 4 /\ Len(f) \in Nat
        /\ Length(f) <= MaxFrame => Len(f) = 4 + Length(f)
    BY <1>8, FramesAreFramed, LenProperties DEF WellFramed
  <1>10. t \in Seq(Bytes) /\ Joined(u) = f \o t
    BY <1>7, <1>8, JoinedTyped, JoinedRest
  <1> HIDE DEF f, t
  <1>11. hd \o (s \o lost) = f \o t
    BY <1>2, <1>6, <1>10
  <1>12. ASSUME Len(h) = 4 PROVE Length(f) = Length(h)
    <2>1. /\ Len(h) <= Len(f)
          /\ \A i \in 1..(Len(f) + Len(t)) : (f \o t)[i] = IF i <= Len(f) THEN f[i] ELSE t[i - Len(f)]
          /\ \A i \in 1..(Len(hd) + Len(s \o lost)) :
                (hd \o (s \o lost))[i] = IF i <= Len(hd) THEN hd[i] ELSE (s \o lost)[i - Len(hd)]
      BY <1>1, <1>6, <1>9, <1>10, <1>12, ConcatProperties
    <2>2. Len(t) \in Nat /\ Len(s \o lost) \in Nat
      BY <1>6, <1>10, LenProperties
    <2>3. \A i \in 1..4 : h[i] = f[i]
      <3> SUFFICES ASSUME NEW i \in 1..4 PROVE h[i] = f[i]
        OBVIOUS
      <3>1. /\ i \in 1..(Len(f) + Len(t)) /\ i <= Len(f)
            /\ i \in 1..(Len(hd) + Len(s \o lost)) /\ i <= Len(hd) /\ i \in 1..Len(h)
        BY <1>3, <1>9, <1>12, <2>2
      <3>2. (f \o t)[i] = f[i] /\ (hd \o (s \o lost))[i] = hd[i]
        BY <2>1, <3>1
      <3> QED BY <1>4, <1>11, <3>1, <3>2
    <2>4. h[1] = f[1] /\ h[2] = f[2] /\ h[3] = f[3] /\ h[4] = f[4]
      BY <2>3
    <2> QED BY <2>4, SMT DEF Length
  <1>13. Len(hd) <= Len(f)
    <2>1. CASE h = <<>> /\ Len(d) <= 4
      <3>1. Len(h) = 0
        BY <2>1
      <3> QED BY <1>3, <1>9, <2>1, <3>1
    <2>2. CASE Len(h) = 4 /\ Length(h) <= MaxFrame /\ Len(d) <= Length(h)
      <3>1. Length(h) = Length(f) /\ Length(h) \in Nat
        <4>1. Len(h) >= 4
          BY <2>2
        <4> QED BY <1>12, <2>2, <4>1, LengthIsNat
      <3> QED BY <1>3, <1>9, <2>2, <3>1
    <2> QED BY <2>1, <2>2 DEF FitsFrame
  <1>14. PICK v \in Seq(Bytes) : f = hd \o v /\ s \o lost = v \o t
    <2> DEFINE r == s \o lost
    <2>1. r \in Seq(Bytes) /\ hd \o r = f \o t
      BY <1>6, <1>11
    <2>2. f \in Seq(Bytes) /\ t \in Seq(Bytes)
      BY <1>9, <1>10
    <2> HIDE DEF r
    <2>3. \E v \in Seq(Bytes) : f = hd \o v /\ r = v \o t
      <3>1. Len(hd) <= Len(f)
        BY <1>13
      <3>2. hd \in Seq(Bytes)
        BY <1>1
      <3>3. hd \o r = f \o t /\ r \in Seq(Bytes)
        BY <2>1
      <3>4. Cut(hd, r, f, t)
        BY <2>2, <3>1, <3>2, <3>3, CutsCut
      <3> QED BY <3>4 DEF Cut
    <2> QED BY <2>3 DEF r
  <1> QED BY <1>2, <1>7, <1>8, <1>12, <1>14 DEF f, t, hd, Begun

\* A frame that is read to its end is read as it was written, and what follows
\* it is the frames after it.
LEMMA ArrivedPayload ==
    ASSUME NEW u \in Seq(Frames), NEW h \in Seq(Bytes), NEW d \in Seq(Bytes),
           NEW s \in Seq(Bytes), NEW k, Arrived(u, h, d, s, k),
           Len(h) = 4, Length(h) <= MaxFrame, Len(d) = Length(h)
    PROVE  /\ u # <<>> /\ Head(u) \in Frames /\ Head(u).bytes = h \o d
           /\ Length(Head(u).bytes) = Length(h)
           /\ Arrived(Rest(u), <<>>, <<>>, s, k)
  <1> DEFINE f == Head(u).bytes
             hd == h \o d
             t == Joined(Rest(u))
  <1>1. Len(h) \in Nat /\ Len(d) \in Nat /\ Len(hd) = Len(h) + Len(d) /\ hd \in Seq(Bytes)
    BY LenProperties, ConcatProperties
  <1>2. hd # <<>>
    <2>1. Len(<<>>) = 0
      OBVIOUS
    <2> QED BY <1>1, <2>1
  <1>3. /\ u # <<>> /\ Head(u) \in Frames /\ Length(f) = Length(h)
        /\ \E v \in Seq(Bytes), lost \in Seq(Bytes) :
              f = hd \o v /\ s \o lost = v \o t /\ (k # "eof" => lost = <<>>)
    <2>1. Length(h) \in Nat
      <3>1. Len(h) >= 4
        OBVIOUS
      <3> QED BY <3>1, LengthIsNat
    <2>2. FitsFrame(h, d)
      BY <1>1, <2>1 DEF FitsFrame
    <2>3. h \o d # <<>>
      BY <1>2
    <2>4. Begun(u, h, d, s, k)
      BY <2>2, <2>3, ArrivedFront
    <2> HIDE DEF f, hd, t
    <2> QED BY <2>4 DEF Begun, f, hd, t
  <1>4. PICK v \in Seq(Bytes), lost \in Seq(Bytes) :
              f = hd \o v /\ s \o lost = v \o t /\ (k # "eof" => lost = <<>>)
    BY <1>3
  <1>5. WellFramed(f)
    BY <1>3, FramesAreFramed
  <1>6. t \in Seq(Bytes)
    <2>1. Rest(u) \in Seq(Frames)
      BY <1>3, RestOf
    <2> QED BY <2>1, JoinedTyped
  <1> HIDE DEF f, hd, t
  <1>7. Len(f) = 4 + Length(h)
    BY <1>3, <1>5 DEF WellFramed
  <1>8. v = <<>>
    <2>1. Len(f) = Len(hd) + Len(v) /\ Len(v) \in Nat
      BY <1>1, <1>4, LenProperties, ConcatProperties
    <2>2. Len(v) = 0
      BY <1>1, <1>7, <2>1
    <2> QED BY <2>2, EmptySeq
  <1>9. f = hd /\ t = s \o lost
    BY <1>1, <1>4, <1>6, <1>8, Grouping
  <1>10. ((<<>> \o <<>>) \o s) \o lost = s \o lost
    BY Grouping
  <1>11. Arrived(Rest(u), <<>>, <<>>, s, k)
    BY <1>4, <1>9, <1>10 DEF Arrived, t
  <1> QED BY <1>3, <1>9, <1>11 DEF f, hd

\* The frames that the server has written are what the client has read of the
\* current one and what is left to receive.
FrameInv == ~torn => Arrived(unread, head, data, stream, sock)

\* No frame has been written at the start.
LEMMA InitFrameInv == Init => FrameInv
  BY ArrivedNone DEF Init, FrameInv

\* The server writes a frame at the end.
LEMMA WriteFrameInv ==
    ASSUME IInv, FrameInv, sock = "open", NEW x \in Frames,
           stream' = stream \o x.bytes, unread' = Append(unread, x),
           UNCHANGED <<sock, head, data, torn>>
    PROVE  FrameInv'
  <1>1. unread \in Seq(Frames) /\ head \in Seq(Bytes) /\ data \in Seq(Bytes) /\ stream \in Seq(Bytes)
    BY DEF IInv, CallInv, TypeOK
  <1>2. ASSUME ~torn
        PROVE  Arrived(Append(unread, x), head, data, stream \o x.bytes, sock)
    <2>1. Arrived(unread, head, data, stream, sock)
      BY <1>2 DEF FrameInv
    <2> QED BY <1>1, <2>1, ArrivedWrite
  <1>3. ~torn => Arrived(unread', head', data', stream', sock')
    BY <1>2
  <1> QED BY <1>3 DEF FrameInv

\* A recv() takes the front of what is there.
LEMMA ChunkFrameInv ==
    ASSUME IInv, FrameInv, RecvChunk
    PROVE  FrameInv'
  <1>1. Reading /\ Len(data) < Wanted /\ stream # <<>>
    BY DEF RecvChunk
  <1>2. PICK k \in ChunkSizes : /\ data' = data \o SubSeq(stream, 1, Recv(k))
                                /\ stream' = SubSeq(stream, Recv(k) + 1, Len(stream))
    BY DEF RecvChunk
  <1> DEFINE m == Recv(k)
             n == Len(stream)
             a == SubSeq(stream, 1, m)
             b == SubSeq(stream, m + 1, n)
  <1>3. m \in 1..n
    BY <1>1, RecvSize DEF IInv
  <1>4. /\ stream \in Seq(Bytes) /\ data \in Seq(Bytes) /\ head \in Seq(Bytes) /\ n \in Nat
    BY LenProperties DEF IInv, TypeOK
  <1>5. data' = data \o a /\ stream' = b /\ UNCHANGED <<unread, head, sock, torn>>
    BY <1>2 DEF RecvChunk
  <1> HIDE DEF m
  <1>6. a \in Seq(Bytes) /\ b \in Seq(Bytes)
    BY <1>3, <1>4, SubSeqProperties
  <1>7. stream = a \o b
    <2>1. 1 \in 1..(n + 1) /\ m \in (1 - 1)..n /\ n \in m..n
      BY <1>3, <1>4
    <2>2. SubSeq(stream, 1, m) \o SubSeq(stream, m + 1, n) = SubSeq(stream, 1, n)
      BY <1>4, <2>1, ConcatAdjacentSubSeq
    <2>3. SubSeq(stream, 1, n) = stream
      BY <1>4, SubSeqFull
    <2> QED BY <2>2, <2>3
  <1> HIDE DEF a, b
  <1>8. ASSUME ~torn PROVE Arrived(unread, head, data \o a, b, sock)
    <2>1. Arrived(unread, head, data, stream, sock)
      BY <1>8 DEF FrameInv
    <2> QED BY <1>4, <1>6, <1>7, <2>1, ArrivedChunk
  <1>9. ~torn => Arrived(unread', head', data', stream', sock')
    BY <1>5, <1>8
  <1> QED BY <1>5, <1>9 DEF FrameInv

\* A read that fails keeps the connection only as it is, or notes that it
\* stopped within a frame.
LEMMA FailFrameInv ==
    ASSUME IInv, FrameInv, ReadFails
    PROVE  FrameInv'
  <1>1. head' = <<>> /\ data' = <<>> /\ head \in Seq(Bytes) /\ data \in Seq(Bytes)
    BY DEF ReadFails, IInv, TypeOK
  <1>2. CASE KeepSock
    <2>1. ASSUME ~torn, head \o data = <<>>
          PROVE  Arrived(unread, <<>>, <<>>, stream, sock)
      <3>1. Arrived(unread, head, data, stream, sock)
        BY <2>1 DEF FrameInv
      <3>2. <<>> \o <<>> = head \o data
        BY <2>1
      <3> QED BY <3>1, <3>2 DEF Arrived
    <2>2. torn' = (torn \/ head \o data # <<>>) /\ UNCHANGED <<sock, stream, unread>>
      BY <1>2 DEF KeepSock
    <2>3. ~torn' => Arrived(unread', head', data', stream', sock')
      BY <1>1, <2>1, <2>2
    <2> QED BY <2>3 DEF FrameInv
  <1>3. CASE CloseLocked
    <2>1. stream' = <<>> /\ unread' = <<>>
      BY <1>3 DEF CloseLocked
    <2>2. Arrived(unread', head', data', stream', sock')
      BY <1>1, <2>1, ArrivedNone
    <2> QED BY <2>2 DEF FrameInv
  <1> QED BY <1>2, <1>3 DEF ReadFails, CloseAfterFailure

\* What a read to the end of a frame takes is the oldest one, and what is left
\* is the others.
LEMMA PayloadArrived ==
    ASSUME IInv, FrameInv, ~torn, at = "payload", Len(data) = Length(head)
    PROVE  /\ unread # <<>> /\ Head(unread) \in Frames /\ Head(unread).bytes = head \o data
           /\ Len(head) = 4 /\ Length(Head(unread).bytes) = Length(head)
           /\ Length(head) <= MaxFrame
           /\ Arrived(Rest(unread), <<>>, <<>>, stream, sock)
  <1>1. /\ unread \in Seq(Frames) /\ head \in Seq(Bytes) /\ data \in Seq(Bytes)
        /\ stream \in Seq(Bytes) /\ Len(head) = 4 /\ Length(head) <= MaxFrame
    BY DEF IInv, CallInv, TypeOK
  <1>2. Arrived(unread, head, data, stream, sock)
    BY DEF FrameInv
  <1> QED BY <1>1, <1>2, ArrivedPayload

\* Every step keeps the frames together.
LEMMA StepFrameInv == IInv /\ FrameInv /\ [Next]_vars => FrameInv'
  <1> SUFFICES ASSUME IInv, FrameInv, [Next]_vars PROVE FrameInv'
    OBVIOUS
  <1>t. /\ unread \in Seq(Frames) /\ head \in Seq(Bytes) /\ data \in Seq(Bytes)
        /\ stream \in Seq(Bytes)
    BY DEF IInv, CallInv, TypeOK
  <1>1. CASE UNCHANGED <<unread, head, data, stream, sock, torn>>
    BY <1>1 DEF FrameInv
  <1>2. CASE Connect
    <2>1. /\ sock = "none" /\ sock' = "open"
          /\ UNCHANGED <<unread, head, data, stream, torn>>
      BY <1>2 DEF Connect
    <2>2. ~torn => Arrived(unread, head, data, stream, "open")
      BY <1>t, <2>1, ArrivedBreak DEF FrameInv
    <2>3. ~torn => Arrived(unread', head', data', stream', sock')
      BY <2>1, <2>2
    <2> QED BY <2>1, <2>3 DEF FrameInv
  <1>3. CASE Close
    <2>1. /\ stream' = <<>> /\ unread' = <<>> /\ head = <<>> /\ data = <<>>
          /\ UNCHANGED <<head, data>>
      BY <1>3 DEF Close, CloseLocked, IInv, TypeOK, Reading
    <2>2. Arrived(unread', head', data', stream', sock')
      BY <2>1, ArrivedNone
    <2> QED BY <2>2 DEF FrameInv
  <1>4. CASE Serve
    <2>1. UNCHANGED <<sock, head, data, torn>>
      BY <1>4 DEF Serve
    <2>2. TypeOK /\ AskInv
      BY DEF IInv
    <2>3. PICK x \in Frames : /\ x.to = Head(requests).call
                              /\ stream' = stream \o x.bytes /\ unread' = Append(unread, x)
      BY <1>4, <2>2, ServeFrame
    <2>4. sock = "open"
      BY <1>4 DEF Serve
    <2> QED BY <2>1, <2>3, <2>4, WriteFrameInv
  <1>5. CASE Push
    <2>1. UNCHANGED <<sock, head, data, torn>>
      BY <1>5 DEF Push
    <2>2. TypeOK
      BY DEF IInv
    <2>3. PICK x \in Frames : /\ x.to = EventWait
                              /\ stream' = stream \o x.bytes /\ unread' = Append(unread, x)
      BY <1>5, <2>2, PushFrame
    <2>4. sock = "open"
      BY <1>5 DEF Push
    <2> QED BY <2>1, <2>3, <2>4, WriteFrameInv
  <1>6. CASE Break
    <2>1. /\ sock = "open" /\ sock' = "eof" /\ stream' \in {stream, <<>>}
          /\ UNCHANGED <<unread, head, data, torn>>
      BY <1>6 DEF Break
    <2>2. ~torn => /\ Arrived(unread, head, data, stream, "eof")
                   /\ Arrived(unread, head, data, <<>>, "eof")
      BY <1>t, <2>1, ArrivedBreak DEF FrameInv
    <2>3. ~torn => Arrived(unread', head', data', stream', sock')
      BY <2>1, <2>2
    <2> QED BY <2>1, <2>3 DEF FrameInv
  <1>7. CASE RecvChunk
    BY <1>7, ChunkFrameInv
  <1>8. CASE RecvEof \/ RecvTimeout \/ (HeaderRead /\ TooLarge(data))
    BY <1>8, FailFrameInv DEF RecvEof, RecvTimeout, HeaderRead
  <1>9. CASE HeaderRead /\ ~TooLarge(data)
    <2>1. head' = data /\ data' = <<>> /\ UNCHANGED <<unread, stream, sock, torn>> /\ head = <<>>
      BY <1>9 DEF HeaderRead, IInv, CallInv
    <2>2. ~torn => Arrived(unread, data, <<>>, stream, sock)
      BY <1>t, <2>1, ArrivedHeader DEF FrameInv
    <2>3. ~torn => Arrived(unread', head', data', stream', sock')
      BY <2>1, <2>2
    <2> QED BY <2>1, <2>3 DEF FrameInv
  <1>10. CASE PayloadRead
    <2>1. at = "payload" /\ Len(data) = Length(head) /\ head' = <<>> /\ data' = <<>>
      BY <1>10 DEF PayloadRead
    <2>2. CASE CloseLocked
      <3>1. stream' = <<>> /\ unread' = <<>>
        BY <2>2 DEF CloseLocked
      <3>2. Arrived(unread', head', data', stream', sock')
        BY <2>1, <3>1, ArrivedNone
      <3> QED BY <3>2 DEF FrameInv
    <2>3. CASE unread' = Rest(unread) /\ UNCHANGED <<sock, stream, torn>>
      <3>1. ~torn => Arrived(Rest(unread), <<>>, <<>>, stream, sock)
        BY <2>1, PayloadArrived
      <3>2. ~torn => Arrived(unread', head', data', stream', sock')
        BY <2>1, <2>3, <3>1
      <3> QED BY <2>3, <3>2 DEF FrameInv
    <2> QED BY <1>10, <2>2, <2>3 DEF PayloadRead
  <1>11. CASE \/ ConnectFails \/ WaitWatchEvent \/ Finish \/ ServeHttp \/ HttpAnswered \/ HttpLost
              \/ (\E c \in Calls : Call(c)) \/ UNCHANGED vars
    BY <1>1, <1>11 DEF ConnectFails, WaitWatchEvent, Finish, ServeHttp, HttpAnswered, HttpLost,
                       Call, vars, tcpVars
  <1>12. HeaderRead => TooLarge(data) \/ ~TooLarge(data)
    OBVIOUS
  <1> QED BY <1>2, <1>3, <1>4, <1>5, <1>6, <1>7, <1>8, <1>9, <1>10, <1>11, <1>12 DEF Next

\* A sequence is the beginning of whatever it begins.
LEMMA PrefixOfBoth ==
    ASSUME NEW s \in Seq(Bytes), NEW t \in Seq(Bytes)
    PROVE  IsPrefix(s, s \o t)
  <1> DEFINE m == Len(s)
             b == s \o t
             w == SubSeq(b, 1, m)
  <1>1. m \in Nat /\ Len(t) \in Nat
    BY LenProperties
  <1>2. b \in Seq(Bytes) /\ Len(b) = m + Len(t) /\ \A i \in 1..m : b[i] = s[i]
    <2>1. /\ b \in Seq(Bytes) /\ Len(b) = m + Len(t)
          /\ \A i \in 1..(m + Len(t)) : b[i] = IF i <= m THEN s[i] ELSE t[i - m]
      BY ConcatProperties
    <2> HIDE DEF m, b
    <2> QED BY <1>1, <2>1
  <1> HIDE DEF b
  <1>3. m <= Len(b) /\ \A i \in 1..m : b[i] \in Bytes
    <2>1. \A i \in 1..m : s[i] \in Bytes
      BY ElementOfSeq
    <2> QED BY <1>1, <1>2, <2>1
  <1>4. w \in Seq(Bytes) /\ Len(w) = m /\ \A i \in 1..m : w[i] = b[i]
    <2> HIDE DEF m
    <2> QED BY <1>1, <1>3, SubSeqProperties
  <1> HIDE DEF w
  <1>5. w = s
    BY <1>2, <1>4, SeqEqual
  <1>6. SubSeq(s, 1, m) = s
    BY SubSeqFull
  <1> QED BY <1>3, <1>5, <1>6 DEF IsPrefix, b, w

\* What a _recv() has read is the beginning of the oldest frame that the
\* server wrote and the client has not read, unless an earlier read stopped
\* within a frame (ReadsOneFrame).
THEOREM OneFrameAtATime == Spec => []ReadsOneFrame
  <1>1. IInv /\ FrameInv => ReadsOneFrame
    <2> SUFFICES ASSUME IInv, FrameInv, Reading, head \o data # <<>>, ~torn
                 PROVE  unread # <<>> /\ IsPrefix(head \o data, Head(unread).bytes)
      BY DEF ReadsOneFrame
    <2>1. /\ unread \in Seq(Frames) /\ head \in Seq(Bytes) /\ data \in Seq(Bytes)
          /\ stream \in Seq(Bytes)
      BY DEF IInv, CallInv, TypeOK
    <2>2. FitsFrame(head, data)
      <3>1. CASE at = "header"
        <4>1. head = <<>> /\ Len(data) <= 4
          BY <3>1 DEF IInv, CallInv, TypeOK, Wanted
        <4> QED BY <4>1 DEF FitsFrame
      <3>2. CASE at = "payload"
        <4>1. Len(head) = 4 /\ Length(head) <= MaxFrame /\ Len(data) <= Length(head)
          BY <3>2 DEF IInv, TypeOK, Wanted
        <4> QED BY <4>1 DEF FitsFrame
      <3> QED BY <3>1, <3>2 DEF Reading
    <2>3. Arrived(unread, head, data, stream, sock)
      BY DEF FrameInv
    <2>4. Begun(unread, head, data, stream, sock)
      BY <2>1, <2>2, <2>3, ArrivedFront
    <2> DEFINE f == Head(unread).bytes
               hd == head \o data
    <2>5. PICK v \in Seq(Bytes) : f = hd \o v
      BY <2>4 DEF Begun
    <2>6. unread # <<>> /\ hd \in Seq(Bytes)
      BY <2>1, <2>4, Closed DEF Begun
    <2> HIDE DEF f, hd
    <2>7. IsPrefix(hd, f)
      BY <2>5, <2>6, PrefixOfBoth
    <2> QED BY <2>6, <2>7 DEF f, hd
  <1> QED BY <1>1, InitIInv, StepIInv, InitFrameInv, StepFrameInv, PTL DEF Spec

(***************************************************************************)
(* What is on its way                                                      *)
(***************************************************************************)

\* One of the requests q or of the frames u is for c.
Own(q, u, c) ==
    \/ \E i \in 1..Len(q) : q[i].call = c
    \/ \E i \in 1..Len(u) : u[i].to = c

\* There is at most one of them, and it is for c.
Alone(q, u, c) ==
    /\ Len(q) + Len(u) <= 1
    /\ \A i \in 1..Len(q) : q[i].call = c
    /\ \A i \in 1..Len(u) : u[i].to = c

\* The call waits for an answer over TCP.
Waiting(a, c) == a \in {"header", "payload"} /\ c.op # "event"

\* While a call waits for its answer, either its request or its answer is on
\* its way; and nothing else, before anything stray has come to the connection.
QueueInv ==
    transport = "tcp" =>
        /\ sock = "open" /\ Waiting(at, call) => Own(requests, unread, call)
        /\ ~torn /\ ~stray => IF Waiting(at, call) THEN Alone(requests, unread, call)
                              ELSE requests = <<>> /\ unread = <<>>

\* A request is sent.
LEMMA SentOne ==
    ASSUME NEW S, NEW q \in Seq(S), NEW u \in Seq(Frames), NEW y \in S
    PROVE  /\ Own(Append(q, y), u, y.call)
           /\ q = <<>> /\ u = <<>> => Alone(Append(q, y), u, y.call)
  <1> DEFINE p == Append(q, y)
             n == Len(q)
  <1>1. n \in Nat /\ Len(p) = n + 1 /\ p[n + 1] = y
    BY LenProperties, AppendProperties
  <1> HIDE DEF p
  <1>2. n + 1 \in 1..Len(p)
    BY <1>1
  <1>3. Own(p, u, y.call)
    BY <1>1, <1>2 DEF Own
  <1>4. ASSUME q = <<>>, u = <<>> PROVE Alone(p, u, y.call)
    <2>1. n = 0 /\ Len(u) = 0
      BY <1>4
    <2> HIDE DEF n
    <2>2. Len(p) + Len(u) <= 1 /\ \A i \in 1..Len(p) : i = n + 1
      BY <1>1, <2>1
    <2>3. \A i \in 1..Len(u) : u[i].to = y.call
      BY <2>1
    <2> QED BY <1>1, <2>2, <2>3 DEF Alone
  <1> QED BY <1>3, <1>4 DEF p

\* A frame is written, and nothing is given up.
LEMMA OwnPushed ==
    ASSUME NEW q, NEW u \in Seq(Frames), NEW x \in Frames, NEW c, Own(q, u, c)
    PROVE  Own(q, Append(u, x), c)
  <1> DEFINE w == Append(u, x)
  <1>1. Len(u) \in Nat /\ Len(w) = Len(u) + 1 /\ \A i \in 1..Len(u) : w[i] = u[i]
    BY LenProperties, AppendProperties
  <1> HIDE DEF w
  <1>2. \A i \in 1..Len(u) : i \in 1..Len(w)
    BY <1>1
  <1>3. Own(q, w, c)
    BY <1>1, <1>2 DEF Own
  <1> QED BY <1>3 DEF w

\* The answer to a request takes its place.
LEMMA OwnServed ==
    ASSUME NEW S, NEW q \in Seq(S), q # <<>>, NEW u \in Seq(Frames),
           NEW x \in Frames, x.to = Head(q).call, NEW c
    PROVE  /\ Own(q, u, c) => Own(Rest(q), Append(u, x), c)
           /\ Alone(q, u, c) => Alone(Rest(q), Append(u, x), c)
  <1> DEFINE w == Append(u, x)
             r == Rest(q)
             n == Len(q)
             m == Len(u)
  <1>1. m \in Nat /\ Len(w) = m + 1 /\ w[m + 1] = x /\ \A i \in 1..m : w[i] = u[i]
    BY LenProperties, AppendProperties
  <1>2. /\ n \in Nat \ {0} /\ Len(r) = n - 1 /\ Head(q) = q[1]
        /\ \A i \in 1..(n - 1) : r[i] = q[i + 1]
    BY RestOf
  <1> HIDE DEF w, r
  <1>3. ASSUME Own(q, u, c) PROVE Own(r, w, c)
    <2>1. CASE \E i \in 1..m : u[i].to = c
      <3>1. PICK i \in 1..m : u[i].to = c
        BY <2>1
      <3>2. i \in 1..Len(w) /\ w[i].to = c
        BY <1>1, <3>1
      <3> QED BY <3>2 DEF Own
    <2>2. CASE \E i \in 1..n : q[i].call = c
      <3>1. PICK i \in 1..n : q[i].call = c
        BY <2>2
      <3>2. CASE i = 1
        <4>1. m + 1 \in 1..Len(w) /\ w[m + 1].to = c
          BY <1>1, <1>2, <3>1, <3>2
        <4> QED BY <4>1 DEF Own
      <3>3. CASE i # 1
        <4> DEFINE j == i - 1
        <4>1. j \in 1..(n - 1) /\ j \in 1..Len(r) /\ j + 1 = i
          BY <1>2, <3>1, <3>3
        <4>2. r[j].call = c
          BY <1>2, <3>1, <4>1
        <4> HIDE DEF j
        <4> QED BY <4>1, <4>2 DEF Own
      <3> QED BY <3>2, <3>3
    <2> QED BY <1>3, <2>1, <2>2 DEF Own
  <1>4. ASSUME Alone(q, u, c) PROVE Alone(r, w, c)
    <2>1. n + m <= 1 /\ \A i \in 1..n : q[i].call = c
      BY <1>4 DEF Alone
    <2> HIDE DEF n, m
    <2>2. n = 1 /\ m = 0 /\ 1 \in 1..n
      BY <1>1, <1>2, <2>1
    <2>3. Len(r) = 0 /\ Len(w) = 1 /\ w[1] = x
      BY <1>1, <1>2, <2>2
    <2>4. x.to = c
      BY <1>2, <2>1, <2>2
    <2>5. \A i \in 1..Len(w) : w[i].to = c
      BY <2>3, <2>4
    <2> QED BY <2>3, <2>5 DEF Alone
  <1> QED BY <1>3, <1>4 DEF r, w

\* What is alone is for the call, and nothing follows it.
LEMMA AloneHead ==
    ASSUME NEW S, NEW q \in Seq(S), NEW u \in Seq(Frames), u # <<>>, NEW c, Alone(q, u, c)
    PROVE  q = <<>> /\ Rest(u) = <<>> /\ Head(u).to = c
  <1> DEFINE n == Len(q)
             m == Len(u)
             r == Rest(u)
  <1>1. /\ m \in Nat \ {0} /\ Head(u) = u[1] /\ r \in Seq(Frames) /\ Len(r) = m - 1
        /\ n \in Nat
    BY RestOf, LenProperties
  <1>2. n + m <= 1 /\ \A i \in 1..m : u[i].to = c
    BY DEF Alone
  <1> HIDE DEF n, m, r
  <1>3. n = 0 /\ m = 1 /\ 1 \in 1..m /\ m - 1 = 0
    BY <1>1, <1>2
  <1>4. r = <<>>
    BY <1>1, <1>3, EmptySeq
  <1>5. q = <<>>
    BY <1>3, EmptySeq DEF n
  <1>6. Head(u).to = c
    BY <1>1, <1>2, <1>3
  <1> QED BY <1>4, <1>5, <1>6 DEF r

\* If nothing follows the first frame, it is the one that is for the call.
LEMMA OwnHead ==
    ASSUME NEW u \in Seq(Frames), u # <<>>, Rest(u) = <<>>, NEW c, Own(<<>>, u, c)
    PROVE  Head(u).to = c
  <1> DEFINE m == Len(u)
             r == Rest(u)
  <1>1. m \in Nat \ {0} /\ Head(u) = u[1] /\ Len(r) = m - 1
    BY RestOf
  <1>2. Len(r) = 0 /\ Len(<<>>) = 0
    OBVIOUS
  <1> HIDE DEF r
  <1>3. PICK i \in 1..m : u[i].to = c
    BY <1>2 DEF Own
  <1> HIDE DEF m
  <1>4. m = 1
    BY <1>1, <1>2
  <1>5. i = 1
    BY <1>3, <1>4
  <1> QED BY <1>1, <1>3, <1>5

\* Nothing is on its way at the start.
LEMMA InitQueueInv == Init => QueueInv
  BY DEF Init, QueueInv, Waiting

\* A call is sent over a connection that is idle.
LEMMA SendQueueInv ==
    ASSUME IInv, QueueInv, transport = "tcp", at = "idle", NEW c \in Calls \cup {AuthCall},
           c \in Asked(strict, "tcp"), Send(c), call' = c, at' = "header",
           sock' = "open" => sock # "eof",
           UNCHANGED <<transport, unread, torn, stray>>
    PROVE  QueueInv'
  <1> DEFINE S == Requests(strict, transport)
             y == [call |-> c, bytes |-> EncodeRequest(c)]
  <1>1. requests \in Seq(S) /\ unread \in Seq(Frames)
    BY DEF IInv, AskInv, CallInv
  <1>2. y \in S /\ y.call = c
    <2>1. EncodeRequest(c) = Encoded(transport, c)
      BY Zenon DEF Encoded
    <2> QED BY <2>1 DEF Requests
  <1>3. c.op # "event"
    BY AskedOverTcp, OpsApart
  <1>4. requests' = IF sock = "eof" THEN requests ELSE Append(requests, y)
    BY DEF Send
  <1>5. ~torn /\ ~stray => requests = <<>> /\ unread = <<>>
    BY DEF QueueInv, Waiting
  <1> HIDE DEF S, y
  <1>6. /\ Own(Append(requests, y), unread, c)
        /\ requests = <<>> /\ unread = <<>> => Alone(Append(requests, y), unread, c)
    BY <1>1, <1>2, SentOne
  <1>7. requests = <<>> /\ unread = <<>> => Alone(requests, unread, c)
    BY DEF Alone
  <1>8. Waiting(at', call')
    BY <1>3 DEF Waiting
  <1>9. sock' = "open" => Own(requests', unread', call')
    BY <1>4, <1>6
  <1>10. ~torn' /\ ~stray' => Alone(requests', unread', call')
    BY <1>4, <1>5, <1>6, <1>7
  <1> QED BY <1>8, <1>9, <1>10 DEF QueueInv

\* A read that fails leaves nothing, except on a connection with more on it.
LEMMA FailQueueInv ==
    ASSUME IInv, QueueInv, Reading, ReadFails
    PROVE  QueueInv'
  <1>1. ~Waiting(at', call')
    BY DEF ReadFails, Return, Waiting
  <1>2. CASE CloseLocked
    BY <1>1, <1>2 DEF CloseLocked, QueueInv
  <1>3. CASE call.op \in {"event", "auth"} /\ KeepSock
    <2>1. /\ UNCHANGED <<sock, unread, requests, transport>>
          /\ stray' = (stray \/ call.op = "auth") /\ torn' = (torn \/ head \o data # <<>>)
      BY <1>3 DEF KeepSock, ReadFails
    <2>2. ~torn' /\ ~stray' => ~torn /\ ~stray /\ call.op = "event"
      BY <1>3, <2>1
    <2>3. transport = "tcp" /\ ~torn' /\ ~stray' => requests = <<>> /\ unread = <<>>
      BY <2>2 DEF QueueInv, Waiting
    <2> QED BY <1>1, <2>1, <2>3 DEF QueueInv
  <1> QED BY <1>2, <1>3 DEF ReadFails, CloseAfterFailure

\* An answer is read: the last thing on its way, or that of somebody else.
LEMMA ReadQueueInv ==
    ASSUME IInv, FrameInv, QueueInv, PayloadRead
    PROVE  QueueInv'
  <1>1. ~Waiting(at', call') /\ at = "payload" /\ Len(data) = Length(head)
    BY DEF PayloadRead, Return, Waiting
  <1>2. CASE CloseLocked
    BY <1>1, <1>2 DEF CloseLocked, QueueInv
  <1>3. CASE /\ unread' = Rest(unread)
             /\ stray' = (stray /\ (sock = "eof" \/ requests # <<>> \/ Rest(unread) # <<>>))
             /\ UNCHANGED <<sock, stream, requests, watching, torn>>
    <2>1. transport' = transport
      BY DEF PayloadRead
    <2>2. ASSUME transport = "tcp", ~torn, ~stray' PROVE requests = <<>> /\ Rest(unread) = <<>>
      <3>1. CASE stray
        BY <1>3, <2>2, <3>1
      <3>2. CASE ~stray
        <4>1. unread # <<>>
          BY <1>1, <2>2, PayloadArrived
        <4>2. Alone(requests, unread, call)
          BY <1>1, <2>2, <3>2, <4>1 DEF QueueInv
        <4>3. requests \in Seq(Requests(strict, transport)) /\ unread \in Seq(Frames)
          BY DEF IInv, AskInv, CallInv
        <4> QED BY <4>1, <4>2, <4>3, AloneHead
      <3> QED BY <3>1, <3>2
    <2> QED BY <1>1, <1>3, <2>1, <2>2 DEF QueueInv
  <1> QED BY <1>2, <1>3 DEF PayloadRead

\* The server answers a request, or the connection is lost.
LEMMA ServeQueueInv ==
    ASSUME IInv, QueueInv, Serve
    PROVE  QueueInv'
  <1>1. TypeOK /\ AskInv
    BY DEF IInv
  <1>2. requests # <<>>
    BY <1>1, ServeFrame
  <1>3. PICK x \in Frames : x.to = Head(requests).call /\ unread' = Append(unread, x)
    BY <1>1, ServeFrame
  <1>4. /\ requests' = Rest(requests)
        /\ UNCHANGED <<transport, sock, at, call, torn, stray>>
    BY DEF Serve
  <1> DEFINE S == Requests(strict, transport)
  <1>5. requests \in Seq(S) /\ unread \in Seq(Frames)
    BY DEF IInv, AskInv, CallInv
  <1> HIDE DEF S
  <1>6. /\ Own(requests, unread, call) => Own(Rest(requests), Append(unread, x), call)
        /\ Alone(requests, unread, call) => Alone(Rest(requests), Append(unread, x), call)
    BY <1>2, <1>3, <1>5, OwnServed
  <1>7. Waiting(at', call') = Waiting(at, call)
    BY <1>4
  <1>8. transport = "tcp" /\ ~torn /\ ~stray => Waiting(at, call)
    BY <1>2 DEF QueueInv
  <1> QED BY <1>3, <1>4, <1>6, <1>7, <1>8 DEF QueueInv

\* Every step keeps count of what is on its way.
LEMMA StepQueueInv == IInv /\ FrameInv /\ QueueInv /\ [Next]_vars => QueueInv'
  <1> SUFFICES ASSUME IInv, FrameInv, QueueInv, [Next]_vars PROVE QueueInv'
    OBVIOUS
  <1>1. ASSUME UNCHANGED <<transport, sock, requests, unread, at, call, torn, stray>>
        PROVE  QueueInv'
    BY <1>1 DEF QueueInv
  <1>2. ASSUME ~Waiting(at, call), ~Waiting(at', call'), transport = "tcp" => requests' = requests,
               UNCHANGED <<transport, unread, torn, stray>>
        PROVE  QueueInv'
    BY <1>2 DEF QueueInv
  <1>3. CASE Connect
    <2>1. /\ transport = "tcp" /\ at = "idle" /\ sock = "none" /\ sock' = "open"
          /\ UNCHANGED <<transport, unread, torn, stray>>
      BY <1>3 DEF Connect
    <2>2. CASE Token = None
      <3>1. at' = "done" /\ UNCHANGED <<call, requests>>
        BY <1>3, <2>2 DEF Connect, Return
      <3> QED BY <1>2, <2>1, <3>1 DEF Waiting
    <2>3. CASE Token # None
      <3>1. Send(AuthCall) /\ call' = AuthCall /\ at' = "header"
        BY <1>3, <2>3 DEF Connect
      <3>2. AuthCall.op = "auth"
        BY DEF AuthCall, NoCall
      <3>3. AuthCall \in Asked(strict, "tcp")
        BY <2>3, <3>2 DEF Asked, SentOps, Validate
      <3> QED BY <2>1, <3>1, <3>3, SendQueueInv
    <2> QED BY <2>2, <2>3
  <1>4. ASSUME NEW c \in Calls, Call(c) PROVE QueueInv'
    <2>1. /\ at = "idle" /\ call' = c /\ transport \in {"tcp", "http"}
          /\ c.op \in IF transport = "tcp" THEN TcpOps ELSE HttpOps
          /\ UNCHANGED <<strict, transport, sock, unread, torn, stray>>
      BY <1>4 DEF Call, tcpVars, IInv, TypeOK
    <2>2. CASE at' = "done" /\ requests' = requests
      BY <1>2, <2>1, <2>2 DEF Waiting
    <2>3. CASE transport = "http"
      BY <2>1, <2>3 DEF QueueInv
    <2>4. CASE Validate(strict, c) /\ transport = "tcp" /\ sock # "none" /\ Send(c) /\ at' = "header"
      <3>1. c \in Asked(strict, "tcp")
        BY <2>1, <2>4, CallIsAsked
      <3>2. sock' = "open" => sock # "eof"
        BY <2>1
      <3> QED BY <2>1, <2>4, <3>1, <3>2, SendQueueInv
    <2> QED BY <1>4, <2>2, <2>3, <2>4 DEF Call, Return
  <1>5. CASE WaitWatchEvent
    <2>1. EventWait.op = "event"
      BY DEF EventWait, NoCall
    <2>2. /\ at = "idle" /\ call' = EventWait
          /\ UNCHANGED <<transport, requests, unread, torn, stray>>
      BY <1>5 DEF WaitWatchEvent, tcpVars
    <2> QED BY <1>2, <2>1, <2>2 DEF Waiting
  <1>6. CASE Finish
    BY <1>2, <1>6 DEF Finish, tcpVars, Waiting
  <1>7. CASE Close
    BY <1>7 DEF Close, CloseLocked, QueueInv, Waiting
  <1>8. CASE Push
    <2>1. /\ sock = "open" /\ stray' = TRUE
          /\ UNCHANGED <<transport, sock, requests, at, call, torn>>
      BY <1>8 DEF Push
    <2>2. TypeOK /\ unread \in Seq(Frames)
      BY DEF IInv, CallInv
    <2>3. PICK x \in Frames : unread' = Append(unread, x)
      BY <1>8, <2>2, PushFrame
    <2>4. Own(requests, unread, call) => Own(requests, Append(unread, x), call)
      BY <2>2, OwnPushed
    <2> QED BY <2>1, <2>3, <2>4 DEF QueueInv
  <1>9. CASE Break
    <2>1. /\ sock' = "eof" /\ requests' = <<>>
          /\ UNCHANGED <<transport, unread, at, call, torn, stray>>
      BY <1>9 DEF Break
    <2>2. requests \in Seq(Requests(strict, transport))
      BY DEF IInv, AskInv
    <2>3. Alone(requests, unread, call) => Alone(<<>>, unread, call)
      <3>1. Len(requests) \in Nat /\ Len(unread) \in Nat /\ Len(<<>>) = 0
        BY <2>2, LenProperties DEF IInv, CallInv
      <3> QED BY <3>1 DEF Alone
    <2> QED BY <2>1, <2>3 DEF QueueInv
  <1>10. CASE RecvEof \/ RecvTimeout \/ (HeaderRead /\ TooLarge(data))
    BY <1>10, FailQueueInv DEF RecvEof, RecvTimeout, HeaderRead, Reading
  <1>11. CASE HeaderRead /\ ~TooLarge(data)
    <2>1. /\ at = "header" /\ at' = "payload"
          /\ UNCHANGED <<transport, sock, requests, unread, call, torn, stray>>
      BY <1>11 DEF HeaderRead
    <2> QED BY <2>1 DEF QueueInv, Waiting
  <1>12. CASE RecvChunk \/ UNCHANGED vars
    BY <1>1, <1>12 DEF RecvChunk, vars, tcpVars
  <1>13. CASE ServeHttp \/ HttpAnswered \/ HttpLost
    <2>1. transport = "http" /\ transport' = transport
      BY <1>13 DEF ServeHttp, HttpAnswered, HttpLost, IInv, CallInv
    <2> QED BY <2>1 DEF QueueInv
  <1>14. CASE ConnectFails
    BY <1>2, <1>14 DEF ConnectFails, Return, tcpVars, Waiting
  <1> QED
    BY <1>3, <1>4, <1>5, <1>6, <1>7, <1>8, <1>9, <1>10, <1>11, <1>12, <1>13, <1>14,
       ServeQueueInv, ReadQueueInv DEF Next

\* However a call over TCP ends, either the connection is given up or the next
\* call starts at a frame; and nothing is on its way but what an event pushed
\* to it, or an authentication that gave up on it, has left (FrameBoundary).
THEOREM NothingLeftOver == Spec => []FrameBoundary
  <1>1. ASSUME IInv, FrameInv, QueueInv, at = "idle", sock = "open", ~torn
        PROVE  /\ stream = FlattenSeq([i \in DOMAIN unread |-> unread[i].bytes])
               /\ stray \/ (unread = <<>> /\ requests = <<>>)
    <2>1. head = <<>> /\ data = <<>> /\ stream \in Seq(Bytes) /\ transport = "tcp"
      BY <1>1 DEF IInv, TypeOK, Reading
    <2>2. Arrived(unread, <<>>, <<>>, stream, "open")
      BY <1>1, <2>1 DEF FrameInv
    <2>3. Joined(unread) = ((<<>> \o <<>>) \o stream) \o <<>>
      BY <2>2 DEF Arrived
    <2>4. <<>> \o <<>> = <<>> /\ <<>> \o stream = stream /\ stream \o <<>> = stream
      BY <2>1, Grouping
    <2>5. Joined(unread) = stream
      BY <2>3, <2>4
    <2>6. stray \/ (unread = <<>> /\ requests = <<>>)
      BY <1>1, <2>1 DEF QueueInv, Waiting
    <2> QED BY <2>5, <2>6 DEF Joined
  <1>2. IInv /\ FrameInv /\ QueueInv => FrameBoundary
    BY <1>1 DEF FrameBoundary
  <1> QED BY <1>2, InitIInv, StepIInv, InitFrameInv, StepFrameInv, InitQueueInv, StepQueueInv,
             PTL DEF Spec

(***************************************************************************)
(* URLs                                                                    *)
(***************************************************************************)

\* What urllib.parse.quote() makes of one byte.
Quoted(b) ==
    IF b \in Digits \cup Letters \cup {45, 46, 95, 126} THEN <<b>> ELSE Escape(b)

\* f decodes s from every position on.
Unquoting(f, s) ==
    \A i \in Nat : f[i] =
        IF i > Len(s) THEN <<>>
        ELSE IF s[i] = Percent /\ i + 2 <= Len(s)
        THEN <<16 * Unhex(s[i + 1]) + Unhex(s[i + 2])>> \o f[i + 3]
        ELSE <<s[i]>> \o f[i + 1]

\* There is such a function for every string: it is built from its end.
LEMMA UnquotingExists ==
    ASSUME NEW s, Len(s) \in Nat
    PROVE  \E f : f = [i \in Nat |-> f[i]] /\ Unquoting(f, s)
  <1> DEFINE b(i) == 16 * Unhex(s[i + 1]) + Unhex(s[i + 2])
             E(f, i) == IF i > Len(s) THEN <<>>
                        ELSE IF s[i] = Percent /\ i + 2 <= Len(s)
                        THEN <<b(i)>> \o f[i + 3]
                        ELSE <<s[i]>> \o f[i + 1]
             D(n) == \E g : g = [i \in Nat |-> g[i]] /\ \A i \in Nat : i + n > Len(s) => g[i] = E(g, i)
             T == {n \in Nat : ~D(n)}
  <1>1. D(0)
    <2> DEFINE g == [i \in Nat |-> <<>>]
    <2>1. \A i \in Nat : i + 0 > Len(s) => g[i] = E(g, i)
      <3> HIDE DEF b
      <3> QED OBVIOUS
    <2>2. g = [i \in Nat |-> g[i]]
      OBVIOUS
    <2> HIDE DEF g, E
    <2> QED BY <2>1, <2>2
  <1>2. ASSUME NEW n \in Nat, D(n) PROVE D(n + 1)
    <2>1. PICK g : g = [i \in Nat |-> g[i]] /\ \A i \in Nat : i + n > Len(s) => g[i] = E(g, i)
      BY <1>2
    <2> DEFINE h == [i \in Nat |-> E(g, i)]
    <2>2. \A i \in Nat : i + n > Len(s) => h[i] = g[i]
      <3> HIDE DEF E
      <3> QED BY <2>1
    <2>3. ASSUME NEW i \in Nat, i + (n + 1) > Len(s) PROVE h[i] = E(h, i)
      <3>1. h[i] = E(g, i)
        <4> HIDE DEF E
        <4> QED OBVIOUS
      <3>2. h[i + 1] = g[i + 1] /\ h[i + 3] = g[i + 3]
        <4>1. i + 1 \in Nat /\ i + 3 \in Nat /\ (i + 1) + n > Len(s) /\ (i + 3) + n > Len(s)
          BY <2>3
        <4> HIDE DEF h
        <4> QED BY <2>2, <4>1
      <3> HIDE DEF h, b
      <3> QED BY <3>1, <3>2, Zenon
    <2>4. h = [i \in Nat |-> h[i]]
      <3> HIDE DEF E
      <3> QED OBVIOUS
    <2> HIDE DEF h, E
    <2> QED BY <2>3, <2>4
  <1> HIDE DEF D
  <1>3. T = {}
    <2> SUFFICES ASSUME T # {} PROVE FALSE
      OBVIOUS
    <2>1. PICK n \in T : \A m \in T : n <= m
      BY LeastElement
    <2>2. n \in Nat /\ ~D(n) /\ n # 0
      BY <1>1, <2>1
    <2>3. n - 1 \in Nat /\ n - 1 < n /\ (n - 1) + 1 = n
      BY <2>2
    <2>4. D(n - 1)
      BY <2>1, <2>3
    <2> QED BY <1>2, <2>2, <2>3, <2>4
  <1>4. D(Len(s) + 1)
    BY <1>3
  <1>5. PICK g : g = [i \in Nat |-> g[i]] /\ \A i \in Nat : i + (Len(s) + 1) > Len(s) => g[i] = E(g, i)
    BY <1>4 DEF D
  <1>6. \A i \in Nat : g[i] = E(g, i)
    <2> HIDE DEF E
    <2> QED BY <1>5
  <1> QED BY <1>5, <1>6, Zenon DEF Unquoting

\* UrlDecode decodes from the first position on.
LEMMA Unquoted ==
    ASSUME NEW s, Len(s) \in Nat
    PROVE  \E f : Unquoting(f, s) /\ UrlDecode(s) = f[1]
  <1> DEFINE E(f, i) == IF i > Len(s) THEN <<>>
                        ELSE IF s[i] = Percent /\ i + 2 <= Len(s)
                        THEN <<16 * Unhex(s[i + 1]) + Unhex(s[i + 2])>> \o f[i + 3]
                        ELSE <<s[i]>> \o f[i + 1]
             from == CHOOSE f : f = [i \in Nat |-> E(f, i)]
  <1>1. UrlDecode(s) = from[1]
    BY Zenon DEF UrlDecode
  <1>2. PICK g : g = [i \in Nat |-> g[i]] /\ Unquoting(g, s)
    BY UnquotingExists
  <1>3. \A i \in Nat : g[i] = E(g, i)
    BY <1>2, Zenon DEF Unquoting
  <1>4. g = [i \in Nat |-> E(g, i)]
    <2> HIDE DEF E
    <2> QED BY <1>2, <1>3
  <1>5. from = [i \in Nat |-> E(from, i)]
    <2> HIDE DEF E
    <2> QED BY <1>4, Zenon
  <1> HIDE DEF from
  <1>6. \A i \in Nat : from[i] = E(from, i)
    <2> HIDE DEF E
    <2> QED BY <1>5
  <1> QED BY <1>1, <1>6, Zenon DEF Unquoting

\* A hexadecimal digit is read back.
LEMMA HexReadBack ==
    ASSUME NEW d \in 0..15
    PROVE  /\ HexDigit(d) \in Octets /\ HexDigit(d) \notin {Slash, Percent}
           /\ Unhex(HexDigit(d)) = d
  BY SMT DEF HexDigit, Unhex, Octets, Slash, Percent

\* A byte is quoted as itself or as a percent sign and two digits, which are
\* read as the byte.
LEMMA QuotedShape ==
    ASSUME NEW b \in Octets
    PROVE  /\ Quoted(b) \in Seq(Octets)
           /\ \A j \in 1..Len(Quoted(b)) : Quoted(b)[j] # Slash
           /\ \/ Quoted(b) = <<b>> /\ b # Percent
              \/ \E x, y \in Octets : /\ Quoted(b) = <<Percent, x, y>>
                                      /\ 16 * Unhex(x) + Unhex(y) = b
  <1>1. CASE b \in Digits \cup Letters \cup {45, 46, 95, 126}
    <2>1. Quoted(b) = <<b>>
      BY <1>1 DEF Quoted
    <2>2. b # Slash /\ b # Percent
      BY <1>1, SMT DEF Digits, Letters, Slash, Percent
    <2> QED BY <2>1, <2>2
  <1>2. CASE b \notin Digits \cup Letters \cup {45, 46, 95, 126}
    <2> DEFINE x == HexDigit(b \div 16)
               y == HexDigit(b % 16)
    <2>1. b \div 16 \in 0..15 /\ b % 16 \in 0..15 /\ 16 * (b \div 16) + (b % 16) = b
      BY DEF Octets
    <2>2. Quoted(b) = <<Percent, x, y>>
      BY <1>2 DEF Quoted, Escape
    <2>3. /\ x \in Octets /\ y \in Octets /\ x # Slash /\ y # Slash
          /\ Unhex(x) = b \div 16 /\ Unhex(y) = b % 16
      BY <2>1, HexReadBack
    <2>4. Percent \in Octets /\ Percent # Slash
      BY DEF Percent, Slash, Octets
    <2> HIDE DEF x, y
    <2>5. 16 * Unhex(x) + Unhex(y) = b
      BY <2>1, <2>3
    <2> DEFINE q == <<Percent, x, y>>
    <2>6. q \in Seq(Octets) /\ \A j \in 1..Len(q) : q[j] # Slash
      BY <2>3, <2>4
    <2> HIDE DEF q
    <2>7. Quoted(b) = q
      BY <2>2 DEF q
    <2>8. /\ Quoted(b) \in Seq(Octets)
          /\ \A j \in 1..Len(Quoted(b)) : Quoted(b)[j] # Slash
      BY <2>6, <2>7, Zenon
    <2> QED BY <2>2, <2>3, <2>5, <2>8
  <1> QED BY <1>1, <1>2

\* UrlEncode joins the quoted bytes: as many joined parts as bytes, all of them
\* without a slash.
LEMMA EncodedParts ==
    ASSUME NEW s \in Seq(Octets), s # <<>>
    PROVE  \E f : /\ f[1] = Quoted(s[1])
                  /\ \A k \in 2..Len(s) : f[k] = f[k - 1] \o Quoted(s[k])
                  /\ \A k \in 1..Len(s) :
                        f[k] \in Seq(Octets) /\ \A j \in 1..Len(f[k]) : f[k][j] # Slash
                  /\ UrlEncode(s) = f[Len(s)]
  <1> DEFINE n == Len(s)
             p == [i \in 1..n |-> Quoted(s[i])]
  <1>1. n \in Nat \ {0} /\ DOMAIN s = 1..n /\ \A i \in 1..n : s[i] \in Octets
    BY EmptySeq, LenProperties, ElementOfSeq
  <1>2. \A i \in 1..n : p[i] = Quoted(s[i])
    OBVIOUS
  <1>3. UrlEncode(s) = FlattenSeq(p)
    BY <1>1, Zenon DEF UrlEncode, Quoted
  <1>4. p \in Seq(Seq(Octets)) /\ Len(p) = n
    <2>1. \A i \in 1..n : p[i] \in Seq(Octets)
      <3> HIDE DEF p
      <3> QED BY <1>1, <1>2, QuotedShape
    <2>2. p \in [1..n -> Seq(Octets)]
      BY <2>1
    <2> HIDE DEF p
    <2>3. p \in Seq(Seq(Octets))
      BY <1>1, <2>2
    <2> QED BY <1>1, <2>2, <2>3, LenProperties
  <1> HIDE DEF p
  <1>5. PICK f : Joining(f, p) /\ FlattenSeq(p) = f[Len(p)]
    BY <1>1, <1>4, Flattened
  <1>6. f[1] = Quoted(s[1]) /\ \A k \in 2..n : f[k] = f[k - 1] \o Quoted(s[k])
    <2>1. \A i \in 1..n : f[i] = IF i = 1 THEN p[i] ELSE f[i - 1] \o p[i]
      BY <1>4, <1>5 DEF Joining
    <2>2. 1 \in 1..n /\ \A k \in 2..n : k \in 1..n /\ k # 1
      BY <1>1
    <2> HIDE DEF n
    <2> QED BY <1>2, <2>1, <2>2
  <1> DEFINE Good(k) == f[k] \in Seq(Octets) /\ \A j \in 1..Len(f[k]) : f[k][j] # Slash
             T == {k \in 1..n : ~Good(k)}
  <1>7. Good(1)
    <2>1. s[1] \in Octets
      BY <1>1
    <2> QED BY <1>6, <2>1, QuotedShape
  <1>8. ASSUME NEW k \in 2..n, Good(k - 1) PROVE Good(k)
    <2> DEFINE a == f[k - 1]
               b == Quoted(s[k])
    <2>1. k \in 1..n
      BY <1>1
    <2>2. b \in Seq(Octets) /\ \A j \in 1..Len(b) : b[j] # Slash
      BY <1>1, <2>1, QuotedShape
    <2>3. a \in Seq(Octets) /\ \A j \in 1..Len(a) : a[j] # Slash
      BY <1>8
    <2>4. f[k] = a \o b
      BY <1>6
    <2> HIDE DEF a, b
    <2>5. /\ a \o b \in Seq(Octets) /\ Len(a \o b) = Len(a) + Len(b)
          /\ \A j \in 1..(Len(a) + Len(b)) : (a \o b)[j] = IF j <= Len(a) THEN a[j] ELSE b[j - Len(a)]
          /\ Len(a) \in Nat /\ Len(b) \in Nat
      BY <2>2, <2>3, ConcatProperties, LenProperties
    <2>6. \A j \in 1..(Len(a) + Len(b)) : (a \o b)[j] # Slash
      BY <2>2, <2>3, <2>5
    <2> QED BY <2>4, <2>5, <2>6
  <1> HIDE DEF Good
  <1>9. T = {}
    <2> SUFFICES ASSUME T # {} PROVE FALSE
      OBVIOUS
    <2>1. PICK k \in T : \A m \in T : k <= m
      <3>1. T \in SUBSET Nat
        BY <1>1
      <3> QED BY <3>1, LeastElement
    <2>2. k \in 2..n /\ k - 1 \in 1..n /\ k - 1 < k /\ ~Good(k)
      BY <1>1, <1>7, <2>1
    <2>3. Good(k - 1)
      BY <2>1, <2>2
    <2> QED BY <1>8, <2>2, <2>3
  <1>10. \A k \in 1..n : Good(k)
    BY <1>9
  <1> QED BY <1>3, <1>4, <1>5, <1>6, <1>10 DEF Good

\* The URL of a key has no slash in it.
LEMMA EncodedNoSlash ==
    ASSUME NEW s \in Seq(Octets)
    PROVE  /\ UrlEncode(s) \in Seq(Octets)
           /\ \A j \in 1..Len(UrlEncode(s)) : UrlEncode(s)[j] # Slash
  <1>1. CASE s # <<>>
    <2>1. PICK f : /\ f[1] = Quoted(s[1])
                   /\ \A k \in 2..Len(s) : f[k] = f[k - 1] \o Quoted(s[k])
                   /\ \A k \in 1..Len(s) :
                         f[k] \in Seq(Octets) /\ \A j \in 1..Len(f[k]) : f[k][j] # Slash
                   /\ UrlEncode(s) = f[Len(s)]
      BY <1>1, EncodedParts
    <2>2. Len(s) \in 1..Len(s)
      BY <1>1, EmptySeq
    <2> QED BY <2>1, <2>2
  <1>2. CASE s = <<>>
    <2>1. UrlEncode(s) = <<>>
      <3> DEFINE p == [i \in DOMAIN s |-> Quoted(s[i])]
      <3>1. UrlEncode(s) = FlattenSeq(p)
        BY Zenon DEF UrlEncode, Quoted
      <3>2. p = <<>>
        BY <1>2
      <3>3. FlattenSeq(<<>>) = <<>>
        BY DEF FlattenSeq
      <3> QED BY <3>1, <3>2, <3>3
    <2> QED BY <2>1
  <1> QED BY <1>1, <1>2

\* A quoted byte that stands in a URL is read as the byte, by a step over it.
LEMMA ByteUnquoted ==
    ASSUME NEW b \in Octets, NEW q, NEW i, StandsAt(Quoted(b), q, i), NEW f, Unquoting(f, q)
    PROVE  f[i] = <<b>> \o f[i + Len(Quoted(b))]
  <1>1. /\ i \in Nat \ {0} /\ q \in Seq(Octets) /\ i + Len(Quoted(b)) - 1 <= Len(q)
        /\ \A j \in 1..Len(Quoted(b)) : q[i + j - 1] = Quoted(b)[j]
    BY DEF StandsAt
  <1>2. Len(q) \in Nat
    BY <1>1, LenProperties
  <1>3. f[i] = IF i > Len(q) THEN <<>>
               ELSE IF q[i] = Percent /\ i + 2 <= Len(q)
               THEN <<16 * Unhex(q[i + 1]) + Unhex(q[i + 2])>> \o f[i + 3]
               ELSE <<q[i]>> \o f[i + 1]
    BY <1>1, Zenon DEF Unquoting
  <1>4. CASE Quoted(b) = <<b>> /\ b # Percent
    <2>1. Len(Quoted(b)) = 1 /\ Quoted(b)[1] = b
      BY <1>4
    <2>2. i <= Len(q) /\ q[i] = b /\ i + Len(Quoted(b)) = i + 1
      <3>1. 1 \in 1..1 /\ i + 1 - 1 = i
        BY <1>1
      <3> QED BY <1>1, <1>2, <2>1, <3>1
    <2>3. ~(i > Len(q))
      BY <1>1, <1>2, <2>2
    <2> QED BY <1>3, <1>4, <2>2, <2>3, Zenon
  <1>5. CASE \E x, y \in Octets : Quoted(b) = <<Percent, x, y>> /\ 16 * Unhex(x) + Unhex(y) = b
    <2>1. PICK x, y \in Octets : Quoted(b) = <<Percent, x, y>> /\ 16 * Unhex(x) + Unhex(y) = b
      BY <1>5
    <2>2. /\ Len(Quoted(b)) = 3 /\ Quoted(b)[1] = Percent /\ Quoted(b)[2] = x
          /\ Quoted(b)[3] = y
      BY <2>1
    <2>3. q[i] = Percent /\ q[i + 1] = x /\ q[i + 2] = y
      <3>1. 1 \in 1..3 /\ 2 \in 1..3 /\ 3 \in 1..3 /\ i + 1 - 1 = i /\ i + 2 - 1 = i + 1 /\ i + 3 - 1 = i + 2
        BY <1>1
      <3> QED BY <1>1, <2>2, <3>1
    <2>4. ~(i > Len(q)) /\ i + 2 <= Len(q) /\ i + Len(Quoted(b)) = i + 3
      BY <1>1, <1>2, <2>2
    <2> QED BY <1>3, <2>1, <2>3, <2>4, Zenon
  <1> QED BY <1>4, <1>5, QuotedShape

\* urllib.parse.quote() and unquote(): every key is read back from its URL.
THEOREM UrlRoundTrip == ASSUME NEW s \in Seq(Octets) PROVE UrlDecode(UrlEncode(s)) = s
  <1> DEFINE q == UrlEncode(s)
             n == Len(s)
  <1>1. q \in Seq(Octets) /\ Len(q) \in Nat /\ n \in Nat
    BY EncodedNoSlash, LenProperties
  <1>2. PICK g : Unquoting(g, q) /\ UrlDecode(q) = g[1]
    BY <1>1, Unquoted
  <1>3. \A i \in Nat : i > Len(q) => g[i] = <<>>
    BY <1>2, Zenon DEF Unquoting
  <1>4. CASE s = <<>>
    <2>1. q = <<>>
      <3> DEFINE p == [i \in DOMAIN s |-> Quoted(s[i])]
      <3>1. q = FlattenSeq(p)
        BY Zenon DEF UrlEncode, Quoted
      <3>2. p = <<>>
        BY <1>4
      <3>3. FlattenSeq(<<>>) = <<>>
        BY DEF FlattenSeq
      <3> QED BY <3>1, <3>2, <3>3
    <2> HIDE DEF q
    <2>2. Len(q) = 0 /\ 1 > 0
      BY <2>1
    <2>3. g[1] = <<>>
      BY <1>3, <2>2
    <2> QED BY <1>2, <1>4, <2>3 DEF q
  <1>5. CASE s # <<>>
    <2>1. PICK f : /\ f[1] = Quoted(s[1])
                   /\ \A k \in 2..Len(s) : f[k] = f[k - 1] \o Quoted(s[k])
                   /\ \A k \in 1..Len(s) :
                         f[k] \in Seq(Octets) /\ \A j \in 1..Len(f[k]) : f[k][j] # Slash
                   /\ UrlEncode(s) = f[Len(s)]
      BY <1>5, EncodedParts
    <2>2. n \in Nat \ {0} /\ \A k \in 1..n : s[k] \in Octets
      BY <1>5, EmptySeq, ElementOfSeq
    <2> DEFINE R(m) == SubSeq(s, (n - m) + 1, n)
               P(m) == StandsAt(f[n - m], q, 1) /\ g[Len(f[n - m]) + 1] = R(m)
               T == {m \in 0..(n - 1) : ~P(m)}
    <2>3. P(0)
      <3>1. q = f[n] /\ n - 0 = n
        BY <2>1, <2>2
      <3>2. StandsAt(q, q, 1)
        BY <1>1 DEF StandsAt
      <3>3. g[Len(q) + 1] = <<>>
        BY <1>1, <1>3
      <3>4. R(0) = <<>>
        BY <2>2, SubSeqEmpty
      <3> HIDE DEF R, q
      <3> QED BY <3>1, <3>2, <3>3, <3>4
    <2>4. ASSUME NEW k \in 1..n, NEW before \in Seq(Octets), before \o Quoted(s[k]) = f[k],
                 StandsAt(f[k], q, 1), g[Len(f[k]) + 1] = SubSeq(s, k + 1, n)
          PROVE  StandsAt(before, q, 1) /\ g[Len(before) + 1] = SubSeq(s, k, n)
      <3> DEFINE b == Quoted(s[k])
      <3>1. b \in Seq(Octets) /\ s[k] \in Octets
        BY <2>2, QuotedShape
      <3>2. StandsAt(before, q, 1) /\ StandsAt(b, q, 1 + Len(before))
        <4> HIDE DEF b, q
        <4> QED BY <2>4, <3>1, StandsParts DEF b
      <3>3. Len(before) \in Nat /\ Len(b) \in Nat /\ Len(f[k]) = Len(before) + Len(b)
        <4>1. Len(before \o b) = Len(before) + Len(b)
          BY <3>1, ConcatProperties
        <4> QED BY <2>4, <3>1, <4>1, LenProperties
      <3>4. g[1 + Len(before)] = <<s[k]>> \o g[(1 + Len(before)) + Len(b)]
        <4> DEFINE i == 1 + Len(before)
        <4>1. StandsAt(Quoted(s[k]), q, i) /\ s[k] \in Octets /\ Unquoting(g, q)
          BY <1>2, <3>1, <3>2
        <4> HIDE DEF q, i
        <4>2. g[i] = <<s[k]>> \o g[i + Len(Quoted(s[k]))]
          BY <4>1, ByteUnquoted, Zenon
        <4> QED BY <4>2 DEF i
      <3> HIDE DEF b, q
      <3>5. 1 + Len(before) = Len(before) + 1 /\ (1 + Len(before)) + Len(b) = Len(f[k]) + 1
        BY <3>3
      <3>6. g[Len(before) + 1] = <<s[k]>> \o SubSeq(s, k + 1, n)
        BY <2>4, <3>4, <3>5
      <3>7. <<s[k]>> \o SubSeq(s, k + 1, n) = SubSeq(s, k, n)
        <4> DEFINE t == SubSeq(s, k + 1, n)
                   u == SubSeq(s, k, n)
                   v == <<s[k]>>
        <4>1. t \in Seq(Octets) /\ Len(t) = n - k /\ \A i \in 1..(n - k) : t[i] = s[k + i]
          <5>1. \A i \in (k + 1)..n : s[i] \in Octets
            BY <2>2
          <5>2. /\ t \in Seq(Octets) /\ Len(t) = IF k + 1 <= n THEN n - (k + 1) + 1 ELSE 0
                /\ \A i \in 1..(n - (k + 1) + 1) : t[i] = s[(k + 1) + i - 1]
            BY <2>2, <5>1, SubSeqProperties
          <5> HIDE DEF t
          <5> QED BY <2>2, <5>2
        <4>2. u \in Seq(Octets) /\ Len(u) = n - k + 1 /\ \A i \in 1..(n - k + 1) : u[i] = s[k + i - 1]
          <5>1. \A i \in k..n : s[i] \in Octets
            BY <2>2
          <5> QED BY <2>2, <5>1, SubSeqProperties
        <4>3. v \in Seq(Octets) /\ Len(v) = 1 /\ v[1] = s[k]
          BY <3>1
        <4> HIDE DEF t, u, v
        <4>4. /\ v \o t \in Seq(Octets) /\ Len(v \o t) = 1 + Len(t)
              /\ \A i \in 1..(1 + Len(t)) : (v \o t)[i] = IF i <= 1 THEN v[i] ELSE t[i - 1]
          <5>1. /\ v \o t \in Seq(Octets) /\ Len(v \o t) = Len(v) + Len(t)
                /\ \A i \in 1..(Len(v) + Len(t)) :
                      (v \o t)[i] = IF i <= Len(v) THEN v[i] ELSE t[i - Len(v)]
            BY <4>1, <4>3, ConcatProperties
          <5> QED BY <4>3, <5>1
        <4>5. Len(v \o t) = Len(u) /\ \A i \in 1..Len(v \o t) : (v \o t)[i] = u[i]
          <5>1. Len(v \o t) = n - k + 1 /\ Len(u) = n - k + 1
            BY <2>2, <4>1, <4>2, <4>4
          <5>2. ASSUME NEW i \in 1..(n - k + 1) PROVE (v \o t)[i] = u[i]
            <6>1. CASE i = 1
              <7>1. 1 \in 1..(n - k + 1) /\ k + 1 - 1 = k
                BY <2>2
              <7>2. u[1] = s[k + 1 - 1]
                BY <4>2, <7>1
              <7>3. (v \o t)[1] = v[1]
                BY <4>4, <5>1, <7>1
              <7> QED BY <4>3, <6>1, <7>1, <7>2, <7>3, Zenon
            <6>2. CASE i # 1
              <7>1. i - 1 \in 1..(n - k) /\ k + (i - 1) = k + i - 1 /\ ~(i <= 1)
                BY <2>2, <6>2
              <7>2. (v \o t)[i] = t[i - 1]
                BY <4>4, <5>1, <7>1
              <7>3. t[i - 1] = s[k + (i - 1)]
                BY <4>1, <7>1
              <7> QED BY <4>2, <7>1, <7>2, <7>3
            <6> QED BY <6>1, <6>2
          <5> QED BY <5>1, <5>2
        <4>6. v \o t = u
          BY <4>2, <4>4, <4>5, SeqEqual
        <4> QED BY <4>6 DEF t, u, v
      <3> QED BY <3>2, <3>6, <3>7
    <2>5. ASSUME NEW m \in 0..(n - 2), P(m) PROVE P(m + 1)
      <3> DEFINE k == n - m
      <3>1. k \in 2..n /\ k \in 1..n /\ k - 1 \in 1..n /\ n - (m + 1) = k - 1 /\ (k - 1) + 1 = k
        BY <2>2
      <3>2. f[k - 1] \in Seq(Octets) /\ f[k - 1] \o Quoted(s[k]) = f[k]
        BY <2>1, <3>1
      <3>3. StandsAt(f[k], q, 1) /\ g[Len(f[k]) + 1] = SubSeq(s, k + 1, n)
        BY <2>5
      <3> HIDE DEF k, q
      <3>4. StandsAt(f[k - 1], q, 1) /\ g[Len(f[k - 1]) + 1] = SubSeq(s, k, n)
        BY <2>4, <3>1, <3>2, <3>3
      <3> QED BY <3>1, <3>4
    <2> HIDE DEF P
    <2>6. T = {}
      <3> SUFFICES ASSUME T # {} PROVE FALSE
        OBVIOUS
      <3>1. T \in SUBSET Nat
        BY <2>2
      <3>2. PICK m \in T : \A j \in T : m <= j
        BY <3>1, LeastElement
      <3>3. m \in 0..(n - 1) /\ m # 0 /\ ~P(m)
        BY <2>3, <3>2
      <3>4. m - 1 \in 0..(n - 2) /\ m - 1 \in 0..(n - 1) /\ m - 1 < m /\ (m - 1) + 1 = m
        BY <2>2, <3>3
      <3>5. P(m - 1)
        BY <3>2, <3>4
      <3> QED BY <2>5, <3>3, <3>4, <3>5
    <2>7. P(n - 1)
      <3>1. n - 1 \in 0..(n - 1)
        BY <2>2
      <3> QED BY <2>6, <3>1
    <2>8. StandsAt(f[1], q, 1) /\ g[Len(f[1]) + 1] = SubSeq(s, 1 + 1, n)
      <3>1. n - (n - 1) = 1 /\ (n - (n - 1)) + 1 = 1 + 1
        BY <2>2
      <3> HIDE DEF q, n
      <3> QED BY <2>7, <3>1 DEF P
    <2>9. <<>> \in Seq(Octets) /\ <<>> \o Quoted(s[1]) = f[1] /\ 1 \in 1..n /\ Len(<<>>) = 0
      <3>1. Quoted(s[1]) \in Seq(Octets)
        BY <2>2, QuotedShape
      <3> QED BY <2>1, <2>2, <3>1, ConcatEmptySeq
    <2>10. g[Len(<<>>) + 1] = SubSeq(s, 1, n)
      <3> HIDE DEF q, n
      <3> QED BY <2>4, <2>8, <2>9
    <2>11. g[1] = s
      BY <2>9, <2>10, SubSeqFull
    <2> QED BY <1>2, <2>11
  <1> QED BY <1>4, <1>5

\* strip() cuts off the blanks at both ends: what is left begins and ends with
\* another character, and what is cut off has none.
LEMMA StripCut ==
    ASSUME NEW s \in Seq(Octets)
    PROVE  \/ Strip(s) = <<>> /\ \A i \in 1..Len(s) : s[i] \in Blanks
           \/ \E a, b \in 1..Len(s) :
                 /\ a <= b /\ Strip(s) = SubSeq(s, a, b)
                 /\ s[a] \notin Blanks /\ s[b] \notin Blanks
                 /\ \A i \in 1..Len(s) : s[i] \notin Blanks => a <= i /\ i <= b
  <1> DEFINE n == Len(s)
             I == {i \in 1..n : s[i] \notin Blanks}
  <1>1. n \in Nat /\ DOMAIN s = 1..n
    BY LenProperties
  <1>2. Strip(s) = IF I = {} THEN <<>> ELSE SubSeq(s, Min(I), Max(I))
    BY <1>1, Zenon DEF Strip
  <1>3. CASE I = {}
    <2>1. \A i \in 1..n : s[i] \in Blanks
      BY <1>3
    <2> HIDE DEF I
    <2> QED BY <1>2, <1>3, <2>1
  <1>4. CASE I # {}
    <2> DEFINE a == Min(I)
               b == Max(I)
    <2>1. I \in SUBSET (1..n)
      OBVIOUS
    <2>2. a \in I /\ b \in I /\ \A i \in I : a <= i /\ b >= i
      <3> HIDE DEF I, n
      <3>1. a \in I /\ \A i \in I : a <= i
        BY <1>1, <1>4, <2>1, FirstPosition
      <3>2. b \in I /\ \A i \in I : b >= i
        BY <1>1, <1>4, <2>1, LastPosition
      <3> QED BY <3>1, <3>2
    <2>3. Strip(s) = SubSeq(s, a, b)
      BY <1>2, <1>4
    <2> HIDE DEF a, b
    <2>4. a \in 1..n /\ b \in 1..n /\ a <= b /\ s[a] \notin Blanks /\ s[b] \notin Blanks
      BY <1>1, <2>2
    <2>5. \A i \in 1..n : s[i] \notin Blanks => a <= i /\ i <= b
      <3>1. \A i \in 1..n : s[i] \notin Blanks => i \in I
        OBVIOUS
      <3> HIDE DEF I
      <3> QED BY <1>1, <2>2, <2>4, <3>1
    <2> HIDE DEF I, n
    <2> QED BY <2>3, <2>4, <2>5 DEF n
  <1> QED BY <1>3, <1>4

\* What is left is a part of the string.
LEMMA StripPart ==
    ASSUME NEW s \in Seq(Octets), NEW a \in 1..Len(s), NEW b \in 1..Len(s), a <= b
    PROVE  LET t == SubSeq(s, a, b)
           IN  /\ t \in Seq(Octets) /\ Len(t) = b - a + 1
               /\ \A i \in 1..(b - a + 1) : t[i] = s[a + i - 1]
  <1>1. Len(s) \in Nat /\ \A i \in 1..Len(s) : s[i] \in Octets
    BY LenProperties, ElementOfSeq
  <1>2. \A i \in a..b : s[i] \in Octets
    BY <1>1
  <1>3. a \in Int /\ b \in Int
    BY <1>1
  <1> QED BY <1>2, <1>3, SubSeqProperties

\* Stripping twice is stripping once.
LEMMA StripTwice ==
    ASSUME NEW s \in Seq(Octets)
    PROVE  Strip(s) \in Seq(Octets) /\ Strip(Strip(s)) = Strip(s)
  <1> DEFINE t == Strip(s)
  <1>1. CASE t = <<>>
    <2>1. <<>> \in Seq(Octets) /\ Len(<<>>) = 0
      OBVIOUS
    <2>2. Strip(<<>>) = <<>>
      <3>1. ~\E a \in 1..Len(<<>>) : TRUE
        BY <2>1
      <3> QED BY <2>1, <3>1, StripCut
    <2> QED BY <1>1, <2>1, <2>2
  <1>2. ASSUME NEW a \in 1..Len(s), NEW b \in 1..Len(s), a <= b, t = SubSeq(s, a, b),
               s[a] \notin Blanks, s[b] \notin Blanks
        PROVE  t \in Seq(Octets) /\ Strip(t) = t
    <2>1. /\ t \in Seq(Octets) /\ Len(t) = b - a + 1
          /\ \A i \in 1..(b - a + 1) : t[i] = s[a + i - 1]
      BY <1>2, StripPart
    <2> HIDE DEF t
    <2>2. Len(s) \in Nat
      BY LenProperties
    <2>3. 1 \in 1..Len(t) /\ Len(t) \in 1..Len(t)
      BY <1>2, <2>1, <2>2
    <2>4. t[1] \notin Blanks /\ t[Len(t)] \notin Blanks
      <3>1. a + 1 - 1 = a /\ a + (b - a + 1) - 1 = b
        BY <2>2
      <3> QED BY <1>2, <2>1, <2>3, <3>1
    <2>5. PICK x, y \in 1..Len(t) :
                 /\ x <= y /\ Strip(t) = SubSeq(t, x, y)
                 /\ t[x] \notin Blanks /\ t[y] \notin Blanks
                 /\ \A i \in 1..Len(t) : t[i] \notin Blanks => x <= i /\ i <= y
      BY <2>1, <2>3, <2>4, StripCut
    <2>6. x = 1 /\ y = Len(t)
      <3>1. x <= 1 /\ Len(t) <= y
        BY <2>3, <2>4, <2>5
      <3> QED BY <2>1, <2>2, <2>5, <3>1
    <2>7. SubSeq(t, 1, Len(t)) = t
      BY <2>1, SubSeqFull
    <2> QED BY <2>1, <2>5, <2>6, <2>7
  <1> HIDE DEF t
  <1>3. t = <<>> \/ \E a, b \in 1..Len(s) :
                       /\ a <= b /\ t = SubSeq(s, a, b)
                       /\ s[a] \notin Blanks /\ s[b] \notin Blanks
                       /\ \A i \in 1..Len(s) : s[i] \notin Blanks => a <= i /\ i <= b
    BY StripCut DEF t
  <1> QED BY <1>1, <1>2, <1>3 DEF t

\* Neither end of a double colon is cut off.
LEMMA StripKeepsColons ==
    ASSUME NEW s \in Seq(Octets)
    PROVE  HasDoubleColon(Strip(s)) <=> HasDoubleColon(s)
  <1>1. Colon \notin Blanks /\ Len(s) \in Nat
    BY LenProperties, SMT DEF Colon, Blanks
  <1>2. CASE Strip(s) = <<>> /\ \A i \in 1..Len(s) : s[i] \in Blanks
    <2>1. ~HasDoubleColon(Strip(s))
      <3>1. Len(Strip(s)) = 0
        BY <1>2
      <3> QED BY <3>1 DEF HasDoubleColon
    <2>2. ~HasDoubleColon(s)
      BY <1>1, <1>2 DEF HasDoubleColon
    <2> QED BY <2>1, <2>2
  <1>3. ASSUME NEW a \in 1..Len(s), NEW b \in 1..Len(s), a <= b, Strip(s) = SubSeq(s, a, b),
               \A i \in 1..Len(s) : s[i] \notin Blanks => a <= i /\ i <= b
        PROVE  HasDoubleColon(Strip(s)) <=> HasDoubleColon(s)
    <2> DEFINE t == Strip(s)
    <2>1. Len(t) = b - a + 1 /\ \A i \in 1..(b - a + 1) : t[i] = s[a + i - 1]
      BY <1>3, StripPart
    <2> HIDE DEF t
    <2>2. ASSUME HasDoubleColon(t) PROVE HasDoubleColon(s)
      <3>1. PICK i \in 1..(Len(t) - 1) : t[i] = Colon /\ t[i + 1] = Colon
        BY <2>2 DEF HasDoubleColon
      <3> DEFINE j == a + i - 1
      <3>2. /\ j \in 1..(Len(s) - 1) /\ j + 1 = a + (i + 1) - 1
            /\ i \in 1..(b - a + 1) /\ i + 1 \in 1..(b - a + 1)
        BY <1>1, <1>3, <2>1
      <3>3. t[i] = s[j] /\ t[i + 1] = s[j + 1]
        <4>1. t[i] = s[a + i - 1]
          BY <2>1, <3>2
        <4>2. t[i + 1] = s[a + (i + 1) - 1]
          BY <2>1, <3>2
        <4> QED BY <3>2, <4>1, <4>2, Zenon
      <3> HIDE DEF j
      <3> QED BY <3>1, <3>2, <3>3 DEF HasDoubleColon
    <2>3. ASSUME HasDoubleColon(s) PROVE HasDoubleColon(t)
      <3>1. PICK j \in 1..(Len(s) - 1) : s[j] = Colon /\ s[j + 1] = Colon
        BY <2>3 DEF HasDoubleColon
      <3>2. a <= j /\ j + 1 <= b
        <4>1. j \in 1..Len(s) /\ j + 1 \in 1..Len(s)
          BY <1>1
        <4>2. a <= j /\ j + 1 <= b
          BY <1>1, <1>3, <3>1, <4>1
        <4> QED BY <4>2
      <3> DEFINE i == j - a + 1
      <3>3. /\ i \in 1..(Len(t) - 1) /\ a + i - 1 = j /\ a + (i + 1) - 1 = j + 1
            /\ i \in 1..(b - a + 1) /\ i + 1 \in 1..(b - a + 1)
        BY <1>1, <1>3, <2>1, <3>2
      <3> HIDE DEF i
      <3>4. t[i] = s[j] /\ t[i + 1] = s[j + 1]
        BY <2>1, <3>3
      <3> QED BY <3>1, <3>3, <3>4 DEF HasDoubleColon
    <2> QED BY <2>2, <2>3 DEF t
  <1> QED BY <1>2, <1>3, StripCut

\* The position of the first slash in the URL of a key, alone and with the
\* suffix of incr().
LEMMA SlashFound ==
    ASSUME NEW k \in Seq(Octets)
    PROVE  LET u == UrlEncode(k)
               p == u \o IncrSuffix
           IN  /\ SelectInSeq(u, LAMBDA b : b = Slash) = 0
               /\ SelectInSeq(p, LAMBDA b : b = Slash) = Len(u) + 1 /\ Len(u) \in Nat
               /\ SubSeq(p, 1, Len(u)) = u
               /\ SubSeq(p, Len(u) + 1, Len(p)) = IncrSuffix
  <1> DEFINE u == UrlEncode(k)
             x == IncrSuffix
             p == u \o x
             n == Len(u)
             I == {i \in 1..Len(u) : u[i] = Slash}
             J == {i \in 1..Len(p) : p[i] = Slash}
  <1>1. u \in Seq(Octets) /\ n \in Nat /\ \A j \in 1..n : u[j] # Slash
    BY EncodedNoSlash, LenProperties
  <1>2. x \in Seq(Octets) /\ Len(x) = 5 /\ x[1] = Slash
    BY DEF IncrSuffix, Slash, Octets
  <1> HIDE DEF u, x
  <1>3. /\ p \in Seq(Octets) /\ Len(p) = n + 5
        /\ \A i \in 1..(n + 5) : p[i] = IF i <= n THEN u[i] ELSE x[i - n]
    <2>1. /\ p \in Seq(Octets) /\ Len(p) = Len(u) + Len(x)
          /\ \A i \in 1..(Len(u) + Len(x)) : p[i] = IF i <= Len(u) THEN u[i] ELSE x[i - Len(u)]
      BY <1>1, <1>2, ConcatProperties
    <2> HIDE DEF p
    <2> QED BY <1>2, <2>1
  <1>4. I = {}
    BY <1>1
  <1>5. SelectInSeq(u, LAMBDA b : b = Slash) = 0
    BY <1>4, Zenon DEF SelectInSeq
  <1>6. StandsAt(u, p, 1) /\ StandsAt(x, p, 1 + n)
    <2>1. StandsAt(p, p, 1)
      BY <1>1, <1>3 DEF StandsAt
    <2> QED BY <1>1, <1>2, <2>1, StandsParts
  <1> HIDE DEF p
  <1>7. n + 1 \in J /\ \A i \in J : n + 1 <= i
    <2>1. n + 1 \in 1..Len(p) /\ p[n + 1] = x[1]
      <3>1. n + 1 \in 1..(n + 5) /\ ~(n + 1 <= n) /\ (n + 1) - n = 1
        BY <1>1
      <3> QED BY <1>3, <3>1
    <2>2. ASSUME NEW i \in J PROVE n + 1 <= i
      <3> SUFFICES ASSUME i <= n PROVE FALSE
        BY <1>1, <1>3
      <3>1. i \in 1..n /\ p[i] = u[i] /\ p[i] = Slash
        BY <1>1, <1>3
      <3> QED BY <1>1, <3>1
    <2> QED BY <1>2, <2>1, <2>2
  <1>8. SelectInSeq(p, LAMBDA b : b = Slash) = n + 1
    <2>1. J # {} /\ J \in SUBSET (1..Len(p)) /\ Len(p) \in Nat
      BY <1>1, <1>3, <1>7
    <2>2. SelectInSeq(p, LAMBDA b : b = Slash) = Min(J)
      BY <2>1, Zenon DEF SelectInSeq
    <2> HIDE DEF J
    <2> DEFINE m == Min(J)
    <2>3. m \in J /\ \A y \in J : m <= y
      BY <2>1, FirstPosition
    <2> HIDE DEF m
    <2>4. m <= n + 1 /\ n + 1 <= m /\ m \in Nat
      <3>1. m \in 1..Len(p)
        BY <2>1, <2>3
      <3> QED BY <1>7, <2>3, <3>1
    <2>5. m = n + 1
      BY <1>1, <2>4
    <2> QED BY <2>2, <2>5 DEF m
  <1>9. SubSeq(p, 1, n) = u
    <2>1. SubSeq(p, 1, 1 + n - 1) = u
      BY <1>1, <1>6, StandsCut
    <2>2. 1 + n - 1 = n
      BY <1>1
    <2> QED BY <2>1, <2>2
  <1>10. SubSeq(p, n + 1, Len(p)) = x
    <2>1. SubSeq(p, 1 + n, 1 + n + Len(x) - 1) = x
      BY <1>2, <1>6, StandsCut
    <2>2. 1 + n = n + 1 /\ 1 + n + Len(x) - 1 = Len(p)
      BY <1>1, <1>2, <1>3
    <2> QED BY <2>1, <2>2
  <1> QED BY <1>1, <1>5, <1>8, <1>9, <1>10, Zenon DEF p, u, x

\* How the server reads a request with a route of its own.
LEMMA ParsePlain ==
    ASSUME NEW q, q.route # "key"
    PROVE  ParseHttp(q) = [op |-> q.route, key |-> q.body, value |-> <<>>,
                           delta |-> q.delta, ttl |-> q.ttl, ns |-> q.ns]
  BY Zenon DEF ParseHttp

\* The same for the key of a request that is not an increment.
LEMMA ParseKey ==
    ASSUME NEW q, NEW k \in Seq(Octets), q.route = "key", q.path = UrlEncode(k),
           q.nx <=> q.method = "POST"
    PROVE  ParseHttp(q) = [op |-> KeyOps[q.method], key |-> k, value |-> q.body,
                           delta |-> q.delta, ttl |-> q.ttl, ns |-> q.ns]
  <1>1. SelectInSeq(q.path, LAMBDA b : b = Slash) = 0
    BY SlashFound, Zenon
  <1>2. UrlDecode(q.path) = k
    BY UrlRoundTrip
  <1>3. <<>> # IncrSuffix
    BY DEF IncrSuffix
  <1> QED BY <1>1, <1>2, <1>3, Zenon DEF ParseHttp

\* The same for an increment: the suffix is taken off the key.
LEMMA ParseIncr ==
    ASSUME NEW q, NEW k \in Seq(Octets), q.route = "key", q.method = "POST", ~q.nx,
           q.path = UrlEncode(k) \o IncrSuffix
    PROVE  ParseHttp(q) = [op |-> "incr", key |-> k, value |-> q.body,
                           delta |-> q.delta, ttl |-> q.ttl, ns |-> q.ns]
  <1> DEFINE u == UrlEncode(k)
             n == Len(u)
  <1>1. /\ SelectInSeq(q.path, LAMBDA b : b = Slash) = n + 1 /\ n \in Nat
        /\ SubSeq(q.path, 1, n) = u /\ SubSeq(q.path, n + 1, Len(q.path)) = IncrSuffix
    BY SlashFound, Zenon
  <1>2. UrlDecode(u) = k
    BY UrlRoundTrip
  <1> HIDE DEF u, n
  <1>3. n + 1 # 0 /\ (n + 1) - 1 = n
    BY <1>1
  <1>4. IncrSuffix # <<>>
    BY DEF IncrSuffix
  <1> QED BY <1>1, <1>2, <1>3, <1>4, Zenon DEF ParseHttp

\* What the server reads of a call over HTTP.
HttpRead(c) ==
    [op |-> c.op, key |-> c.key, value |-> c.value, delta |-> c.delta,
     ttl |-> PositiveTtl(c.ttl), ns |-> NamespaceHeaders(c.ns)]

\* Every request over HTTP is read as what it was made from, when the arguments
\* that its operation does not take are empty.
THEOREM HttpRoundTrip ==
    ASSUME NEW c, c.key \in Seq(Octets),
           c.op \in {"ping", "stats", "get", "delete", "set", "set_nx", "incr",
                     "delete_by_pattern", "set_ttl_by_pattern"},
           c.op \in {"ping", "stats"} => c.key = <<>>,
           c.op \notin {"set", "set_nx"} => c.value = <<>>,
           c.op # "incr" => c.delta = 0
    PROVE  ParseHttp(HttpRequest(c)) = HttpRead(c)
  <1> DEFINE q == HttpRequest(c)
             u == UrlEncode(c.key)
             t == PositiveTtl(c.ttl)
             n == NamespaceHeaders(c.ns)
  <1> HIDE DEF u, t, n
  <1>1. CASE c.op \in {"ping", "stats"}
    <2>1. q = [method |-> "GET", route |-> c.op, path |-> <<>>, nx |-> FALSE, ttl |-> t,
               ns |-> n, body |-> <<>>, delta |-> 0]
      BY <1>1 DEF HttpRequest, Request, t, n
    <2> HIDE DEF q
    <2>2. /\ q.route = c.op /\ q.route # "key" /\ q.body = c.key /\ q.delta = c.delta
          /\ q.ttl = t /\ q.ns = n /\ c.value = <<>>
      BY <1>1, <2>1
    <2> QED BY <2>2, ParsePlain DEF HttpRead, t, n, q
  <1>2. CASE c.op \in {"delete_by_pattern", "set_ttl_by_pattern"}
    <2>1. q = [method |-> "POST", route |-> c.op, path |-> <<>>, nx |-> FALSE, ttl |-> t,
               ns |-> n, body |-> c.key, delta |-> 0]
      BY <1>2 DEF HttpRequest, Request, t, n
    <2> HIDE DEF q
    <2>2. /\ q.route = c.op /\ q.route # "key" /\ q.body = c.key /\ q.delta = c.delta
          /\ q.ttl = t /\ q.ns = n /\ c.value = <<>>
      BY <1>2, <2>1
    <2> QED BY <2>2, ParsePlain DEF HttpRead, t, n, q
  <1>3. CASE c.op \in {"get", "delete", "set", "set_nx"}
    <2>1. PICK m \in {"GET", "DELETE", "PUT", "POST"} :
             /\ KeyOps[m] = c.op
             /\ q = [method |-> m, route |-> "key", path |-> u, nx |-> m = "POST", ttl |-> t,
                     ns |-> n, body |-> c.value, delta |-> 0]
      <3>1. CASE c.op = "get"
        <4>1. KeyOps["GET"] = c.op
          BY <3>1 DEF KeyOps
        <4>2. q = [method |-> "GET", route |-> "key", path |-> u, nx |-> FALSE, ttl |-> t,
                   ns |-> n, body |-> c.value, delta |-> 0]
          BY <3>1 DEF HttpRequest, KeyRequest, Request, u, t, n
        <4> QED BY <4>1, <4>2
      <3>2. CASE c.op = "delete"
        <4>1. KeyOps["DELETE"] = c.op
          BY <3>2 DEF KeyOps
        <4>2. q = [method |-> "DELETE", route |-> "key", path |-> u, nx |-> FALSE, ttl |-> t,
                   ns |-> n, body |-> c.value, delta |-> 0]
          BY <3>2 DEF HttpRequest, KeyRequest, Request, u, t, n
        <4> QED BY <4>1, <4>2
      <3>3. CASE c.op = "set"
        <4>1. KeyOps["PUT"] = c.op
          BY <3>3 DEF KeyOps
        <4>2. q = [method |-> "PUT", route |-> "key", path |-> u, nx |-> FALSE, ttl |-> t,
                   ns |-> n, body |-> c.value, delta |-> 0]
          BY <3>3 DEF HttpRequest, KeyRequest, Request, u, t, n
        <4> QED BY <4>1, <4>2
      <3>4. CASE c.op = "set_nx"
        <4>1. KeyOps["POST"] = c.op
          BY <3>4 DEF KeyOps
        <4>2. q = [method |-> "POST", route |-> "key", path |-> u, nx |-> TRUE, ttl |-> t,
                   ns |-> n, body |-> c.value, delta |-> 0]
          BY <3>4 DEF HttpRequest, KeyRequest, Request, u, t, n
        <4> QED BY <4>1, <4>2
      <3> QED BY <1>3, <3>1, <3>2, <3>3, <3>4
    <2> HIDE DEF q
    <2>2. /\ q.route = "key" /\ q.path = UrlEncode(c.key) /\ q.method = m
          /\ (q.nx <=> q.method = "POST") /\ q.body = c.value /\ q.delta = 0
          /\ q.ttl = t /\ q.ns = n
      BY <2>1 DEF u
    <2>3. ParseHttp(q) = [op |-> KeyOps[q.method], key |-> c.key, value |-> q.body,
                          delta |-> q.delta, ttl |-> q.ttl, ns |-> q.ns]
      BY <2>2, ParseKey
    <2>4. c.delta = 0
      BY <1>3
    <2> QED BY <2>1, <2>2, <2>3, <2>4 DEF HttpRead, t, n, q
  <1>4. CASE c.op = "incr"
    <2>1. q = [method |-> "POST", route |-> "key", path |-> u \o IncrSuffix, nx |-> FALSE,
               ttl |-> t, ns |-> n, body |-> <<>>, delta |-> c.delta]
      BY <1>4 DEF HttpRequest, KeyRequest, Request, u, t, n
    <2> HIDE DEF q
    <2>2. /\ q.route = "key" /\ q.path = UrlEncode(c.key) \o IncrSuffix /\ q.method = "POST"
          /\ ~q.nx /\ q.body = <<>> /\ q.delta = c.delta /\ q.ttl = t /\ q.ns = n
      BY <2>1 DEF u
    <2>3. ParseHttp(q) = [op |-> "incr", key |-> c.key, value |-> q.body,
                          delta |-> q.delta, ttl |-> q.ttl, ns |-> q.ns]
      BY <2>2, ParseIncr
    <2> QED BY <1>4, <2>2, <2>3 DEF HttpRead, t, n, q
  <1> QED BY <1>1, <1>2, <1>3, <1>4

(***************************************************************************)
(* Requests                                                                *)
(***************************************************************************)

\* The arguments that an operation does not take are empty.
ProperCall(c) ==
    /\ c.op # "stats" => IsCall(c)
    /\ c.op \in {"ping", "stats"} => c.key = <<>>
    /\ c.op \notin {"set", "set_nx"} => c.value = <<>>
    /\ c.op # "incr" => c.delta = 0
    /\ c.op \notin {"set", "set_nx", "incr", "set_ttl_by_pattern"} => c.ttl <= 0
    /\ c.op \in {"ping", "auth", "stats"} => c.ns = None

ProperCalls ==
    /\ \A c \in Calls : ProperCall(c)
    /\ Token # None => Token \in Seq(Octets) /\ Fits(Token)

\* A call and what the server reads of it.
LEMMA ReadingOf ==
    ASSUME NEW s, NEW t, NEW x \in Readings(s, t)
    PROVE  x.call \in Asked(s, t) /\ x.read = ServerReads(t, x.call)
  <1>1. PICK c \in Asked(s, t) : x = [call |-> c, read |-> ServerReads(t, c)]
    BY DEF Readings
  <1> QED BY <1>1

\* What is sent is a proper call.
LEMMA SentIsProper ==
    ASSUME ProperCalls, NEW s, NEW c \in Asked(s, "tcp")
    PROVE  ProperCall(c) /\ IsCall(c)
  <1>1. c \in Calls \cup {AuthCall} /\ c.op \in SentOps /\ (c.op = "auth" => Token # None)
    BY DEF Asked
  <1>2. CASE c \in Calls
    BY <1>1, <1>2, OpsApart DEF ProperCalls, ProperCall
  <1>3. CASE c = AuthCall
    <2>1. /\ c.op = "auth" /\ c.key = Token /\ c.value = <<>> /\ c.ttl = 0
          /\ c.delta = 0 /\ c.ns = None
      BY <1>3 DEF AuthCall, NoCall
    <2>2. Token \in Seq(Octets) /\ Fits(Token)
      BY <1>1, <2>1 DEF ProperCalls
    <2>3. <<>> \in Seq(Octets) /\ Fits(<<>>)
      BY SMT DEF Fits, Room
    <2>4. \E k \in 1..11 : RequestFields[k] = "auth"
      <3>1. RequestFields[5] = "auth"
        BY DEF RequestFields
      <3> QED BY <3>1
    <2> QED BY <2>1, <2>2, <2>3, <2>4 DEF ProperCall, IsCall
  <1> QED BY <1>1, <1>2, <1>3

\* What the server reads of a call over TCP.
LEMMA ReadOverTcp ==
    ASSUME Wide, ProperCalls, NEW s, NEW x \in Readings(s, "tcp"), NEW c, NEW r,
           c = x.call, r = x.read
    PROVE  /\ ProperCall(c) /\ IsCall(c) /\ c.op \in SentOps /\ Validate(s, c)
           /\ r.op = c.op /\ r.key = c.key /\ r.value = c.value
           /\ r.ttl = IF c.ttl > 0 THEN c.ttl ELSE None
           /\ r.ns = IF HasNamespace(c.ns) THEN c.ns ELSE None
           /\ r.delta = IF c.op = "incr" THEN ReadInt64(c.delta % 2^WordBits) ELSE 0
           /\ r = RequestRead(c)
  <1>1. c \in Asked(s, "tcp") /\ r = ServerReads("tcp", c)
    BY ReadingOf
  <1>2. c.op \in SentOps /\ Validate(s, c) /\ r = DecodeRequest(EncodeRequest(c))
    BY <1>1, AskedOverTcp DEF ServerReads
  <1>3. ProperCall(c) /\ IsCall(c)
    BY <1>1, SentIsProper
  <1>4. r = RequestRead(c)
    BY <1>2, <1>3, RequestRoundTrip
  <1>5. c.op \in {"ping", "auth"} => ~HasNamespace(c.ns)
    BY <1>3 DEF ProperCall, HasNamespace
  <1>6. c.ttl \in Int
    BY <1>3 DEF IsCall
  <1>7. /\ r.op = c.op /\ r.key = c.key /\ r.value = c.value
        /\ r.ttl = IF c.ttl > 0 THEN c.ttl ELSE None
        /\ r.ns = IF HasNamespace(c.ns) THEN c.ns ELSE None
        /\ r.delta = IF c.op = "incr" THEN ReadInt64(c.delta % 2^WordBits) ELSE 0
    BY <1>3, <1>4, <1>5, <1>6 DEF ProperCall, RequestRead
  <1> QED BY <1>2, <1>3, <1>4, <1>7

\* What the server reads of a call over HTTP.
LEMMA ReadOverHttp ==
    ASSUME ProperCalls, NEW s, NEW x \in Readings(s, "http"), NEW c, NEW r,
           c = x.call, r = x.read
    PROVE  /\ ProperCall(c) /\ c.op \in HttpOps /\ (c.op = "stats" \/ IsCall(c))
           /\ Validate(s, c) /\ ~HeaderRefused(c.ns)
           /\ c.ns = None \/ c.ns \in Seq(Octets)
           /\ r = HttpRead(c)
  <1>1. c \in Asked(s, "http") /\ r = ServerReads("http", c)
    BY ReadingOf
  <1>2. /\ c \in Calls /\ c.op \in HttpOps /\ Validate(s, c) /\ ~HeaderRefused(c.ns)
        /\ r = ParseHttp(HttpRequest(c))
    BY <1>1 DEF Asked, ServerReads
  <1>3. ProperCall(c)
    BY <1>2 DEF ProperCalls
  <1>4. c.op \in {"ping", "stats", "get", "delete", "set", "set_nx", "incr",
                  "delete_by_pattern", "set_ttl_by_pattern"}
    BY <1>2 DEF HttpOps, TcpOps, Range, RequestFields
  <1>5. c.op = "stats" \/ IsCall(c)
    BY <1>3 DEF ProperCall
  <1>6. c.key \in Seq(Octets) /\ (c.ns = None \/ c.ns \in Seq(Octets))
    <2>1. CASE c.op = "stats"
      <3>1. c.key = <<>> /\ c.ns = None
        BY <1>3, <2>1, Zenon DEF ProperCall
      <3> QED BY <3>1
    <2>2. CASE IsCall(c)
      BY <2>2 DEF IsCall
    <2> QED BY <1>5, <2>1, <2>2
  <1>7. ParseHttp(HttpRequest(c)) = HttpRead(c)
    BY <1>3, <1>4, <1>6, HttpRoundTrip DEF ProperCall
  <1> QED BY <1>2, <1>3, <1>5, <1>6, <1>7

\* ASCII is not changed by Latin-1.
LEMMA Latin1OfAscii ==
    ASSUME NEW s, \A i \in DOMAIN s : s[i] < 128
    PROVE  Latin1(s) = s
  BY Zenon DEF Latin1

\* Printable bytes are ASCII.
LEMMA PrintableIsAscii ==
    ASSUME NEW s, Printable(s)
    PROVE  \A i \in DOMAIN s : s[i] < 128
  <1> SUFFICES ASSUME NEW i \in DOMAIN s PROVE s[i] < 128
    OBVIOUS
  <1>1. s[i] \in 32..126
    BY DEF Printable
  <1> DEFINE b == s[i]
  <1>2. b \in 32..126
    BY <1>1
  <1> HIDE DEF b
  <1>3. b < 128
    BY <1>2
  <1> QED BY <1>3 DEF b

\* Whatever is asked for, the server reads: the operation, the key, the value,
\* the ttl, the delta and the namespace of the call, through the codec or the
\* URL and the header (RequestFaithful).
THEOREM ServerReadsTheCall ==
    ASSUME Wide, ProperCalls
    PROVE  Spec => []RequestFaithful
  <1>1. ASSUME IInv PROVE RequestFaithful
    <2> SUFFICES ASSUME seen # None PROVE RequestFaithful
      BY DEF RequestFaithful
    <2> DEFINE c == seen.call
               r == seen.read
    <2>1. seen \in Readings(strict, transport) /\ transport \in {"tcp", "http"}
      BY <1>1 DEF IInv, AskInv, TypeOK
    <2>2. CASE transport = "tcp"
      <3>1. /\ ProperCall(c) /\ IsCall(c)
            /\ r.op = c.op /\ r.key = c.key /\ r.value = c.value
            /\ r.ttl = IF c.ttl > 0 THEN c.ttl ELSE None
            /\ r.ns = IF HasNamespace(c.ns) THEN c.ns ELSE None
            /\ r.delta = IF c.op = "incr" THEN ReadInt64(c.delta % 2^WordBits) ELSE 0
        BY <2>1, <2>2, ReadOverTcp
      <3> HIDE DEF c, r
      <3>2. \/ r.delta = c.delta
            \/ /\ c.delta \notin -(2^(WordBits - 1))..(2^(WordBits - 1) - 1)
               /\ (r.delta - c.delta) % 2^WordBits = 0
        <4>1. CASE c.op = "incr"
          <5>1. c.delta \in Int
            BY <3>1 DEF IsCall
          <5> QED BY <3>1, <4>1, <5>1, Int64Travels
        <4>2. CASE c.op # "incr"
          BY <3>1, <4>2 DEF ProperCall
        <4> QED BY <4>1, <4>2
      <3> QED BY <2>2, <3>1, <3>2 DEF RequestFaithful, c, r
    <2>3. CASE transport = "http"
      <3>1. r = HttpRead(c) /\ (c.ns = None \/ c.ns \in Seq(Octets))
        BY <2>1, <2>3, ReadOverHttp
      <3> HIDE DEF c, r
      <3>2. /\ r.op = c.op /\ r.key = c.key /\ r.value = c.value
            /\ r.ttl = IF c.ttl > 0 THEN c.ttl ELSE None
            /\ r.delta = c.delta
            /\ r.ns = IF HasNamespace(c.ns) THEN Latin1(Strip(c.ns)) ELSE None
        BY <3>1 DEF HttpRead, PositiveTtl, NamespaceHeaders
      <3>3. ASSUME HasNamespace(c.ns), Printable(Strip(c.ns)) PROVE Strip(r.ns) = Strip(c.ns)
        <4>1. Strip(Strip(c.ns)) = Strip(c.ns)
          BY <3>1, <3>3, StripTwice DEF HasNamespace
        <4>2. Latin1(Strip(c.ns)) = Strip(c.ns)
          BY <3>3, PrintableIsAscii, Latin1OfAscii
        <4> QED BY <3>2, <3>3, <4>1, <4>2
      <3> QED BY <2>3, <3>2, <3>3 DEF RequestFaithful, c, r
    <2> QED BY <2>1, <2>2, <2>3
  <1> QED BY <1>1, InitIInv, StepIInv, PTL DEF Spec

(***************************************************************************)
(* What the answers mean                                                   *)
(***************************************************************************)

\* The responses of the server fit in what carries them, and an error has
\* the name of its code, as far as this version of the protocol knows it.
ProperResponses ==
    \A r \in Responses :
        /\ r.type # "Stats" => IsReply(r)
        /\ r.type = "Error" =>
              r.name # None /\ (r.code < 14 => r.name = ErrorCodeNames[r.code + 1])

\* The operations whose answers come in frames.
TcpReads == {"get", "set", "delete", "ping", "auth", "watch", "unwatch",
             "delete_by_pattern", "set_ttl_by_pattern", "set_nx", "incr", "event"}

\* They are the requests and the wait for an event.
LEMMA ReadsAreSent == SentOps \cup {"event"} = TcpReads
  BY DEF SentOps, TcpOps, Range, RequestFields, TcpReads

\* The fields of what is decoded keep their meaning.
LEMMA DecodedParts ==
    ASSUME NEW r, IsReply(r)
    PROVE  /\ Decoded(r).type = r.type
           /\ r.type = "Value" => Decoded(r).value = r.value
           /\ r.type \in {"Value", "Ok", "WatchEvent", "SetNx", "Counter"} =>
                 Decoded(r).version = r.version
           /\ r.type = "Error" => Decoded(r).code = ErrorCodeName(r.code)
           /\ r.type = "WatchEvent" => Decoded(r).key = r.key /\ Decoded(r).value = r.value
           /\ r.type \in {"PatternDeleted", "PatternTtlUpdated", "Counter"} =>
                 Decoded(r).count = r.count
           /\ r.type = "SetNx" => Decoded(r).created = r.created
  <1>1. r.type \in SimpleResponses \cup {"Error", "Ok", "PatternDeleted", "PatternTtlUpdated"}
                     \cup {"Value", "WatchEvent", "SetNx", "Counter"}
    BY DEF IsReply, ResponseFields, SimpleResponses
  <1>2. CASE r.type \in SimpleResponses
    BY <1>2 DEF Decoded, SimpleResponses
  <1>3. CASE r.type = "Error"
    BY <1>3 DEF Decoded, SimpleResponses
  <1>4. CASE r.type = "Ok"
    BY <1>4 DEF Decoded, SimpleResponses
  <1>5. CASE r.type \in {"PatternDeleted", "PatternTtlUpdated"}
    BY <1>5 DEF Decoded, SimpleResponses
  <1>6. CASE r.type = "Value"
    BY <1>6 DEF Decoded, SimpleResponses
  <1>7. CASE r.type = "WatchEvent"
    BY <1>7 DEF Decoded, SimpleResponses
  <1>8. CASE r.type = "SetNx"
    BY <1>8 DEF Decoded, SimpleResponses
  <1>9. CASE r.type = "Counter"
    BY <1>9 DEF Decoded, SimpleResponses
  <1> QED BY <1>1, <1>2, <1>3, <1>4, <1>5, <1>6, <1>7, <1>8, <1>9

\* The shapes of a body.
HttpForms == {"plain", "not json"}
NoJson(form) == form = "not json"

\* An answer as the client has read it.
Answered(r, form, status, own) ==
    [resp |-> r, form |-> form, status |-> status, own |-> own]

\* An error over TCP.
LEMMA TcpErrorMeans ==
    ASSUME ProperResponses, NEW r \in Responses, r.type = "Error", NEW op \in TcpReads,
           NEW form \in GoodForms, NEW own, result = TcpOutcome(op, Decoded(r))
    PROVE  ConveysError(op, Answered(r, form, 0, own))
  <1> DEFINE d == Decoded(r)
             a == Answered(r, form, 0, own)
  <1>1. IsReply(r) /\ (r.code < 14 => r.name = ErrorCodeNames[r.code + 1])
    BY DEF ProperResponses
  <1>2. d.type = "Error" /\ d.code = ErrorCodeName(r.code)
    BY <1>1, DecodedParts
  <1>3. r.code >= 14 \/ ErrorCodeName(r.code) = r.name
    <2>1. Len(ErrorCodeNames) = 14
      BY DEF ErrorCodeNames
    <2>2. r.code \in Nat
      BY <1>1 DEF IsReply, Word
    <2> QED BY <1>1, <2>1, <2>2 DEF ErrorCodeName
  <1>4. a.resp = r /\ a.status = 0 /\ a.status # 404 /\ ~NoJson(a.form)
    <2>1. a.resp = r /\ a.form = form /\ a.status = 0
      BY DEF Answered
    <2>2. ~NoJson(form)
      BY Zenon DEF NoJson, GoodForms
    <2> QED BY <2>1, <2>2
  <1>5. result = TcpOutcome(op, d)
    OBVIOUS
  <1> HIDE DEF d, a
  <1>6. CASE op = "ping"
    <2>1. result = Bool(FALSE)
      BY <1>2, <1>5, <1>6 DEF TcpOutcome
    <2>2. ~HidesCode(op, a)
      BY <1>6 DEF HidesCode
    <2>3. ConveysError(op, a)
      BY <1>6, <2>1, <2>2, Zenon DEF ConveysError
    <2> QED BY <2>3 DEF a
  <1>7. CASE op # "ping"
    <2>1. "Error" \notin Accepted[op]
      BY DEF Accepted, TcpReads
    <2>2. result = DittoError(d.code)
      BY <1>2, <1>5, <1>7, <2>1 DEF TcpOutcome
    <2>3. result.is = "DittoError"
      BY <2>2 DEF DittoError
    <2>4. CASE HidesCode(op, a)
      <3>1. ConveysError(op, a)
        BY <2>3, <2>4, Zenon DEF ConveysError
      <3> QED BY <3>1 DEF a
    <2>5. CASE ~HidesCode(op, a)
      <3>1. ~(r.code >= 14)
        BY <1>4, <1>7, <2>5 DEF HidesCode
      <3>2. result = DittoError(a.resp.name)
        BY <1>2, <1>3, <1>4, <2>2, <3>1
      <3>3. ConveysError(op, a)
        BY <1>4, <1>7, <2>5, <3>2, Zenon DEF ConveysError, NoJson
      <3> QED BY <3>3 DEF a
    <2> QED BY <2>4, <2>5
  <1> QED BY <1>6, <1>7

\* A response that is none of an error, over TCP.
LEMMA TcpSuccessMeans ==
    ASSUME NEW r, IsReply(r), r.type # "Error", NEW op \in TcpReads,
           NEW form \in GoodForms, NEW own
    PROVE  TcpOutcome(op, Decoded(r)) = Told(op, Answered(r, form, 0, own))
  <1> DEFINE d == Decoded(r)
             a == Answered(r, form, 0, own)
  <1>1. /\ d.type = r.type
        /\ r.type = "Value" => d.value = r.value
        /\ r.type \in {"Value", "Ok", "WatchEvent", "SetNx", "Counter"} => d.version = r.version
        /\ r.type = "WatchEvent" => d.key = r.key /\ d.value = r.value
        /\ r.type \in {"PatternDeleted", "PatternTtlUpdated", "Counter"} => d.count = r.count
        /\ r.type = "SetNx" => d.created = r.created
    BY DecodedParts, Zenon
  <1>2. a.resp = r /\ ~NoJson(a.form)
    <2>1. a.resp = r /\ a.form = form
      BY DEF Answered
    <2>2. ~NoJson(form)
      BY Zenon DEF NoJson, GoodForms
    <2> QED BY <2>1, <2>2
  <1> HIDE DEF d, a
  <1> SUFFICES TcpOutcome(op, d) = Told(op, a)
    BY DEF d, a
  <1>3. r.type # "Undecodable"
    BY DEF IsReply, ResponseFields
  <1>4. Told(op, a) = IF r.type \notin Accepted[op]
                      THEN IF op = "ping" THEN Bool(FALSE) ELSE RuntimeError
                      ELSE Meaning(op, r)
    BY <1>2, Zenon DEF Told, NoJson
  <1>5. CASE op = "ping"
    <2>1. Accepted[op] = {"Pong"}
      BY <1>5 DEF Accepted
    <2>2. TcpOutcome(op, d) = Bool(r.type = "Pong")
      BY <1>1, <1>3, <1>5, Zenon DEF TcpOutcome
    <2>3. CASE r.type = "Pong"
      <3>1. TcpOutcome(op, d) = Bool(TRUE)
        BY <2>2, <2>3
      <3> QED BY <1>4, <2>1, <2>3, <3>1 DEF Meaning
    <2>4. CASE r.type # "Pong"
      <3>1. TcpOutcome(op, d) = Bool(FALSE)
        BY <2>2, <2>4
      <3> QED BY <1>4, <1>5, <2>1, <2>4, <3>1
    <2> QED BY <2>3, <2>4
  <1>6. CASE op # "ping" /\ r.type \notin Accepted[op]
    BY <1>1, <1>3, <1>4, <1>6 DEF TcpOutcome
  <1>7. CASE op # "ping" /\ r.type \in Accepted[op]
    <2>1. TcpOutcome(op, d) = TcpResult(op, d) /\ Told(op, a) = Meaning(op, r)
      BY <1>1, <1>3, <1>4, <1>7 DEF TcpOutcome
    <2>2. TcpResult(op, d) = Meaning(op, r)
      <3>1. CASE op \in {"get", "delete"}
        <4>1. \/ op = "get" /\ r.type \in {"Value", "NotFound"}
              \/ op = "delete" /\ r.type \in {"Deleted", "NotFound"}
          BY <1>7, <3>1 DEF Accepted
        <4> QED BY <1>1, <4>1 DEF TcpResult, Meaning
      <3>2. CASE op \in {"set", "set_nx", "incr"}
        <4>1. \/ op = "set" /\ r.type = "Ok"
              \/ op = "set_nx" /\ r.type = "SetNx"
              \/ op = "incr" /\ r.type = "Counter"
          BY <1>7, <3>2 DEF Accepted
        <4> QED BY <1>1, <4>1 DEF TcpResult, Meaning
      <3>3. CASE op \in {"delete_by_pattern", "set_ttl_by_pattern", "event"}
        <4>1. \/ op = "delete_by_pattern" /\ r.type = "PatternDeleted"
              \/ op = "set_ttl_by_pattern" /\ r.type = "PatternTtlUpdated"
              \/ op = "event" /\ r.type = "WatchEvent"
          BY <1>7, <3>3 DEF Accepted
        <4> QED BY <1>1, <4>1 DEF TcpResult, Meaning
      <3>4. CASE op \in {"watch", "unwatch", "auth"}
        <4>1. r.type \in {"Watching", "Unwatched", "AuthOk"}
          BY <1>7, <3>4 DEF Accepted
        <4> QED BY <3>4, <4>1 DEF TcpResult, Meaning
      <3> QED BY <1>7, <3>1, <3>2, <3>3, <3>4 DEF TcpReads
    <2> QED BY <2>1, <2>2
  <1> QED BY <1>5, <1>6, <1>7

\* The operations over HTTP.
HttpReads == {"get", "set", "delete", "ping", "stats",
              "delete_by_pattern", "set_ttl_by_pattern", "set_nx", "incr"}

\* They are those that the module allows.
LEMMA HttpOpsAre == HttpOps = HttpReads
  BY DEF HttpOps, TcpOps, Range, RequestFields, HttpReads

\* The response as the client gets it.
HttpReply(r, form, status) ==
    [status |-> status,
     body |-> IF form = "plain" /\ r.type \notin {"Deleted", "NotFound"}
              THEN JsonBody(r) ELSE [json |-> FALSE]]

\* The statuses of errors are not those of successes.
LEMMA StatusesApart ==
    /\ 200 \in 200..299 /\ 204 \in 200..299 /\ 200 # 404 /\ 204 # 404 /\ 204 # 200
    /\ 200 \notin {400, 404, 501} /\ 204 \notin {400, 404, 501}
    /\ \A status \in Statuses : status \notin 200..299
  BY ConstantsAssumption

\* A body is JSON or it is not; neither is a mistake in a payload.
LEMMA FormsOfBodies ==
    \A form \in HttpForms : (form = "plain" <=> ~NoJson(form)) /\ form \notin BadForms
  BY Zenon DEF HttpForms, NoJson, BadForms

\* An error over HTTP.
LEMMA HttpErrorMeans ==
    ASSUME ProperResponses, NEW r \in Responses, r.type = "Error", NEW op \in HttpReads,
           NEW form \in HttpForms, NEW status \in Statuses, NEW own,
           result = HttpOutcome(op, HttpReply(r, form, status))
    PROVE  ConveysError(op, Answered(r, form, status, own))
  <1> DEFINE q == HttpReply(r, form, status)
             a == Answered(r, form, status, own)
  <1>1. status \notin 200..299
    BY StatusesApart
  <1>2. status # 200
    BY <1>1, StatusesApart
  <1>3. r.name # None
    BY DEF ProperResponses
  <1>4. a.resp = r /\ a.form = form /\ a.status = status
    BY DEF Answered
  <1>5. q.status = status /\ q.body = IF form = "plain" THEN JsonBody(r) ELSE [json |-> FALSE]
    BY DEF HttpReply
  <1>r. result = HttpOutcome(op, q)
    OBVIOUS
  <1> HIDE DEF q, a
  <1>6. AssertOkCode(q) = IF NoJson(form) THEN StatusCode(status) ELSE r.name
    <2>1. CASE ~NoJson(form)
      <3>1. q.body = [json |-> TRUE, error |-> r.name]
        BY <1>5, <2>1, FormsOfBodies DEF JsonBody
      <3>2. q.body.json = TRUE /\ q.body.error = r.name
        BY <3>1
      <3> QED BY <1>3, <2>1, <3>2 DEF AssertOkCode
    <2>2. CASE NoJson(form)
      <3>1. q.body.json = FALSE
        BY <1>5, <2>2, FormsOfBodies
      <3> QED BY <1>5, <2>2, <3>1 DEF AssertOkCode
    <2> QED BY <2>1, <2>2
  <1>7. result =
           CASE op = "ping"                     -> Bool(FALSE)
             [] op = "get" /\ status = 404      -> Returned("None")
             [] op = "delete" /\ status = 404   -> Bool(FALSE)
             [] op \in {"set_nx", "incr"} /\ status \in AtomicUnsupportedStatuses ->
                   DittoError("UnsupportedRequest")
             [] OTHER -> DittoError(AssertOkCode(q))
    BY <1>1, <1>2, <1>5, <1>r, ZenonT(60) DEF HttpOutcome, IsAtomicUnsupported
  <1>8. CASE HidesCode(op, a)
    <2>1. op # "ping" /\ (status = 0 \/ op \in {"set_nx", "incr"})
      BY <1>4, <1>8 DEF HidesCode
    <2>2. ~(op = "get" /\ status = 404) /\ ~(op = "delete" /\ status = 404)
      BY <2>1
    <2>3. result = DittoError("UnsupportedRequest") \/ result = DittoError(AssertOkCode(q))
      BY <1>7, <2>1, <2>2, Zenon
    <2>4. result.is = "DittoError"
      BY <2>3 DEF DittoError
    <2>5. ConveysError(op, a)
      BY <1>8, <2>4, Zenon DEF ConveysError
    <2> QED BY <2>5 DEF a
  <1>9. CASE ~HidesCode(op, a)
    <2>1. ~(op \in {"set_nx", "incr"} /\ status \in AtomicUnsupportedStatuses)
      BY <1>4, <1>9 DEF HidesCode
    <2>2. result = IF op = "ping" THEN Bool(FALSE)
                   ELSE IF op = "get" /\ status = 404 THEN Returned("None")
                   ELSE IF op = "delete" /\ status = 404 THEN Bool(FALSE)
                   ELSE DittoError(AssertOkCode(q))
      BY <1>7, <2>1, Zenon
    <2>3. ConveysError(op, a)
      BY <1>4, <1>6, <1>9, <2>2, Zenon DEF ConveysError, NoJson
    <2> QED BY <2>3 DEF a
  <1> QED BY <1>8, <1>9

\* The base64 form of a value is used when there is one.
LEMMA ValueOfBody ==
    ASSUME NEW r, r.type = "Value", r.value \in Seq(Octets)
    PROVE  GetValue(JsonBody(r)) = r.value
  <1> DEFINE text == \A i \in DOMAIN r.value : r.value[i] < 128
             b == JsonBody(r)
  <1>1. b = [json |-> TRUE, error |-> None,
             value |-> IF text THEN r.value ELSE <<63>>,
             value_base64 |-> IF text THEN None ELSE r.value, version |-> r.version]
    BY DEF JsonBody
  <1>2. b.value = (IF text THEN r.value ELSE <<63>>) /\ b.value_base64 = IF text THEN None ELSE r.value
    BY <1>1
  <1> HIDE DEF b
  <1>3. CASE text
    <2>1. b.value = r.value /\ b.value_base64 = None
      BY <1>2, <1>3
    <2> QED BY <2>1 DEF GetValue, b
  <1>4. CASE ~text
    <2>1. b.value_base64 = r.value
      BY <1>2, <1>4
    <2>2. r.value # None
      BY NoneAssumption DEF Octets
    <2>3. r.value # <<>>
      BY <1>4
    <2> QED BY <2>1, <2>2, <2>3 DEF GetValue, b
  <1> QED BY <1>3, <1>4

\* A response that is none of an error, over HTTP.
LEMMA HttpSuccessMeans ==
    ASSUME NEW r, r.type # "Error", NEW op \in HttpReads, r.type \in Accepted[op],
           r.type = "Value" => r.value \in Seq(Octets),
           NEW form \in HttpForms, NEW status \in StatusOf(r), NEW own
    PROVE  HttpOutcome(op, HttpReply(r, form, status)) = Told(op, Answered(r, form, status, own))
  <1> DEFINE q == HttpReply(r, form, status)
             a == Answered(r, form, status, own)
  <1>1. a.resp = r /\ a.form = form
    BY DEF Answered
  <1>2. /\ q.status = status
        /\ q.body = IF form = "plain" /\ r.type \notin {"Deleted", "NotFound"}
                    THEN JsonBody(r) ELSE [json |-> FALSE]
    BY DEF HttpReply
  <1> HIDE DEF q, a
  <1> SUFFICES HttpOutcome(op, q) = Told(op, a)
    BY DEF q, a
  <1>3. Told(op, a) = IF NoJson(form) /\ op # "delete" /\ r.type # "NotFound"
                          THEN ValueError ELSE Meaning(op, r)
    BY <1>1, Zenon DEF Told, NoJson
  <1>4. CASE r.type = "NotFound"
    <2>1. status = 404
      BY <1>4 DEF StatusOf
    <2>2. op \in {"get", "delete"}
      BY <1>4 DEF Accepted, HttpReads
    <2>3. Told(op, a) = Meaning(op, r)
      BY <1>3, <1>4
    <2>4. CASE op = "get"
      <3>1. HttpOutcome(op, q) = Returned("None")
        <4>1. /\ q.status = 404 /\ op # "ping" /\ op # "delete"
              /\ op = "get" /\ op \notin {"set_nx", "incr"}
          BY <1>2, <2>1, <2>4
        <4> QED BY <4>1, Zenon DEF HttpOutcome, IsAtomicUnsupported
      <3> QED BY <1>4, <2>3, <2>4, <3>1 DEF Meaning
    <2>5. CASE op = "delete"
      <3>1. HttpOutcome(op, q) = Bool(FALSE)
        <4>1. /\ q.status = 404 /\ op # "ping" /\ op # "get"
              /\ op = "delete" /\ op \notin {"set_nx", "incr"}
          BY <1>2, <2>1, <2>5
        <4> QED BY <4>1, Zenon DEF HttpOutcome, IsAtomicUnsupported
      <3> QED BY <1>4, <2>3, <2>5, <3>1 DEF Meaning
    <2> QED BY <2>2, <2>4, <2>5
  <1>5. CASE r.type = "Deleted"
    <2>1. status = 204 /\ op = "delete"
      BY <1>5 DEF StatusOf, Accepted, HttpReads
    <2>2. status \in 200..299 /\ status # 404
      BY <2>1, StatusesApart
    <2>3. HttpOutcome(op, q) = Bool(TRUE)
      <3>1. /\ q.status \in 200..299 /\ q.status # 404
            /\ op # "ping" /\ op # "get" /\ op = "delete" /\ op \notin {"set_nx", "incr"}
        BY <1>2, <2>1, <2>2
      <3> QED BY <3>1, Zenon DEF HttpOutcome, IsAtomicUnsupported
    <2>4. Meaning(op, r) = Bool(TRUE)
      BY <1>5 DEF Meaning
    <2> QED BY <1>3, <2>1, <2>3, <2>4
  <1>6. CASE r.type \notin {"NotFound", "Deleted"}
    <2>1. status = 200 /\ op # "delete"
      BY <1>6 DEF StatusOf, Accepted, HttpReads
    <2>2. status \in 200..299 /\ status # 404 /\ status \notin {400, 404, 501}
      BY <2>1, StatusesApart
    <2>3. HttpOutcome(op, q) = IF ~q.body.json THEN ValueError ELSE HttpResult(op, q.body)
      <3>1. /\ q.status = 200 /\ q.status \in 200..299 /\ q.status # 404
            /\ q.status \notin {400, 404, 501} /\ op # "delete"
        BY <1>2, <2>1, <2>2
      <3> QED
        BY <3>1, Zenon DEF HttpOutcome, IsAtomicUnsupported, AtomicUnsupportedStatuses
    <2>4. CASE NoJson(form)
      <3>1. q.body.json = FALSE
        BY <1>2, <2>4, FormsOfBodies
      <3> QED BY <1>3, <1>6, <2>1, <2>3, <2>4, <3>1
    <2>5. CASE ~NoJson(form)
      <3>1. q.body = JsonBody(r)
        BY <1>2, <1>6, <2>5, FormsOfBodies
      <3>2. /\ JsonBody(r).json = TRUE
            /\ HttpResult(op, JsonBody(r)) = Meaning(op, r)
        <4>1. CASE op = "ping"
          <5>1. r.type = "Pong"
            BY <4>1 DEF Accepted
          <5>2. JsonBody(r).json = TRUE /\ JsonBody(r).pong = TRUE
            BY <5>1 DEF JsonBody
          <5> QED BY <4>1, <5>1, <5>2 DEF HttpResult, Meaning
        <4>2. CASE op = "get"
          <5>1. r.type = "Value"
            BY <1>6, <4>2 DEF Accepted
          <5>2. JsonBody(r).json = TRUE /\ JsonBody(r).version = r.version
            BY <5>1 DEF JsonBody
          <5>3. GetValue(JsonBody(r)) = r.value
            BY <5>1, ValueOfBody
          <5> QED BY <4>2, <5>1, <5>2, <5>3 DEF HttpResult, Meaning
        <4>3. CASE op = "set"
          <5>1. r.type = "Ok"
            BY <4>3 DEF Accepted
          <5>2. JsonBody(r).json = TRUE /\ JsonBody(r).version = r.version
            BY <5>1 DEF JsonBody
          <5> QED BY <4>3, <5>1, <5>2 DEF HttpResult, Meaning
        <4>4. CASE op = "set_nx"
          <5>1. r.type = "SetNx"
            BY <4>4 DEF Accepted
          <5>2. /\ JsonBody(r).json = TRUE /\ JsonBody(r).version = r.version
                /\ JsonBody(r).created = r.created
            BY <5>1 DEF JsonBody
          <5> QED BY <4>4, <5>1, <5>2 DEF HttpResult, Meaning
        <4>5. CASE op = "incr"
          <5>1. r.type = "Counter"
            BY <4>5 DEF Accepted
          <5>2. /\ JsonBody(r).json = TRUE /\ JsonBody(r).version = r.version
                /\ JsonBody(r).value = r.count
            BY <5>1 DEF JsonBody
          <5> QED BY <4>5, <5>1, <5>2 DEF HttpResult, Meaning
        <4>6. CASE op = "delete_by_pattern"
          <5>1. r.type = "PatternDeleted"
            BY <4>6 DEF Accepted
          <5>2. JsonBody(r).json = TRUE /\ JsonBody(r).deleted = r.count
            BY <5>1 DEF JsonBody
          <5> QED BY <4>6, <5>1, <5>2 DEF HttpResult, Meaning
        <4>7. CASE op = "set_ttl_by_pattern"
          <5>1. r.type = "PatternTtlUpdated"
            BY <4>7 DEF Accepted
          <5>2. JsonBody(r).json = TRUE /\ JsonBody(r).updated = r.count
            BY <5>1 DEF JsonBody
          <5> QED BY <4>7, <5>1, <5>2 DEF HttpResult, Meaning
        <4>8. CASE op = "stats"
          <5>1. r.type = "Stats"
            BY <4>8 DEF Accepted
          <5>2. JsonBody(r).json = TRUE /\ JsonBody(r).fields = r.fields
            BY <5>1 DEF JsonBody
          <5> QED BY <4>8, <5>1, <5>2 DEF HttpResult, Meaning
        <4> QED BY <2>1, <4>1, <4>2, <4>3, <4>4, <4>5, <4>6, <4>7, <4>8 DEF HttpReads
      <3> QED BY <1>3, <2>3, <2>5, <3>1, <3>2
    <2> QED BY <2>4, <2>5
  <1> QED BY <1>4, <1>5, <1>6

\* A payload without mistakes is decoded to the response in it, and one with
\* mistakes is not decoded.
LEMMA PayloadDecoded ==
    ASSUME Wide, NEW r, IsReply(r)
    PROVE  /\ \A form \in GoodForms : DecodeResponse(Payload(r, form)) = Decoded(r)
           /\ \A form \in BadForms : DecodeResponse(Payload(r, form)) = Undecodable
  <1> DEFINE n == ResponseNumber(r)
             v == EncodeVariant(r)
             response == LdFieldAlways(n, v)
             extended == NewFields \o LdFieldAlways(n, v \o NewFields)
             u == LdFieldAlways(7, <<>>)
  <1>1. /\ DecodeResponse(EncodeResponse(r)) = Decoded(r)
        /\ DecodeResponse(Uint64Field(1, 1) \o LdFieldAlways(3, extended)) = Decoded(r)
        /\ \A w \in Seq(Octets) : Len(w) <= BodyRoom =>
              DecodeResponse(LdFieldAlways(3, w) \o LdFieldAlways(3, response)) = Decoded(r)
        /\ DecodeResponse(Uint64Field(1, 2) \o LdFieldAlways(3, response)) = Undecodable
        /\ DecodeResponse(Front(EncodeResponse(r))) = Undecodable
    BY ResponseRoundTrip, Zenon
  <1>2. u \in Seq(Octets) /\ Len(u) <= BodyRoom
    <2>1. <<>> \in Seq(Octets) /\ Len(<<>>) <= 0 /\ 0 \in Nat /\ 0 <= FrameRoom /\ 20 <= BodyRoom
      BY SMT DEF FrameRoom, BodyRoom, Room
    <2>2. 7 \in 1..31
      OBVIOUS
    <2>3. Message(u, {LdItem(7, <<>>)}, 0 + 20)
      BY <2>1, <2>2, FieldMessage, Zenon
    <2> HIDE DEF u
    <2>4. u \in Seq(Octets) /\ Len(u) \in Nat /\ Len(u) <= 0 + 20
      BY <2>3 DEF Message
    <2>5. BodyRoom \in Nat
      BY SMT DEF BodyRoom, Room
    <2> QED BY <2>1, <2>4, <2>5
  <1>3. DecodeResponse(LdFieldAlways(3, u) \o LdFieldAlways(3, response)) = Decoded(r)
    BY <1>1, <1>2
  <1>4. /\ Payload(r, "plain") = EncodeResponse(r)
        /\ Payload(r, "extended") = Uint64Field(1, 1) \o LdFieldAlways(3, extended)
        /\ Payload(r, "repeated") = LdFieldAlways(3, u) \o LdFieldAlways(3, response)
        /\ Payload(r, "truncated") = Front(EncodeResponse(r))
        /\ Payload(r, "newer") = Uint64Field(1, 2) \o LdFieldAlways(3, response)
        /\ Payload(r, "empty") = <<>>
    BY DEF Payload
  <1>5. /\ DecodeResponse(Payload(r, "plain")) = Decoded(r)
        /\ DecodeResponse(Payload(r, "extended")) = Decoded(r)
        /\ DecodeResponse(Payload(r, "repeated")) = Decoded(r)
        /\ DecodeResponse(Payload(r, "truncated")) = Undecodable
        /\ DecodeResponse(Payload(r, "newer")) = Undecodable
        /\ DecodeResponse(Payload(r, "empty")) = Undecodable
    BY <1>1, <1>3, <1>4, EmptyUndecodable, Zenon
  <1> QED BY <1>5 DEF GoodForms, BadForms

\* A frame that is not too long for the client is not an oversized one, and
\* what comes after its prefix is the payload.
LEMMA PayloadInFrame ==
    ASSUME NEW r \in TcpResponses, NEW form \in AllForms,
           form # "oversized" => Len(Payload(r, form)) <= MaxFrame,
           NEW f, f = AnswerFrame(r, form), Length(f) <= MaxFrame
    PROVE  /\ form \in GoodForms \cup BadForms
           /\ LET p == Payload(r, form)
              IN  /\ p \in Seq(Bytes) /\ Len(p) \in Nat /\ Length(f) = Len(p)
                  /\ \A i \in 1..Len(p) : f[4 + i] = p[i]
  <1>1. MaxFrame \in Nat
    BY ConstantsAssumption
  <1>2. form # "oversized"
    <2> SUFFICES ASSUME form = "oversized" PROVE FALSE
      OBVIOUS
    <2> DEFINE n == MaxFrame + 1
    <2>1. f = Length32(n) \o <<0>>
      BY DEF AnswerFrame
    <2>2. n \in Nat /\ n <= MaxFrame + 1 /\ <<0>> \in Seq(Bytes)
      BY <1>1 DEF Bytes
    <2>3. ~(n <= MaxFrame)
      BY <1>1
    <2> HIDE DEF n
    <2>4. Length(f) = n
      BY <2>1, <2>2, Prefix
    <2> QED BY <2>3, <2>4
  <1>3. form \in GoodForms \cup BadForms
    BY <1>2 DEF AllForms
  <1> DEFINE p == Payload(r, form)
             n == Len(p)
             h == Length32(n)
  <1>4. p \in Seq(Bytes)
    BY <1>3, PayloadBytes, BytesAreOctets
  <1>5. n <= MaxFrame /\ f = h \o p
    BY <1>2 DEF AnswerFrame, Frame
  <1> HIDE DEF p
  <1>6. n \in Nat /\ n <= MaxFrame + 1
    BY <1>1, <1>4, <1>5, LenProperties
  <1>7. Length(f) = n
    BY <1>4, <1>5, <1>6, Prefix
  <1>8. h \in Seq(Bytes) /\ Len(h) = 4
    <2>1. (MaxFrame + 1) \div 16777216 \in Bytes
      BY ConstantsAssumption
    <2>2. /\ n \div 16777216 \in Bytes /\ (n \div 65536) % 256 \in Bytes
          /\ (n \div 256) % 256 \in Bytes /\ n % 256 \in Bytes
      <3> HIDE DEF n
      <3> QED BY <1>1, <1>6, <2>1, SMT DEF Bytes
    <2> QED BY <2>2 DEF Length32
  <1> HIDE DEF n, h
  <1>9. \A i \in 1..n : f[4 + i] = p[i]
    <2>1. /\ Len(f) = Len(h) + Len(p)
          /\ \A i \in 1..(Len(h) + Len(p)) : f[i] = IF i <= Len(h) THEN h[i] ELSE p[i - Len(h)]
      <3>1. /\ Len(h \o p) = Len(h) + Len(p)
            /\ \A i \in 1..(Len(h) + Len(p)) :
                  (h \o p)[i] = IF i <= Len(h) THEN h[i] ELSE p[i - Len(h)]
        BY <1>4, <1>8, ConcatProperties
      <3> QED BY <1>5, <3>1
    <2>2. ASSUME NEW i \in 1..n PROVE f[4 + i] = p[i]
      <3>1. 4 + i \in 1..(Len(h) + Len(p)) /\ ~(4 + i <= Len(h)) /\ (4 + i) - Len(h) = i
        BY <1>6, <1>8 DEF n
      <3> QED BY <2>1, <3>1
    <2> QED BY <2>2
  <1> QED BY <1>3, <1>4, <1>6, <1>7, <1>9 DEF p, n

(***************************************************************************)
(* Strict mode                                                             *)
(***************************************************************************)

\* The operations without arguments to check.
Unchecked == {"ping", "stats", "auth", "event"}

\* What is well formed: a key or a pattern, and a namespace.
KeyWell(op, key) ==
    key # <<>> /\ Range(key) \subseteq IF op \in PatternOps THEN PatternChars ELSE TokenChars

NamespaceWell(ns) ==
    \/ ns = None
    \/ /\ ns # <<>> /\ Range(ns) \subseteq TokenChars
       /\ \A i \in 1..(Len(ns) - 1) : <<ns[i], ns[i + 1]>> # <<58, 58>>

\* What strict mode looks at.
KeyChecked(op, key)  == IF op \in PatternOps THEN Strip(key) ELSE key
NamespaceChecked(ns) == IF ns = None THEN None ELSE Strip(ns)

\* A full match is a string of the right characters.
LEMMA FullMatchRange ==
    ASSUME NEW chars, NEW s
    PROVE  FullMatch(chars, s) <=> s # <<>> /\ Range(s) \subseteq chars
  BY DEF FullMatch, Range

\* No blank, no line break and no byte above ASCII is in a token or a pattern.
LEMMA TokensArePlain ==
    /\ TokenChars \subseteq PatternChars /\ PatternChars \cap Blanks = {}
    /\ \A b \in PatternChars : b < 128 /\ b < 196 /\ b # 10 /\ b # 13
  BY SMT DEF PatternChars, TokenChars, Digits, Letters, Blanks

\* strip() has nothing to cut off a token or a pattern.
LEMMA NothingToStrip ==
    ASSUME NEW s \in Seq(Octets), Range(s) \subseteq PatternChars
    PROVE  Strip(s) = s
  <1>1. Len(s) \in Nat /\ DOMAIN s = 1..Len(s)
    BY LenProperties
  <1>2. \A i \in 1..Len(s) : s[i] \notin Blanks
    <2>1. \A i \in 1..Len(s) : s[i] \in Range(s)
      BY <1>1 DEF Range
    <2> QED BY <2>1, TokensArePlain
  <1>3. CASE Strip(s) = <<>> /\ \A i \in 1..Len(s) : s[i] \in Blanks
    <2>1. Len(s) = 0
      BY <1>1, <1>2, <1>3
    <2> QED BY <1>3, <2>1, EmptySeq
  <1>4. ASSUME NEW a \in 1..Len(s), NEW b \in 1..Len(s), Strip(s) = SubSeq(s, a, b),
               \A i \in 1..Len(s) : s[i] \notin Blanks => a <= i /\ i <= b
        PROVE  Strip(s) = s
    <2> DEFINE n == Len(s)
    <2>1. n \in Nat /\ a \in 1..n /\ b \in 1..n /\ 1 \in 1..n /\ n \in 1..n
      BY <1>1
    <2>2. a <= 1 /\ n <= b
      BY <1>2, <1>4, <2>1
    <2>3. a = 1 /\ b = n
      <3> HIDE DEF n
      <3> QED BY <2>1, <2>2
    <2>4. SubSeq(s, 1, Len(s)) = s
      BY SubSeqFull
    <2> QED BY <1>4, <2>3, <2>4
  <1> QED BY <1>3, <1>4, StripCut

\* A header holds every well-formed namespace as it is.
LEMMA HeaderOfToken ==
    ASSUME NEW s, Range(s) \subseteq PatternChars
    PROVE  Latin1(s) = s /\ ~OutsideLatin1(s) /\ ~HasLineBreak(s)
  <1>1. \A i \in DOMAIN s : s[i] < 128 /\ ~(s[i] >= 196) /\ s[i] # 10 /\ s[i] # 13
    <2> SUFFICES ASSUME NEW i \in DOMAIN s
                 PROVE  s[i] < 128 /\ ~(s[i] >= 196) /\ s[i] # 10 /\ s[i] # 13
      OBVIOUS
    <2> DEFINE b == s[i]
    <2>1. b \in PatternChars
      BY DEF Range
    <2>2. b \in 0..255
      BY <2>1, SMT DEF PatternChars, TokenChars, Digits, Letters
    <2>3. b < 128 /\ b # 10 /\ b # 13
      BY <2>1, TokensArePlain
    <2> HIDE DEF b
    <2>4. ~(b >= 196)
      BY <2>2, <2>3
    <2> QED BY <2>3, <2>4 DEF b
  <1>2. Latin1(s) = s
    BY <1>1, Latin1OfAscii
  <1>3. ~OutsideLatin1(s)
    BY <1>1, Zenon DEF OutsideLatin1
  <1>4. ~HasLineBreak(s)
    BY <1>1, Zenon DEF HasLineBreak
  <1> QED BY <1>2, <1>3, <1>4

\* The check of a namespace.
LEMMA NamespaceIsWell ==
    ASSUME NEW ns, ns = None \/ ns \in Seq(Octets)
    PROVE  NamespaceAccepted(ns) <=> NamespaceWell(NamespaceChecked(ns))
  <1>1. CASE ns = None
    BY <1>1 DEF NamespaceAccepted, NamespaceWell, NamespaceChecked
  <1>2. CASE ns # None
    <2> DEFINE s == Strip(ns)
    <2>1. NamespaceChecked(ns) = s
      BY <1>2 DEF NamespaceChecked
    <2>2. NamespaceAccepted(ns) <=> ~HasDoubleColon(s) /\ FullMatch(TokenChars, s)
      BY <1>2 DEF NamespaceAccepted
    <2>3. s # None
      <3>1. s \in Seq(Octets)
        BY <1>2, StripTwice
      <3> HIDE DEF s
      <3> QED BY <3>1, NoneAssumption DEF Octets
    <2> HIDE DEF s
    <2>4. HasDoubleColon(s) <=> ~\A i \in 1..(Len(s) - 1) : <<s[i], s[i + 1]>> # <<58, 58>>
      BY DEF HasDoubleColon, Colon
    <2> QED BY <2>1, <2>2, <2>3, <2>4, FullMatchRange DEF NamespaceWell
  <1> QED BY <1>1, <1>2

\* What the checks let through.
LEMMA ValidateIsWell ==
    ASSUME NEW c, c.op \notin Unchecked, c.ns = None \/ c.ns \in Seq(Octets), NEW s
    PROVE  Validate(s, c) <=> (s => /\ KeyWell(c.op, KeyChecked(c.op, c.key))
                                    /\ NamespaceWell(NamespaceChecked(c.ns)))
  <1>1. NamespaceAccepted(c.ns) <=> NamespaceWell(NamespaceChecked(c.ns))
    BY NamespaceIsWell
  <1>2. CASE c.op \in PatternOps
    <2>1. Validate(s, c) <=> ValidatePatternInputs(s, c.key, c.ns)
      BY <1>2 DEF Validate, PatternOps, Unchecked
    <2> QED BY <1>1, <1>2, <2>1, FullMatchRange DEF ValidatePatternInputs, KeyWell, KeyChecked
  <1>3. CASE c.op \notin PatternOps
    <2>1. Validate(s, c) <=> ValidateCoreInputs(s, c.key, c.ns)
      BY <1>3 DEF Validate, PatternOps, Unchecked
    <2> QED BY <1>1, <1>3, <2>1, FullMatchRange DEF ValidateCoreInputs, KeyWell, KeyChecked
  <1> QED BY <1>2, <1>3

\* A call that is well formed passes the checks, and a header can hold its
\* namespace.
LEMMA WellFormedPasses ==
    ASSUME NEW c \in Calls, ProperCall(c), WellFormed(c), NEW s
    PROVE  Validate(s, c) /\ ~HeaderRefused(c.ns)
  <1>1. CASE c.op \in Unchecked
    <2>1. Validate(s, c)
      BY <1>1 DEF Validate, Unchecked
    <2>2. c.op # "event"
      BY ConstantsAssumption DEF TcpOps, Range, RequestFields
    <2>3. c.ns = None
      BY <1>1, <2>2 DEF ProperCall, Unchecked
    <2> QED BY <2>1, <2>3 DEF HeaderRefused, HasNamespace
  <1>2. CASE c.op \notin Unchecked
    <2>1. c.op # "stats"
      BY <1>2 DEF Unchecked
    <2>2. /\ c.key \in Seq(Octets) /\ (c.ns = None \/ c.ns \in Seq(Octets))
      BY <2>1 DEF ProperCall, IsCall
    <2>3. KeyWell(c.op, c.key) /\ NamespaceWell(c.ns)
      BY <1>2, Zenon DEF WellFormed, KeyWell, NamespaceWell, Unchecked
    <2>4. KeyChecked(c.op, c.key) = c.key
      <3>1. CASE c.op \in PatternOps
        <4>1. Range(c.key) \subseteq PatternChars
          BY <2>3, <3>1 DEF KeyWell
        <4> QED BY <2>2, <3>1, <4>1, NothingToStrip DEF KeyChecked
      <3>2. CASE c.op \notin PatternOps
        BY <3>2 DEF KeyChecked
      <3> QED BY <3>1, <3>2
    <2>5. NamespaceChecked(c.ns) = c.ns /\ ~HeaderRefused(c.ns)
      <3>1. CASE c.ns = None
        BY <3>1 DEF NamespaceChecked, HeaderRefused, HasNamespace
      <3>2. CASE c.ns # None
        <4>1. c.ns \in Seq(Octets) /\ Range(c.ns) \subseteq PatternChars
          BY <2>2, <2>3, <3>2, TokensArePlain DEF NamespaceWell
        <4>2. Strip(c.ns) = c.ns /\ ~OutsideLatin1(c.ns) /\ ~HasLineBreak(c.ns)
          BY <4>1, NothingToStrip, HeaderOfToken
        <4> QED BY <3>2, <4>2 DEF NamespaceChecked, HeaderRefused
      <3> QED BY <3>1, <3>2
    <2>6. Validate(s, c)
      BY <1>2, <2>2, <2>3, <2>4, <2>5, ValidateIsWell
    <2> QED BY <2>5, <2>6
  <1> QED BY <1>1, <1>2

\* A namespace that no header can hold is not printable.
LEMMA RefusedNotPrintable ==
    ASSUME NEW ns, HeaderRefused(ns)
    PROVE  ~Printable(Strip(ns))
  <1> DEFINE s == Strip(ns)
  <1> SUFFICES ASSUME Printable(s) PROVE FALSE
    OBVIOUS
  <1>1. OutsideLatin1(s) \/ HasLineBreak(s)
    BY DEF HeaderRefused
  <1> HIDE DEF s
  <1>2. \A i \in DOMAIN s : s[i] \in 32..126
    BY DEF Printable
  <1>3. \A b \in 32..126 : ~(b >= 196) /\ b # 10 /\ b # 13
    BY SMT
  <1>4. \A i \in DOMAIN s : ~(s[i] >= 196) /\ s[i] # 10 /\ s[i] # 13
    BY <1>2, <1>3, Zenon
  <1>5. ~OutsideLatin1(s)
    BY <1>4, Zenon DEF OutsideLatin1
  <1>6. ~HasLineBreak(s)
    BY <1>4, Zenon DEF HasLineBreak
  <1> QED BY <1>1, <1>5, <1>6

\* A reading without its blanks.
LEMMA TrimmedParts ==
    ASSUME NEW o, NEW k, NEW v, NEW d, NEW t, NEW n, NEW r,
           r = [op |-> o, key |-> k, value |-> v, delta |-> d, ttl |-> t, ns |-> n]
    PROVE  /\ Trimmed(r).op = o /\ Trimmed(r).key = KeyChecked(o, k)
           /\ Trimmed(r).ns = NamespaceChecked(n)
  <1>1. r.op = o /\ r.key = k /\ r.ns = n
    OBVIOUS
  <1> DEFINE a == KeyChecked(o, k)
             b == NamespaceChecked(n)
  <1>2. Trimmed(r) = [r EXCEPT !.key = a, !.ns = b]
    BY <1>1, Zenon DEF Trimmed, KeyChecked, NamespaceChecked
  <1> HIDE DEF a, b
  <1>3. Trimmed(r) = [op |-> o, key |-> a, value |-> v, delta |-> d, ttl |-> t, ns |-> b]
    BY <1>2
  <1> QED BY <1>3 DEF a, b

\* What is well formed satisfies the contract.
LEMMA WellIsWellFormed ==
    ASSUME NEW a, KeyWell(a.op, a.key), NamespaceWell(a.ns)
    PROVE  WellFormed(a)
  BY Zenon DEF WellFormed, KeyWell, NamespaceWell

\* What the server reads of a call that has passed the checks is well formed;
\* of a padded one, up to the blanks.
LEMMA ReadIsWellFormed ==
    ASSUME Wide, ProperCalls, transport \in {"tcp", "http"},
           NEW x \in Readings(strict, transport), NEW c, NEW r, c = x.call, r = x.read
    PROVE  strict => WellFormed(IF Padded(c) THEN Trimmed(r) ELSE r)
  <1>1. /\ r.op = c.op /\ r.key = c.key /\ c.op # "event" /\ Validate(strict, c)
        /\ c.op = "stats" \/ IsCall(c)
        /\ c.ns = None \/ c.ns \in Seq(Octets)
        /\ r.ns = IF ~HasNamespace(c.ns) THEN None
                  ELSE IF transport = "tcp" THEN c.ns ELSE Latin1(Strip(c.ns))
        /\ Trimmed(r).op = c.op /\ Trimmed(r).key = KeyChecked(c.op, c.key)
        /\ Trimmed(r).ns = NamespaceChecked(r.ns)
    <2>1. CASE transport = "tcp"
      <3>0. x \in Readings(strict, "tcp")
        BY <2>1
      <3>1. /\ IsCall(c) /\ c.op \in SentOps /\ Validate(strict, c) /\ r.op = c.op /\ r.key = c.key
            /\ r.ns = (IF HasNamespace(c.ns) THEN c.ns ELSE None)
            /\ r = RequestRead(c)
        BY <3>0, ReadOverTcp
      <3>2. c.op # "event"
        BY <3>1, OpsApart
      <3>3. c.ns = None \/ c.ns \in Seq(Octets)
        BY <3>1 DEF IsCall
      <3>4. r = [op |-> r.op, key |-> r.key, value |-> r.value, delta |-> r.delta,
                 ttl |-> r.ttl, ns |-> r.ns]
        BY <3>1 DEF RequestRead
      <3>5. /\ Trimmed(r).op = r.op /\ Trimmed(r).key = KeyChecked(r.op, r.key)
            /\ Trimmed(r).ns = NamespaceChecked(r.ns)
        BY <3>4, TrimmedParts
      <3> QED BY <2>1, <3>1, <3>2, <3>3, <3>5
    <2>2. CASE transport = "http"
      <3>0. x \in Readings(strict, "http")
        BY <2>2
      <3>1. /\ c.op \in HttpOps /\ Validate(strict, c) /\ r = HttpRead(c)
            /\ c.op = "stats" \/ IsCall(c)
            /\ c.ns = None \/ c.ns \in Seq(Octets)
        BY <3>0, ReadOverHttp
      <3>2. c.op # "event"
        BY <3>1 DEF HttpOps, TcpOps, Range, RequestFields
      <3>3. r = [op |-> c.op, key |-> c.key, value |-> c.value, delta |-> c.delta,
                 ttl |-> PositiveTtl(c.ttl), ns |-> NamespaceHeaders(c.ns)]
        BY <3>1 DEF HttpRead
      <3>4. r.op = c.op /\ r.key = c.key /\ r.ns = NamespaceHeaders(c.ns)
        BY <3>3
      <3>5. /\ Trimmed(r).op = c.op /\ Trimmed(r).key = KeyChecked(c.op, c.key)
            /\ Trimmed(r).ns = NamespaceChecked(NamespaceHeaders(c.ns))
        BY <3>3, TrimmedParts
      <3>6. r.ns = IF ~HasNamespace(c.ns) THEN None ELSE Latin1(Strip(c.ns))
        BY <3>4, Zenon DEF NamespaceHeaders
      <3> QED BY <2>2, <3>1, <3>2, <3>4, <3>5, <3>6
    <2> QED BY <2>1, <2>2
  <1>2. CASE c.op \in Unchecked
    <2>1. c.op \in {"ping", "stats", "auth"}
      BY <1>1, <1>2 DEF Unchecked
    <2> QED BY <1>1, <2>1 DEF WellFormed
  <1>3. CASE c.op \notin Unchecked
    <2> SUFFICES ASSUME strict PROVE WellFormed(IF Padded(c) THEN Trimmed(r) ELSE r)
      OBVIOUS
    <2> DEFINE k == KeyChecked(c.op, c.key)
               n == NamespaceChecked(c.ns)
    <2>1. KeyWell(c.op, k) /\ NamespaceWell(n)
      BY <1>1, <1>3, ValidateIsWell
    <2>2. CASE n = None
      <3>1. c.ns = None
        <4> SUFFICES ASSUME c.ns # None PROVE FALSE
          OBVIOUS
        <4>1. Strip(c.ns) \in Seq(Octets)
          BY <1>1, StripTwice
        <4>2. Strip(c.ns) = None
          BY <2>2 DEF NamespaceChecked
        <4> QED BY <4>1, <4>2, NoneAssumption DEF Octets
      <3>2. r.ns = None
        BY <1>1, <3>1 DEF HasNamespace
      <3>3. NamespaceChecked(r.ns) = n /\ r.ns = n
        BY <2>2, <3>1, <3>2
      <3>4. CASE Padded(c)
        <4>1. WellFormed(Trimmed(r))
          BY <1>1, <2>1, <3>3, WellIsWellFormed
        <4> QED BY <3>4, <4>1
      <3>5. CASE ~Padded(c)
        <4>1. r.key = k
          BY <1>1, <3>5 DEF Padded, KeyChecked
        <4>2. WellFormed(r)
          BY <1>1, <2>1, <3>3, <4>1, WellIsWellFormed
        <4> QED BY <3>5, <4>2
      <3> QED BY <3>4, <3>5
    <2>3. CASE n # None
      <3>1. c.ns # None /\ n = Strip(c.ns)
        BY <2>3 DEF NamespaceChecked
      <3>2. n # <<>> /\ Range(n) \subseteq PatternChars
        BY <2>1, <2>3, TokensArePlain DEF NamespaceWell
      <3>3. Latin1(n) = n
        BY <3>2, HeaderOfToken
      <3>4. Strip(n) = n
        BY <1>1, <3>1, StripTwice
      <3>5. HasNamespace(c.ns)
        BY <3>1, <3>2 DEF HasNamespace
      <3>6. r.ns = IF transport = "tcp" THEN c.ns ELSE n
        BY <1>1, <3>1, <3>3, <3>5
      <3>7. NamespaceChecked(r.ns) = n
        BY <2>3, <3>1, <3>4, <3>6 DEF NamespaceChecked
      <3>8. CASE Padded(c)
        <4>1. WellFormed(Trimmed(r))
          BY <1>1, <2>1, <3>7, WellIsWellFormed
        <4> QED BY <3>8, <4>1
      <3>9. CASE ~Padded(c)
        <4>1. r.key = k
          BY <1>1, <3>9 DEF Padded, KeyChecked
        <4>2. r.ns = n
          BY <3>1, <3>6, <3>9 DEF Padded
        <4>3. WellFormed(r)
          BY <1>1, <2>1, <4>1, <4>2, WellIsWellFormed
        <4> QED BY <3>9, <4>3
      <3> QED BY <3>8, <3>9
    <2> QED BY <2>2, <2>3
  <1> QED BY <1>2, <1>3

(***************************************************************************)
(* How operations end                                                      *)
(***************************************************************************)

\* An answer is not None.
LEMMA AnswerIsSome ==
    ASSUME NEW r \in Responses, NEW form \in AllForms \cup HttpForms,
           NEW status \in Statuses \cup {0, 200, 204, 404}, NEW own \in BOOLEAN
    PROVE  Answered(r, form, status, own) # None
  <1> DEFINE F == GoodForms \cup BadForms \cup {"oversized", "not json"}
             T == Statuses \cup {0, 200, 204, 404}
  <1>1. \A x \in Responses, y \in F, z \in T : \A o \in BOOLEAN : Answered(x, y, z, o) # None
    BY NoAnswerAssumption, Zenon DEF Answered
  <1>2. form \in F
    BY Zenon DEF AllForms, HttpForms, GoodForms
  <1>3. status \in T
    BY Zenon
  <1> HIDE DEF F, T
  <1> QED BY <1>1, <1>2, <1>3, Zenon

\* The kinds of results.
LEMMA KindsApart ==
    /\ ValueError # RuntimeError /\ ValueError # OSError /\ ValueError # Returned("None")
    /\ ValueError # HTTPException /\ ValueError # UnicodeDecodeError
    /\ UnicodeEncodeError # RuntimeError /\ UnicodeEncodeError # OSError
    /\ UnicodeEncodeError # Returned("None")
    /\ UnicodeEncodeError # HTTPException /\ UnicodeEncodeError # UnicodeDecodeError
  BY DEF ValueError, RuntimeError, OSError, Returned, HTTPException, UnicodeDecodeError,
         UnicodeEncodeError

\* Only the application's own requests watch keys: a connection that is being
\* authenticated is a new one, with nothing on it but that.
AuthInv ==
    sock = "none" \/ (Reading /\ call.op = "auth") => ~torn /\ ~stray /\ ~watching

\* What an HTTP response is an answer to.
ReplyTo(op, q) ==
    \E r \in Responses : \E form \in HttpForms : \E status \in StatusOf(r) :
       /\ r.type \in Accepted[op] \cup {"Error"}
       /\ answer = Answered(r, form, status, TRUE)
       /\ q = HttpReply(r, form, status)

\* Over HTTP whoever has an answer has its response.
AnswerInv ==
    reply # None \/ (transport = "http" /\ answer # None) =>
        /\ transport = "http" /\ at # "idle" /\ call.op \in HttpOps
        /\ ReplyTo(call.op, reply)

\* Who has a response has an answer.
LEMMA ReplyIsSome ==
    ASSUME NEW op, NEW q, ReplyTo(op, q)
    PROVE  answer # None
  <1>1. PICK r \in Responses : \E form \in HttpForms : \E status \in StatusOf(r) :
               answer = Answered(r, form, status, TRUE)
    BY DEF ReplyTo
  <1>2. PICK form \in HttpForms : \E status \in StatusOf(r) :
               answer = Answered(r, form, status, TRUE)
    BY <1>1
  <1>3. PICK status \in StatusOf(r) : answer = Answered(r, form, status, TRUE)
    BY <1>2
  <1>4. status \in Statuses \cup {0, 200, 204, 404} /\ TRUE \in BOOLEAN
    BY DEF StatusOf
  <1> QED BY <1>3, <1>4, AnswerIsSome

\* A call that is refused before it is sent has not passed the checks, or has a
\* namespace that no header can hold.
RefusalJustified ==
    result \in {ValueError, UnicodeEncodeError} =>
        call \in Calls /\ \/ ~Validate(strict, call)
                          \/ transport = "http" /\ HeaderRefused(call.ns)

\* The result is what the client makes of a payload, and that is the answer to
\* the call unless something stray is on the connection.
Understood ==
    /\ transport = "tcp" /\ call.op \in TcpReads
    /\ \E r \in TcpResponses : \E form \in GoodForms \cup BadForms : \E own \in BOOLEAN :
          /\ answer = Answered(r, form, 0, own)
          /\ result = TcpOutcome(call.op, DecodeResponse(Payload(r, form)))
          /\ stray \/ call.op = "event" \/ own

EndInv ==
    at = "done" /\ ~torn =>
        \/ answer = None /\ Unanswered /\ RefusalJustified
        \/ Understood
        \/ transport = "http" /\ answer # None
              /\ (result = HttpOutcome(call.op, reply) \/ result \in Losses)

\* They hold at the start.
LEMMA InitEnds == Init => AuthInv /\ AnswerInv /\ EndInv
  BY DEF Init, AuthInv, AnswerInv, EndInv, Reading

\* Every step keeps what is known of an authentication.
LEMMA StepAuthInv == IInv /\ QueueInv /\ AuthInv /\ [Next]_vars => AuthInv'
  <1> SUFFICES ASSUME IInv, QueueInv, AuthInv, [Next]_vars PROVE AuthInv'
    OBVIOUS
  <1>1. ASSUME ~Reading', UNCHANGED <<sock, torn, stray, watching>> PROVE AuthInv'
    BY <1>1 DEF AuthInv
  <1>2. ASSUME Reading' => Reading, UNCHANGED <<sock, call, torn, stray, watching>> PROVE AuthInv'
    BY <1>2 DEF AuthInv
  <1>3. CASE Connect
    BY <1>3 DEF Connect, AuthInv
  <1>4. ASSUME NEW c \in Calls, Call(c) PROVE AuthInv'
    <2>1. c.op # "auth"
      BY ConstantsAssumption DEF TcpOps
    <2>2. call' = c /\ UNCHANGED <<sock, torn, stray, watching>>
      BY <1>4 DEF Call, tcpVars
    <2> QED BY <2>1, <2>2 DEF AuthInv
  <1>5. CASE WaitWatchEvent
    <2>1. call' = EventWait /\ EventWait.op # "auth" /\ UNCHANGED <<sock, torn, stray, watching>>
      BY <1>5 DEF WaitWatchEvent, EventWait, NoCall, tcpVars
    <2> QED BY <2>1 DEF AuthInv
  <1>6. CASE ConnectFails \/ Finish \/ HttpAnswered \/ HttpLost \/ ServeHttp
    <2>1. ~Reading' /\ UNCHANGED <<sock, torn, stray, watching>>
      BY <1>6 DEF ConnectFails, Finish, HttpAnswered, HttpLost, ServeHttp, Return, Reading, tcpVars
    <2> QED BY <1>1, <2>1
  <1>7. ASSUME CloseLocked PROVE AuthInv'
    BY <1>7 DEF CloseLocked, AuthInv
  <1>8. ASSUME Reading, at' = "done", UNCHANGED sock PROVE AuthInv'
    BY <1>8 DEF AuthInv, IInv, TypeOK, Reading
  <1>9. CASE Close
    BY <1>7, <1>9 DEF Close
  <1>10. CASE PayloadRead
    <2>1. Reading /\ at' = "done" /\ (CloseLocked \/ UNCHANGED sock)
      BY <1>10 DEF PayloadRead, Return, Reading
    <2> QED BY <1>7, <1>8, <2>1
  <1>11. CASE RecvEof \/ RecvTimeout \/ (HeaderRead /\ TooLarge(data))
    <2>1. Reading /\ ReadFails
      BY <1>11 DEF RecvEof, RecvTimeout, HeaderRead, Reading
    <2>2. at' = "done" /\ (CloseLocked \/ UNCHANGED sock)
      BY <2>1 DEF ReadFails, CloseAfterFailure, KeepSock, Return
    <2> QED BY <1>7, <1>8, <2>1, <2>2
  <1>12. CASE RecvChunk \/ (HeaderRead /\ ~TooLarge(data)) \/ UNCHANGED vars
    <2>1. (Reading' => Reading) /\ UNCHANGED <<sock, call, torn, stray, watching>>
      BY <1>12 DEF RecvChunk, HeaderRead, vars, tcpVars, Reading
    <2> QED BY <1>2, <2>1
  <1>13. CASE Break
    <2>1. /\ sock' = "eof" /\ watching' = FALSE /\ UNCHANGED <<at, call, torn, stray>>
      BY <1>13 DEF Break
    <2> QED BY <2>1 DEF AuthInv, Reading
  <1>14. CASE Push
    <2>1. sock = "open" /\ watching /\ UNCHANGED <<sock, at, call>>
      BY <1>14 DEF Push
    <2> QED BY <2>1 DEF AuthInv, Reading
  <1>15. CASE Serve
    <2>1. UNCHANGED <<at, call, sock, torn, stray>> /\ requests # <<>> /\ sock = "open"
      BY <1>15 DEF Serve
    <2> SUFFICES ASSUME Reading, call.op = "auth" PROVE ~torn' /\ ~stray' /\ ~watching'
      BY <2>1 DEF AuthInv, Reading
    <2>2. ~torn /\ ~stray /\ ~watching
      BY DEF AuthInv
    <2>3. transport = "tcp" /\ Waiting(at, call)
      BY DEF IInv, TypeOK, Reading, Waiting
    <2>4. Alone(requests, unread, call)
      BY <2>2, <2>3 DEF QueueInv
    <2>5. Head(requests).call = call
      <3> DEFINE S == Requests(strict, transport)
      <3>1. requests \in Seq(S)
        BY DEF IInv, AskInv
      <3> HIDE DEF S
      <3>2. Len(requests) \in Nat \ {0} /\ Head(requests) = requests[1]
        BY <2>1, <3>1, RestOf
      <3>3. 1 \in 1..Len(requests)
        BY <3>2
      <3> QED BY <2>4, <3>2, <3>3 DEF Alone
    <2>6. watching' = watching
      <3>1. PICK r \in {x \in Responses : x.type \in Accepted[Head(requests).call.op] \cup {"Error", "Pong"}} :
               watching' = CASE r.type = "Watching"  -> TRUE
                             [] r.type = "Unwatched" -> FALSE
                             [] OTHER                -> watching
        BY <1>15, Zenon DEF Serve
      <3>2. r.type \in {"AuthOk", "Error", "Pong"}
        BY <2>5, <3>1 DEF Accepted
      <3>3. r.type # "Watching" /\ r.type # "Unwatched"
        BY <3>2
      <3> QED BY <3>1, <3>3, Zenon
    <2> QED BY <2>1, <2>2, <2>6
  <1> QED
    BY <1>3, <1>4, <1>5, <1>6, <1>9, <1>10, <1>11, <1>12, <1>13, <1>14, <1>15 DEF Next

\* Every step keeps the response and its answer together.
LEMMA StepAnswerInv == IInv /\ AnswerInv /\ [Next]_vars => AnswerInv'
  <1> SUFFICES ASSUME IInv, AnswerInv, [Next]_vars PROVE AnswerInv'
    OBVIOUS
  <1>1. ASSUME UNCHANGED <<transport, reply, answer, call>>, at' # "idle" \/ at' = at
        PROVE  AnswerInv'
    <2>1. ReplyTo(call.op, reply) => ReplyTo(call.op, reply)'
      BY <1>1 DEF ReplyTo
    <2> QED BY <1>1, <2>1 DEF AnswerInv
  <1>2. ASSUME reply' = None, answer' = None \/ transport' = "tcp" PROVE AnswerInv'
    BY <1>2 DEF AnswerInv
  <1>3. CASE Connect \/ ConnectFails \/ WaitWatchEvent \/ \E c \in Calls : Call(c)
    <2>1. reply = None /\ answer = None /\ reply' = reply /\ answer' = answer
      BY <1>3 DEF Connect, ConnectFails, WaitWatchEvent, Call, AnswerInv, IInv, CallInv
    <2> QED BY <1>2, <2>1
  <1>4. CASE Finish
    BY <1>2, <1>4 DEF Finish
  <1>5. CASE Close \/ Push \/ Break \/ RecvChunk \/ Serve \/ UNCHANGED vars
    <2>1. UNCHANGED <<transport, reply, answer, call, at>>
      BY <1>5 DEF Close, Push, Break, RecvChunk, Serve, vars, tcpVars
    <2> QED BY <1>1, <2>1
  <1>6. CASE ReadFails \/ (HeaderRead /\ ~TooLarge(data)) \/ HttpAnswered \/ HttpLost
    <2>1. UNCHANGED <<transport, reply, answer, call>> /\ at' # "idle"
      BY <1>6 DEF ReadFails, HeaderRead, HttpAnswered, HttpLost, Return
    <2> QED BY <1>1, <2>1
  <1>7. CASE PayloadRead
    <2>1. transport = "tcp" /\ UNCHANGED <<transport, reply>>
      BY <1>7 DEF PayloadRead, IInv, TypeOK, Reading
    <2>2. reply' = None
      BY <2>1 DEF AnswerInv
    <2> QED BY <1>2, <2>1, <2>2
  <1>8. CASE ServeHttp
    <2>1. /\ at = "http" /\ transport = "http" /\ call.op \in HttpOps
          /\ UNCHANGED <<transport, at, call>>
      BY <1>8 DEF ServeHttp, IInv, CallInv
    <2>2. PICK r \in Responses, form \in {"plain", "not json"} :
             \E status \in StatusOf(r) :
               /\ r.type \in Accepted[call.op] \cup {"Error"}
               /\ answer' = [resp |-> r, form |-> form, status |-> status, own |-> TRUE]
               /\ reply' = [status |-> status,
                            body |-> IF form = "plain" /\ r.type \notin {"Deleted", "NotFound"}
                                     THEN JsonBody(r) ELSE [json |-> FALSE]]
      BY <1>8, Zenon DEF ServeHttp
    <2>3. PICK status \in StatusOf(r) :
               /\ r.type \in Accepted[call.op] \cup {"Error"}
               /\ answer' = [resp |-> r, form |-> form, status |-> status, own |-> TRUE]
               /\ reply' = [status |-> status,
                            body |-> IF form = "plain" /\ r.type \notin {"Deleted", "NotFound"}
                                     THEN JsonBody(r) ELSE [json |-> FALSE]]
      BY <2>2, Zenon
    <2>4. form \in HttpForms
      BY Zenon DEF HttpForms
    <2>5. answer' = Answered(r, form, status, TRUE) /\ reply' = HttpReply(r, form, status)
      BY <2>3, Zenon DEF Answered, HttpReply
    <2>6. ReplyTo(call.op, reply)'
      BY <2>1, <2>3, <2>4, <2>5 DEF ReplyTo
    <2> QED BY <2>1, <2>6 DEF AnswerInv
  <1>9. CASE RecvEof \/ RecvTimeout \/ (HeaderRead /\ TooLarge(data))
    BY <1>6, <1>9 DEF RecvEof, RecvTimeout, HeaderRead
  <1> QED BY <1>3, <1>4, <1>5, <1>6, <1>7, <1>8, <1>9 DEF Next

\* Whoever reads a payload to its end, of a connection that is in order, gets
\* the oldest response on it.
LEMMA PayloadUnderstood ==
    ASSUME IInv, FrameInv, QueueInv, AuthInv, PayloadRead, ~torn'
    PROVE  Understood'
  <1> DEFINE x == Head(unread)
             r == x.resp
             form == x.form
             own == x.to = call
  <1>1. /\ at = "payload" /\ Len(data) = Length(head)
        /\ result' = TcpOutcome(call.op, DecodeResponse(data))
        /\ UNCHANGED <<transport, call>>
    BY DEF PayloadRead, Return
  <1>2. transport = "tcp" /\ Reading /\ call.op \in TcpReads
    BY <1>1, ReadsAreSent DEF IInv, TypeOK, CallInv, Reading
  <1>3. \/ call.op = "auth" /\ CloseLocked
        \/ /\ unread' = Rest(unread) /\ UNCHANGED <<sock, requests, torn>>
           /\ stray' = (stray /\ (sock = "eof" \/ requests # <<>> \/ Rest(unread) # <<>>))
    BY DEF PayloadRead
  <1>4. ~torn
    BY <1>2, <1>3 DEF AuthInv
  <1>5. /\ unread # <<>> /\ x \in Frames /\ x.bytes = head \o data
        /\ Len(head) = 4 /\ Length(x.bytes) = Length(head) /\ Length(head) <= MaxFrame
    BY <1>1, <1>4, PayloadArrived
  <1>6. /\ answer' = [resp |-> r, form |-> form, status |-> 0, own |-> own]
    BY <1>5, Zenon DEF PayloadRead
  <1>7. own \in BOOLEAN /\ answer' = Answered(r, form, 0, own)
    BY <1>6, Zenon DEF Answered
  <1>8. stray' \/ call.op = "event" \/ own
    <2> SUFFICES ASSUME ~stray', call.op # "event" PROVE own
      OBVIOUS
    <2>1. Waiting(at, call)
      BY <1>1 DEF Waiting
    <2>2. requests \in Seq(Requests(strict, transport)) /\ unread \in Seq(Frames)
      BY DEF IInv, AskInv, CallInv
    <2>3. CASE ~stray
      <3>1. Alone(requests, unread, call)
        BY <1>2, <1>4, <2>1, <2>3 DEF QueueInv
      <3> QED BY <1>5, <2>2, <3>1, AloneHead
    <2>4. CASE stray
      <3>1. sock # "eof" /\ requests = <<>> /\ Rest(unread) = <<>>
        BY <1>2, <1>3, <2>4 DEF AuthInv
      <3>2. sock = "open"
        BY <1>2, <3>1 DEF IInv, TypeOK
      <3>3. Own(<<>>, unread, call)
        BY <1>2, <2>1, <3>1, <3>2 DEF QueueInv
      <3> QED BY <1>5, <2>2, <3>1, <3>3, OwnHead
    <2> QED BY <2>3, <2>4
  <1> HIDE DEF own
  <1>9. /\ r \in TcpResponses /\ form \in AllForms /\ x.bytes = AnswerFrame(r, form)
        /\ form # "oversized" => Len(Payload(r, form)) <= MaxFrame
    BY <1>5 DEF Frames
  <1>10. form \in GoodForms \cup BadForms /\ data = Payload(r, form)
    <2> DEFINE p == Payload(r, form)
               f == x.bytes
    <2>1. Length(f) <= MaxFrame /\ f = AnswerFrame(r, form) /\ f = head \o data
      BY <1>5, <1>9
    <2> HIDE DEF x
    <2>2. /\ form \in GoodForms \cup BadForms
          /\ p \in Seq(Bytes) /\ Len(p) \in Nat /\ Length(f) = Len(p)
          /\ \A i \in 1..Len(p) : f[4 + i] = p[i]
      BY <1>9, <2>1, PayloadInFrame
    <2> HIDE DEF p, form, r
    <2>3. head \in Seq(Bytes) /\ data \in Seq(Bytes) /\ Len(data) = Len(p) /\ Len(head) = 4
      BY <1>1, <1>5, <2>2 DEF IInv, TypeOK
    <2>4. \A i \in 1..Len(p) : data[i] = p[i]
      <3>1. \A h, d \in Seq(Bytes) :
               \A j \in 1..(Len(h) + Len(d)) :
                  (h \o d)[j] = IF j <= Len(h) THEN h[j] ELSE d[j - Len(h)]
        BY ConcatProperties
      <3>2. \A j \in 1..(Len(head) + Len(data)) :
               f[j] = IF j <= Len(head) THEN head[j] ELSE data[j - Len(head)]
        <4> HIDE DEF f
        <4> QED BY <2>1, <2>3, <3>1
      <3> SUFFICES ASSUME NEW i \in 1..Len(p) PROVE data[i] = p[i]
        OBVIOUS
      <3>3. 4 + i \in 1..(4 + Len(p)) /\ ~(4 + i <= 4) /\ (4 + i) - 4 = i
        BY <2>2
      <3>4. f[4 + i] = data[i]
        BY <2>3, <3>2, <3>3
      <3> QED BY <2>2, <3>4
    <2>5. data = p
      BY <2>2, <2>3, <2>4, SeqEqual
    <2> QED BY <2>2, <2>5 DEF p
  <1>11. result' = TcpOutcome(call.op, DecodeResponse(Payload(r, form)))
    BY <1>1, <1>10
  <1> HIDE DEF r, form, x
  <1> QED BY <1>1, <1>2, <1>7, <1>8, <1>9, <1>10, <1>11 DEF Understood

\* Every step keeps what the ends of operations mean.
LEMMA StepEndInv ==
    IInv /\ FrameInv /\ QueueInv /\ AuthInv /\ AnswerInv /\ EndInv /\ [Next]_vars => EndInv'
  <1> SUFFICES ASSUME IInv, FrameInv, QueueInv, AuthInv, AnswerInv, EndInv, [Next]_vars
               PROVE  EndInv'
    OBVIOUS
  <1>1. ASSUME at' # "done" PROVE EndInv'
    BY <1>1 DEF EndInv
  <1>2. ASSUME answer' = None, Unanswered', RefusalJustified' PROVE EndInv'
    BY <1>2 DEF EndInv
  <1>3. ASSUME UNCHANGED <<at, torn, answer, result, call, transport, strict, reply>>,
               stray => stray', sock' = sock \/ (sock # "none" /\ sock' # "none")
        PROVE  EndInv'
    <2>1. Unanswered => Unanswered'
      BY <1>3 DEF Unanswered, Losses
    <2>2. RefusalJustified => RefusalJustified'
      BY <1>3 DEF RefusalJustified
    <2>3. Understood => Understood'
      BY <1>3 DEF Understood
    <2>4. Losses' = Losses
      BY <1>3 DEF Losses
    <2> QED BY <1>3, <2>1, <2>2, <2>3, <2>4 DEF EndInv
  <1>4. at = "idle" => answer = None /\ call = NoCall
    BY DEF IInv, CallInv
  <1>5. CASE Connect
    <2>1. CASE Token = None
      <3>1. /\ at = "idle" /\ result' = Returned("None") /\ UNCHANGED <<call, answer>>
        BY <1>5, <2>1 DEF Connect, Return
      <3> QED BY <1>2, <1>4, <3>1, KindsApart DEF Unanswered, RefusalJustified
    <2>2. CASE Token # None
      BY <1>1, <1>5, <2>2 DEF Connect
    <2> QED BY <2>1, <2>2
  <1>6. CASE ConnectFails
    <2>1. /\ at = "idle" /\ transport' = "tcp" /\ sock' = "none" /\ result' = OSError
          /\ UNCHANGED answer
      BY <1>6 DEF ConnectFails, Return, tcpVars
    <2> QED BY <1>2, <1>4, <2>1, KindsApart DEF Unanswered, RefusalJustified, Losses
  <1>7. ASSUME NEW c \in Calls, Call(c) PROVE EndInv'
    <2>1. /\ at = "idle" /\ call' = c /\ UNCHANGED <<strict, transport, sock, answer>>
          /\ transport \in {"tcp", "http"}
      BY <1>7 DEF Call, tcpVars, IInv, TypeOK
    <2>2. answer' = None
      BY <1>4, <2>1
    <2>3. CASE ~Validate(strict, c) /\ result' = ValueError
      BY <1>2, <2>1, <2>2, <2>3 DEF Unanswered, RefusalJustified
    <2>4. CASE transport = "tcp" /\ sock = "none" /\ result' = RuntimeError
      BY <1>2, <2>1, <2>2, <2>4, KindsApart DEF Unanswered, RefusalJustified
    <2>5. CASE transport = "http" /\ HeaderRefused(c.ns) /\ result' = HeaderError(c.ns)
      <3>1. result' \in {ValueError, UnicodeEncodeError}
        BY <2>5 DEF HeaderError
      <3> QED BY <1>2, <2>1, <2>2, <2>5, <3>1 DEF Unanswered, RefusalJustified
    <2>6. CASE at' \in {"header", "http"}
      BY <1>1, <2>6
    <2>7. \/ ~Validate(strict, c) /\ result' = ValueError
          \/ transport = "tcp" /\ sock = "none" /\ result' = RuntimeError
          \/ transport = "http" /\ HeaderRefused(c.ns) /\ result' = HeaderError(c.ns)
          \/ at' \in {"header", "http"}
      BY <1>7 DEF Call, Return
    <2> QED BY <2>3, <2>4, <2>5, <2>6, <2>7
  <1>8. CASE WaitWatchEvent
    <2>1. CASE sock = "none"
      <3>1. /\ at = "idle" /\ transport' = "tcp" /\ sock' = "none" /\ result' = RuntimeError
            /\ UNCHANGED answer
        BY <1>8, <2>1 DEF WaitWatchEvent, Return, tcpVars
      <3> QED BY <1>2, <1>4, <3>1, KindsApart DEF Unanswered, RefusalJustified
    <2>2. CASE sock # "none"
      BY <1>1, <1>8, <2>2 DEF WaitWatchEvent
    <2> QED BY <2>1, <2>2
  <1>9. CASE RecvEof \/ RecvTimeout \/ (HeaderRead /\ TooLarge(data))
    <2>1. Reading /\ ReadFails
      BY <1>9 DEF RecvEof, RecvTimeout, HeaderRead, Reading
    <2>2. transport = "tcp" /\ answer = None
      BY <2>1 DEF IInv, TypeOK, CallInv, Reading
    <2>3. /\ result' = OSError /\ answer' = None /\ transport' = "tcp" /\ call' = call
          /\ sock' = "none" \/ call.op \in {"event", "auth"}
      BY <2>1, <2>2 DEF ReadFails, CloseAfterFailure, CloseLocked, Return
    <2> QED BY <1>2, <2>3, KindsApart DEF Unanswered, RefusalJustified, Losses
  <1>10. CASE PayloadRead
    BY <1>10, PayloadUnderstood DEF EndInv
  <1>11. CASE HttpAnswered
    <2>1. reply # None /\ result' = HttpOutcome(call.op, reply)
          /\ UNCHANGED <<transport, call, reply, answer>>
      BY <1>11 DEF HttpAnswered, Return
    <2>2. transport = "http" /\ ReplyTo(call.op, reply)
      BY <2>1 DEF AnswerInv
    <2>3. answer # None
      BY <2>2, ReplyIsSome
    <2> QED BY <2>1, <2>2, <2>3 DEF EndInv
  <1>12. CASE HttpLost
    <2>1. /\ at = "http" /\ result' \in {OSError, HTTPException, UnicodeDecodeError}
          /\ UNCHANGED <<transport, sock, call, answer>>
      BY <1>12 DEF HttpLost, Return, tcpVars
    <2>2. transport = "http" /\ sock = "none"
      BY <2>1 DEF IInv, CallInv, TypeOK
    <2>3. result' \in Losses'
      BY <2>1, <2>2 DEF Losses
    <2>4. CASE answer = None
      BY <1>2, <2>1, <2>2, <2>3, <2>4, KindsApart DEF Unanswered, RefusalJustified
    <2>5. CASE answer # None
      BY <2>1, <2>2, <2>3, <2>5 DEF EndInv
    <2> QED BY <2>4, <2>5
  <1>13. CASE Serve \/ Push \/ Break \/ UNCHANGED vars
    <2>1. UNCHANGED <<at, torn, answer, result, call, transport, strict, reply>>
      BY <1>13 DEF Serve, Push, Break, vars, tcpVars
    <2>2. stray' = stray \/ stray' = TRUE
      BY <1>13 DEF Serve, Push, Break, vars, tcpVars
    <2>3. sock' = sock \/ (sock # "none" /\ sock' # "none")
      BY <1>13 DEF Serve, Push, Break, vars, tcpVars
    <2> QED BY <1>3, <2>1, <2>2, <2>3
  <1>14. CASE Close \/ Finish \/ RecvChunk \/ (HeaderRead /\ ~TooLarge(data)) \/ ServeHttp
    <2>1. at' # "done"
      BY <1>14 DEF Close, Finish, RecvChunk, HeaderRead, ServeHttp, Reading
    <2> QED BY <1>1, <2>1
  <1> QED
    BY <1>5, <1>6, <1>7, <1>8, <1>9, <1>10, <1>11, <1>12, <1>13, <1>14 DEF Next

\* What is understood is an answer.
LEMMA UnderstoodIsSome == Understood => answer # None
  <1> SUFFICES ASSUME Understood PROVE answer # None
    OBVIOUS
  <1>1. PICK r \in TcpResponses : \E form \in GoodForms \cup BadForms : \E own \in BOOLEAN :
               answer = Answered(r, form, 0, own)
    BY DEF Understood
  <1>2. PICK form \in GoodForms \cup BadForms : \E own \in BOOLEAN :
               answer = Answered(r, form, 0, own)
    BY <1>1
  <1>3. PICK own \in BOOLEAN : answer = Answered(r, form, 0, own)
    BY <1>2
  <1>4. r \in Responses /\ form \in AllForms /\ 0 \in Statuses \cup {0, 200, 204, 404}
    BY DEF TcpResponses, AllForms
  <1> QED BY <1>3, <1>4, AnswerIsSome

\* Strict mode keeps its contract, for what the server reads and for what is
\* refused without being sent
\* (StrictReachesServer).
THEOREM StrictModeKept ==
    ASSUME Wide, ProperCalls
    PROVE  Spec => []StrictReachesServer
  <1>1. ASSUME IInv, EndInv PROVE StrictReachesServer
    <2>1. strict \in BOOLEAN /\ transport \in {"tcp", "http"}
      BY <1>1 DEF IInv, TypeOK
    <2>2. ASSUME strict, seen # None
          PROVE  WellFormed(IF Padded(seen.call) THEN Trimmed(seen.read) ELSE seen.read)
      <3>1. seen \in Readings(strict, transport)
        BY <1>1, <2>2 DEF IInv, AskInv
      <3> QED BY <2>1, <2>2, <3>1, ReadIsWellFormed
    <2>3. ASSUME at = "done", answer = None, ~torn, result \in {ValueError, UnicodeEncodeError}
          PROVE  IF strict THEN ~WellFormed(call)
                 ELSE transport = "http" /\ ~Printable(Strip(call.ns))
      <3>1. ~Understood
        BY <2>3, UnderstoodIsSome
      <3>2. RefusalJustified
        BY <1>1, <2>3, <3>1 DEF EndInv
      <3>3. /\ call \in Calls
            /\ ~Validate(strict, call) \/ (transport = "http" /\ HeaderRefused(call.ns))
        BY <2>3, <3>2 DEF RefusalJustified
      <3>4. ProperCall(call)
        BY <3>3 DEF ProperCalls
      <3>5. ~WellFormed(call)
        BY <3>3, <3>4, WellFormedPasses
      <3>6. CASE ~strict
        <4>1. Validate(strict, call)
          BY <3>6 DEF Validate, ValidateCoreInputs, ValidatePatternInputs
        <4>2. ~Printable(Strip(call.ns))
          BY <3>3, <4>1, RefusedNotPrintable
        <4> QED BY <3>3, <3>6, <4>1, <4>2
      <3> QED BY <3>5, <3>6
    <2> QED BY <2>2, <2>3 DEF StrictReachesServer
  <1> QED
    BY <1>1, InitIInv, StepIInv, InitFrameInv, StepFrameInv, InitQueueInv, StepQueueInv,
       InitEnds, StepAuthInv, StepAnswerInv, StepEndInv, PTL DEF Spec

\* What a TCP client makes of an answer is what it means.
LEMMA TcpMeans ==
    ASSUME Wide, ProperResponses, NEW op \in TcpReads, NEW r \in TcpResponses,
           NEW form \in GoodForms \cup BadForms, NEW own,
           result = TcpOutcome(op, DecodeResponse(Payload(r, form)))
    PROVE  Conveys(op, Answered(r, form, 0, own))
  <1>1. r \in Responses /\ IsReply(r)
    BY DEF TcpResponses, ProperResponses
  <1> DEFINE a == Answered(r, form, 0, own)
  <1>2. a.form = form /\ a.resp = r
    BY DEF Answered
  <1> HIDE DEF a
  <1>3. CASE form \in BadForms
    <2>1. DecodeResponse(Payload(r, form)) = Undecodable
      BY <1>1, <1>3, PayloadDecoded
    <2>2. TcpOutcome(op, Undecodable) = ValueError
      <3>1. Undecodable.type = "Undecodable"
        BY DEF Undecodable
      <3> QED BY <3>1, Zenon DEF TcpOutcome
    <2>3. Conveys(op, a)
      BY <1>2, <1>3, <2>1, <2>2 DEF Conveys
    <2> QED BY <2>3 DEF a
  <1>4. CASE form \notin BadForms
    <2>1. form \in GoodForms /\ DecodeResponse(Payload(r, form)) = Decoded(r)
      BY <1>1, <1>4, PayloadDecoded
    <2>2. result = TcpOutcome(op, Decoded(r))
      BY <2>1
    <2>3. CASE r.type = "Error"
      <3>1. ConveysError(op, a)
        BY <1>1, <2>1, <2>2, <2>3, TcpErrorMeans DEF a
      <3>2. Conveys(op, a)
        BY <1>2, <1>4, <2>3, <3>1 DEF Conveys
      <3> QED BY <3>2 DEF a
    <2>4. CASE r.type # "Error"
      <3>1. result = Told(op, a)
        BY <1>1, <2>1, <2>2, <2>4, TcpSuccessMeans DEF a
      <3>2. Conveys(op, a)
        BY <1>2, <1>4, <2>4, <3>1 DEF Conveys
      <3> QED BY <3>2 DEF a
    <2> QED BY <2>3, <2>4
  <1> QED BY <1>3, <1>4

\* What an HTTP client makes of a response is what it means.
LEMMA HttpMeans ==
    ASSUME ProperResponses, NEW op \in HttpReads,
           NEW r \in Responses, r.type \in Accepted[op] \cup {"Error"},
           NEW form \in HttpForms, NEW status \in StatusOf(r), NEW own,
           result = HttpOutcome(op, HttpReply(r, form, status))
    PROVE  Conveys(op, Answered(r, form, status, own))
  <1> DEFINE a == Answered(r, form, status, own)
  <1>1. a.form = form /\ a.resp = r /\ form \notin BadForms
    BY FormsOfBodies DEF Answered
  <1> HIDE DEF a
  <1>2. CASE r.type = "Error"
    <2>1. status \in Statuses
      BY <1>2 DEF StatusOf
    <2>2. ConveysError(op, a)
      BY <1>2, <2>1, HttpErrorMeans DEF a
    <2>3. Conveys(op, a)
      BY <1>1, <1>2, <2>2 DEF Conveys
    <2> QED BY <2>3 DEF a
  <1>3. CASE r.type # "Error"
    <2>1. r.type = "Value" => r.value \in Seq(Octets)
      BY DEF ProperResponses, IsReply
    <2>2. r.type \in Accepted[op]
      BY <1>3
    <2>3. result = Told(op, a)
      BY <1>3, <2>1, <2>2, HttpSuccessMeans DEF a
    <2>4. Conveys(op, a)
      BY <1>1, <1>3, <2>3 DEF Conveys
    <2> QED BY <2>4 DEF a
  <1> QED BY <1>2, <1>3

\* A caller gets what the answer that it reads means, the same over both
\* transports, however the answer was cut into pieces and whatever fields it
\* has besides; and it is the caller's own, unless an event was pushed to the
\* connection or an authentication gave up on it (ResultFaithful).
THEOREM CallerGetsTheAnswer ==
    ASSUME Wide, ProperResponses
    PROVE  Spec => []ResultFaithful
  <1>1. ASSUME IInv, AnswerInv, EndInv PROVE ResultFaithful
    <2> SUFFICES ASSUME at = "done", ~torn
                 PROVE  IF answer = None THEN Unanswered
                        ELSE /\ \/ Conveys(call.op, answer)
                                \/ transport = "http" /\ result \in Losses
                             /\ ~stray /\ call.op # "event" => answer.own
      BY DEF ResultFaithful
    <2>1. CASE answer = None /\ Unanswered
      BY <2>1
    <2>2. CASE Understood
      <3>1. PICK r \in TcpResponses : \E form \in GoodForms \cup BadForms : \E own \in BOOLEAN :
                   /\ answer = Answered(r, form, 0, own)
                   /\ result = TcpOutcome(call.op, DecodeResponse(Payload(r, form)))
                   /\ stray \/ call.op = "event" \/ own
        BY <2>2 DEF Understood
      <3>2. PICK form \in GoodForms \cup BadForms : \E own \in BOOLEAN :
                   /\ answer = Answered(r, form, 0, own)
                   /\ result = TcpOutcome(call.op, DecodeResponse(Payload(r, form)))
                   /\ stray \/ call.op = "event" \/ own
        BY <3>1
      <3>3. PICK own \in BOOLEAN :
                   /\ answer = Answered(r, form, 0, own)
                   /\ result = TcpOutcome(call.op, DecodeResponse(Payload(r, form)))
                   /\ stray \/ call.op = "event" \/ own
        BY <3>2
      <3>4. Conveys(call.op, answer)
        BY <2>2, <3>3, TcpMeans DEF Understood
      <3>5. answer # None
        BY <2>2, UnderstoodIsSome
      <3>6. answer.own = own
        BY <3>3 DEF Answered
      <3>7. ~stray /\ call.op # "event" => answer.own
        BY <3>3, <3>6
      <3> QED BY <3>4, <3>5, <3>7
    <2>3. CASE /\ transport = "http" /\ answer # None
               /\ result = HttpOutcome(call.op, reply) \/ result \in Losses
      <3>1. call.op \in HttpReads /\ ReplyTo(call.op, reply)
        BY <1>1, <2>3, HttpOpsAre DEF AnswerInv
      <3>2. PICK r \in Responses : \E form \in HttpForms : \E status \in StatusOf(r) :
                   /\ r.type \in Accepted[call.op] \cup {"Error"}
                   /\ answer = Answered(r, form, status, TRUE)
                   /\ reply = HttpReply(r, form, status)
        BY <3>1 DEF ReplyTo
      <3>3. PICK form \in HttpForms : \E status \in StatusOf(r) :
                   /\ r.type \in Accepted[call.op] \cup {"Error"}
                   /\ answer = Answered(r, form, status, TRUE)
                   /\ reply = HttpReply(r, form, status)
        BY <3>2
      <3>4. PICK status \in StatusOf(r) :
                   /\ r.type \in Accepted[call.op] \cup {"Error"}
                   /\ answer = Answered(r, form, status, TRUE)
                   /\ reply = HttpReply(r, form, status)
        BY <3>3
      <3>5. answer.own = TRUE
        BY <3>4 DEF Answered
      <3>6. CASE result = HttpOutcome(call.op, reply)
        <4>1. result = HttpOutcome(call.op, HttpReply(r, form, status))
          BY <3>4, <3>6
        <4>2. Conveys(call.op, Answered(r, form, status, TRUE))
          BY <3>1, <3>4, <4>1, HttpMeans
        <4>3. Conveys(call.op, answer)
          BY <3>4, <4>2
        <4> QED BY <2>3, <3>5, <4>3
      <3>7. CASE result \in Losses
        BY <2>3, <3>5, <3>7
      <3> QED BY <2>3, <3>6, <3>7
    <2> QED BY <1>1, <2>1, <2>2, <2>3 DEF EndInv
  <1> QED
    BY <1>1, InitIInv, StepIInv, InitFrameInv, StepFrameInv, InitQueueInv, StepQueueInv,
       InitEnds, StepAuthInv, StepAnswerInv, StepEndInv, PTL DEF Spec
==============================================================================
