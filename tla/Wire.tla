-------------------------------- MODULE Wire --------------------------------
(***************************************************************************)
(* The wire codec of the Python SDK: protobuf messages as byte sequences,  *)
(* and the frames around them.  A string is the sequence of its UTF-8      *)
(* bytes, None an argument that was not given.                             *)
(*                                                                         *)
(* WordBits and MaxShift are 64 and 70 in the code; TLC's integers do not  *)
(* reach so far, so it takes smaller ones in the same proportion.          *)
(*                                                                         *)
(* A definition marked "Variant" is a plausible slip in the definition     *)
(* after it; nothing uses it.                                              *)
(***************************************************************************)
EXTENDS Integers, SequencesExt

CONSTANTS
    None,
    WordBits,   \* width of int64 and uint64
    MaxShift    \* shift of the last byte that a varint may have

ASSUME WidthAssumption ==
    /\ WordBits \in Nat \ {0}
    /\ MaxShift \in Nat
    /\ MaxShift % 7 = 0 /\ WordBits <= MaxShift

\* None is no string of bytes.
ASSUME NoneAssumption == None \notin Seq(0..255)

\* Facts about powers of 2, which the provers do not compute.
ASSUME WordAssumption ==
    2^(WordBits - 1) \in Nat \ {0} /\ 2^WordBits = 2 * 2^(WordBits - 1)

(***************************************************************************)
(* Encoding                                                                *)
(***************************************************************************)

EncodeVarint[v \in Nat] ==
    IF v < 128 THEN <<v>> ELSE <<128 + (v % 128)>> \o EncodeVarint[v \div 128]

Varint == 0
LD     == 2

Tag(field, wire) == EncodeVarint[8 * field + wire]

LdFieldAlways(field, payload) ==
    Tag(field, LD) \o EncodeVarint[Len(payload)] \o payload

\* Also _string_field and _bytes_field: an empty payload is not written.
LdField(field, payload) ==
    IF payload = <<>> THEN <<>> ELSE LdFieldAlways(field, payload)

\* Also _enum_field: a zero is not written.
Uint64Field(field, v) ==
    IF v = 0 THEN <<>> ELSE Tag(field, Varint) \o EncodeVarint[v]

\* Two's complement, and written even for 0.
Int64Field(field, v) == Tag(field, Varint) \o EncodeVarint[v % 2^WordBits]

\* str.strip(), for the blanks among the one-byte characters
Blanks == 9..13 \cup 28..32

Strip(s) ==
    LET solid == {i \in DOMAIN s : s[i] \notin Blanks}
    IN  IF solid = {} THEN <<>> ELSE SubSeq(s, Min(solid), Max(solid))

HasNamespace(ns) == ns # None /\ Strip(ns) # <<>>

NamespaceField(field, ns) ==
    IF HasNamespace(ns) THEN LdField(field, LdField(1, ns)) ELSE <<>>

TtlField(field, ttl) ==
    IF ttl > 0 THEN LdField(field, Uint64Field(1, ttl)) ELSE <<>>

(***************************************************************************)
(* Requests.  A call is a record of its operation and its arguments, key   *)
(* being the pattern or the token where the operation takes one.           *)
(***************************************************************************)

EncodeKeyNamespace(c) == LdField(1, c.key) \o NamespaceField(2, c.ns)

EncodeSetRequest(c) ==
    LdField(1, c.key) \o LdField(2, c.value) \o TtlField(3, c.ttl)
        \o NamespaceField(4, c.ns)

EncodeIncrRequest(c) ==
    LdField(1, c.key) \o Int64Field(2, c.delta) \o TtlField(3, c.ttl)
        \o NamespaceField(4, c.ns)

EncodeSetTtlByPatternRequest(c) ==
    LdField(1, c.key) \o TtlField(2, c.ttl) \o NamespaceField(3, c.ns)

EncodeAuthRequest(c) == LdField(1, c.key)

RequestFields ==
    <<"get", "set", "delete", "ping", "auth", "watch", "unwatch",
      "delete_by_pattern", "set_ttl_by_pattern", "set_nx", "incr">>

RequestInner(c) ==
    CASE c.op \in {"set", "set_nx"}        -> EncodeSetRequest(c)
      [] c.op = "incr"                     -> EncodeIncrRequest(c)
      [] c.op = "set_ttl_by_pattern"       -> EncodeSetTtlByPatternRequest(c)
      [] c.op = "auth"                     -> EncodeAuthRequest(c)
      [] c.op = "ping"                     -> <<>>
      [] OTHER                             -> EncodeKeyNamespace(c)

\* struct.pack(">I", n)
Length32(n) ==
    <<n \div 16777216, (n \div 65536) % 256, (n \div 256) % 256, n % 256>>

Frame(payload) == Length32(Len(payload)) \o payload

\* Envelope field 2 is a client request, field 3 a client response.
Envelope(field, variant, inner) ==
    Uint64Field(1, 1) \o LdFieldAlways(field, LdFieldAlways(variant, inner))

EncodeRequest(c) ==
    Frame(Envelope(2, SelectInSeq(RequestFields, LAMBDA op : op = c.op),
                   RequestInner(c)))

(***************************************************************************)
(* Reading.  A message is read into the sequence of its fields, which      *)
(* ends with Broken where the reader raises.                               *)
(***************************************************************************)

Broken == [ok |-> FALSE, field |-> 0, wire |-> 0, num |-> 0, bytes |-> <<>>, next |-> 0]

\* The positions, none or one, at which a varint that starts at i may end.
VarintEnds(buf, i) ==
    {j \in i..Len(buf) : /\ buf[j] < 128
                         /\ 7 * (j - i) <= MaxShift
                         /\ \A k \in i..(j - 1) : buf[k] >= 128}

ReadVarint(buf, i) ==
    IF VarintEnds(buf, i) = {} THEN [ok |-> FALSE, num |-> 0, next |-> i]
    ELSE LET end == Max(VarintEnds(buf, i))
             value[k \in Nat] ==
                 IF k > end THEN 0 ELSE (buf[k] % 128) + 128 * value[k + 1]
         IN  [ok |-> TRUE, num |-> value[i], next |-> end + 1]

\* Variant: the bit pattern is taken as unsigned.
UnsignedInt64(v) == v

ReadInt64(v) == IF v >= 2^(WordBits - 1) THEN v - 2^WordBits ELSE v

\* read_tag() and what follows it: a value that is used, or skip(), which
\* steps over a fixed-width field even when the buffer ends before it does.
ReadAfterTag(buf, tag, arg) ==
    LET field == [ok |-> TRUE, field |-> tag.num \div 8, wire |-> tag.num % 8,
                  num |-> 0, bytes |-> <<>>, next |-> 0]
    IN  CASE field.wire = Varint /\ arg.ok ->
                [field EXCEPT !.num = arg.num, !.next = arg.next]
          [] field.wire = LD /\ arg.ok /\ arg.next + arg.num <= Len(buf) + 1 ->
                [field EXCEPT !.bytes = SubSeq(buf, arg.next, arg.next + arg.num - 1),
                              !.next = arg.next + arg.num]
          [] field.wire = 1 -> [field EXCEPT !.next = tag.next + 8]
          [] field.wire = 5 -> [field EXCEPT !.next = tag.next + 4]
          [] OTHER          -> Broken

ReadField(buf, tag) ==
    IF tag.ok THEN ReadAfterTag(buf, tag, ReadVarint(buf, tag.next)) ELSE Broken

Fields(buf) ==
    LET parse[i \in Nat \ {0}] ==
            IF i > Len(buf) THEN <<>>
            ELSE LET f == ReadField(buf, ReadVarint(buf, i))
                 IN  <<f>> \o (IF f.ok THEN parse[f.next] ELSE <<>>)
    IN  parse[1]

Readable(fields) == \A k \in DOMAIN fields : fields[k].ok

\* Decoders assign a variable at each occurrence of its field: the last one
\* counts.  Absent is what the variable was before.
LastOf(fields, number, wire, absent) ==
    LET k == SelectLastInSeq(fields,
                 LAMBDA f : f.ok /\ f.field = number /\ f.wire = wire)
    IN  IF k = 0 THEN [num |-> absent, bytes |-> absent] ELSE fields[k]

NumOf(fields, number)   == LastOf(fields, number, Varint, 0).num
BytesOf(fields, number) == LastOf(fields, number, LD, <<>>).bytes

(***************************************************************************)
(* Responses                                                               *)
(***************************************************************************)

ErrorCodeNames ==
    <<"NodeInactive", "NoQuorum", "KeyNotFound", "InternalError",
      "WriteTimeout", "ValueTooLarge", "KeyLimitReached", "RateLimited",
      "CircuitOpen", "NamespaceQuotaExceeded", "AuthFailed",
      "UnsupportedRequest", "TypeMismatch", "Overflow">>

ErrorCodeName(idx) ==
    IF idx < Len(ErrorCodeNames) THEN ErrorCodeNames[idx + 1] ELSE "InternalError"

ResponseFields ==
    <<"Value", "Ok", "Deleted", "NotFound", "Pong", "AuthOk", "Error",
      "Watching", "Unwatched", "WatchEvent", "PatternDeleted",
      "PatternTtlUpdated", "SetNx", "Counter">>

SimpleResponses ==
    {"Deleted", "NotFound", "Pong", "AuthOk", "Watching", "Unwatched"}

\* decode_response() raises ValueError.
Undecodable == [type |-> "Undecodable"]

\* The value in an OptionalString, OptionalBytes or OptionalUint64 message.
OptionalBytes(msg)  == IF msg = None THEN None ELSE BytesOf(Fields(msg), 1)
OptionalUint64(msg) == IF msg = None THEN None ELSE NumOf(Fields(msg), 1)

\* Every occurrence of WatchEvent.value is read, the last one counts.
DecodeWatchEvent(f) ==
    IF \A k \in DOMAIN f :
          f[k].field = 2 /\ f[k].wire = LD => Readable(Fields(f[k].bytes))
    THEN [type |-> "WatchEvent", key |-> BytesOf(f, 1),
          value |-> OptionalBytes(LastOf(f, 2, LD, None).bytes),
          version |-> NumOf(f, 3)]
    ELSE Undecodable

DecodeFields(type, f) ==
    CASE ~Readable(f) -> Undecodable
      [] type = "Value" ->
            [type |-> type, value |-> BytesOf(f, 2), version |-> NumOf(f, 3)]
      [] type = "Ok"         -> [type |-> type, version |-> NumOf(f, 1)]
      [] type = "Error"      -> [type |-> type, code |-> ErrorCodeName(NumOf(f, 1))]
      [] type = "WatchEvent" -> DecodeWatchEvent(f)
      [] type \in {"PatternDeleted", "PatternTtlUpdated"} ->
            [type |-> type, count |-> NumOf(f, 1)]
      [] type = "SetNx" ->
            [type |-> type, created |-> NumOf(f, 1) # 0, version |-> NumOf(f, 2)]
      [] type = "Counter" ->
            [type |-> type, count |-> ReadInt64(NumOf(f, 1)), version |-> NumOf(f, 2)]

DecodeVariant(type, inner) ==
    IF type \in SimpleResponses THEN [type |-> type] ELSE DecodeFields(type, Fields(inner))

\* The first known length-delimited field of a response is its variant; what
\* follows it is not looked at.
DecodeOneof(f) ==
    LET k == SelectInSeq(f, LAMBDA x : x.ok /\ x.wire = LD /\ x.field \in 1..14)
    IN  IF k = 0 THEN Undecodable
        ELSE DecodeVariant(ResponseFields[f[k].field], f[k].bytes)

DecodeEnvelope(f, response) ==
    IF ~Readable(f) \/ NumOf(f, 1) \notin {0, 1} \/ response = None
    THEN Undecodable ELSE DecodeOneof(Fields(response))

DecodeResponse(buf) ==
    DecodeEnvelope(Fields(buf), LastOf(Fields(buf), 3, LD, None).bytes)

(***************************************************************************)
(* The server's end                                                        *)
(***************************************************************************)

FirstVariant(f) == f[SelectInSeq(f, LAMBDA x : x.wire = LD)]

DecodeClientRequestVariant(buf) ==
    FirstVariant(Fields(LastOf(Fields(buf), 2, LD, None).bytes))

TtlNumber(op)       == IF op = "set_ttl_by_pattern" THEN 2 ELSE 3
NamespaceNumber(op) == CASE op = "set_ttl_by_pattern"           -> 3
                         [] op \in {"set", "set_nx", "incr"}    -> 4
                         [] OTHER                               -> 2

RequestRecord(op, f) ==
    [op    |-> op,
     key   |-> BytesOf(f, 1),
     value |-> IF op \in {"set", "set_nx"} THEN BytesOf(f, 2) ELSE <<>>,
     delta |-> IF op = "incr" THEN ReadInt64(NumOf(f, 2)) ELSE 0,
     ttl   |-> OptionalUint64(LastOf(f, TtlNumber(op), LD, None).bytes),
     ns    |-> OptionalBytes(LastOf(f, NamespaceNumber(op), LD, None).bytes)]

RequestOf(variant) ==
    RequestRecord(RequestFields[variant.field], Fields(variant.bytes))

\* What the server reads from a request frame.  An Optional message that is
\* absent is None.
DecodeRequest(frame) ==
    RequestOf(DecodeClientRequestVariant(SubSeq(frame, 5, Len(frame))))

EncodeVariant(r) ==
    CASE r.type \in SimpleResponses -> <<>>
      [] r.type = "Value" -> LdField(2, r.value) \o Uint64Field(3, r.version)
      [] r.type = "Ok" -> Uint64Field(1, r.version)
      [] r.type = "Error" -> Uint64Field(1, r.code)
      [] r.type = "WatchEvent" ->
            LdField(1, r.key)
                \o (IF r.value = None THEN <<>> ELSE LdFieldAlways(2, LdField(1, r.value)))
                \o Uint64Field(3, r.version)
      [] r.type \in {"PatternDeleted", "PatternTtlUpdated"} -> Uint64Field(1, r.count)
      [] r.type = "SetNx" ->
            Uint64Field(1, IF r.created THEN 1 ELSE 0) \o Uint64Field(2, r.version)
      [] r.type = "Counter" -> Int64Field(1, r.count) \o Uint64Field(2, r.version)

\* Fields of a later version of the protocol: one of each wire type.
NewFields ==
    Uint64Field(20, 2^WordBits - 1) \o LdField(21, <<255>>)
        \o Tag(22, 1) \o <<255, 1, 2, 3, 4, 5, 6, 7>>
        \o Tag(23, 5) \o <<255, 1, 2, 3>>

ResponseNumber(r) == SelectInSeq(ResponseFields, LAMBDA t : t = r.type)

EncodeResponse(r) == Envelope(3, ResponseNumber(r), EncodeVariant(r))
=============================================================================
