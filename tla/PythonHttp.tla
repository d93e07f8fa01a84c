----------------------------- MODULE PythonHttp -----------------------------
(***************************************************************************)
(* The HTTP client of the Python SDK: the request an operation makes and   *)
(* what it returns or raises for a response.  A request is a record of its *)
(* method, its route, the path after the route, its query, its namespace   *)
(* header and its body; a body that is JSON stands for the object in it.   *)
(***************************************************************************)
EXTENDS StrictMode

Slash   == 47
Percent == 37
HexDigit(n) == IF n < 10 THEN 48 + n ELSE 55 + n

Escape(b) == <<Percent, HexDigit(b \div 16), HexDigit(b % 16)>>

\* Variant: urllib.parse.quote() with its default safe="/".
QuoteKeepingSlash(s) ==
    FlattenSeq([i \in DOMAIN s |->
        IF s[i] \in Digits \cup Letters \cup {45, 46, 95, 126, Slash}
        THEN <<s[i]>> ELSE Escape(s[i])])

UrlEncode(s) ==
    FlattenSeq([i \in DOMAIN s |->
        IF s[i] \in Digits \cup Letters \cup {45, 46, 95, 126}
        THEN <<s[i]>> ELSE Escape(s[i])])

IncrSuffix == <<Slash, 105, 110, 99, 114>>   \* "/incr"

PositiveTtl(ttl) == IF ttl > 0 THEN ttl ELSE None

Request(method, route, path, c) ==
    [method |-> method, route |-> route, path |-> path, nx |-> FALSE,
     ttl |-> PositiveTtl(c.ttl), ns |-> NamespaceHeaders(c.ns),
     body |-> <<>>, delta |-> 0]

KeyRequest(method, c) == Request(method, "key", UrlEncode(c.key), c)

HttpRequest(c) ==
    CASE c.op \in {"ping", "stats"} -> Request("GET", c.op, <<>>, c)
      [] c.op = "get"    -> KeyRequest("GET", c)
      [] c.op = "delete" -> KeyRequest("DELETE", c)
      [] c.op = "set"    -> [KeyRequest("PUT", c) EXCEPT !.body = c.value]
      [] c.op = "set_nx" ->
            [KeyRequest("POST", c) EXCEPT !.body = c.value, !.nx = TRUE]
      [] c.op = "incr"   ->
            [KeyRequest("POST", c) EXCEPT !.path = @ \o IncrSuffix,
                                          !.delta = c.delta]
      [] c.op \in {"delete_by_pattern", "set_ttl_by_pattern"} ->
            [Request("POST", c.op, <<>>, c) EXCEPT !.body = c.key]

(***************************************************************************)
(* The server's end: which operation a request is, with which arguments.   *)
(***************************************************************************)

Unhex(d) == IF d <= 57 THEN d - 48 ELSE d - 55

UrlDecode(s) ==
    LET from[i \in Nat] ==
            IF i > Len(s) THEN <<>>
            ELSE IF s[i] = Percent /\ i + 2 <= Len(s)
            THEN <<16 * Unhex(s[i + 1]) + Unhex(s[i + 2])>> \o from[i + 3]
            ELSE <<s[i]>> \o from[i + 1]
    IN  from[1]

KeyOps == [GET |-> "get", PUT |-> "set", DELETE |-> "delete", POST |-> "set_nx"]

ParseHttp(q) ==
    LET slash == SelectInSeq(q.path, LAMBDA b : b = Slash)
        key   == IF slash = 0 THEN q.path ELSE SubSeq(q.path, 1, slash - 1)
        tail  == IF slash = 0 THEN <<>> ELSE SubSeq(q.path, slash, Len(q.path))
        op    == CASE q.route # "key" -> q.route
                   [] q.route = "key" /\ tail = IncrSuffix /\ q.method = "POST" /\ ~q.nx -> "incr"
                   [] q.route = "key" /\ tail = <<>> /\ (q.nx <=> q.method = "POST") ->
                        KeyOps[q.method]
                   [] OTHER -> "no route"
    IN  [op |-> op,
         key |-> IF q.route = "key" THEN UrlDecode(key) ELSE q.body,
         value |-> IF q.route = "key" THEN q.body ELSE <<>>,
         delta |-> q.delta, ttl |-> q.ttl, ns |-> q.ns]

(***************************************************************************)
(* Results.  What a call returns or raises, for either transport.          *)
(***************************************************************************)

Returned(kind)     == [is |-> kind]
Bool(b)            == [is |-> "bool", yes |-> b]
DittoError(code)   == [is |-> "DittoError", code |-> code]
ValueError         == [is |-> "ValueError"]
RuntimeError       == [is |-> "RuntimeError"]   \* not connected, or an unexpected response
OSError            == [is |-> "OSError"]        \* ConnectionError and timeouts too
HTTPException      == [is |-> "HTTPException"]  \* IncompleteRead, BadStatusLine
UnicodeDecodeError == [is |-> "UnicodeDecodeError"]
UnicodeEncodeError == [is |-> "UnicodeEncodeError"]

\* What urlopen() raises for a namespace that no header can hold.
HeaderError(ns) ==
    IF OutsideLatin1(Strip(ns)) THEN UnicodeEncodeError ELSE ValueError

Got(value, version)      == [is |-> "DittoGetResult", value |-> value, version |-> version]
SetResult(version)       == [is |-> "DittoSetResult", version |-> version]
SetNxResult(created, v)  == [is |-> "DittoSetNxResult", created |-> created, version |-> v]
CounterResult(value, v)  == [is |-> "DittoCounterResult", value |-> value, version |-> v]
DeletedResult(n)         == [is |-> "DittoDeleteByPatternResult", deleted |-> n]
UpdatedResult(n)         == [is |-> "DittoSetTtlByPatternResult", updated |-> n]
WatchEvent(key, value, v) ==
    [is |-> "DittoWatchEvent", key |-> key, value |-> value, version |-> v]
StatsResult(fields)      == [is |-> "DittoStatsResult", fields |-> fields]

StatsFields ==
    {"node_id", "status", "is_primary", "committed_index", "key_count",
     "memory_used_bytes", "memory_max_bytes", "evictions", "hit_count",
     "miss_count", "uptime_secs", "value_size_limit_bytes", "max_keys_limit",
     "compression_enabled", "compression_threshold_bytes", "node_name",
     "backup_dir_bytes"}

(***************************************************************************)
(* Responses: a status and a body, whose "json" says whether it parses and *)
(* whose "error" is the error code it names, or None.                      *)
(***************************************************************************)

AtomicUnsupportedStatuses == {400, 404, 501}

\* raise_if_atomic_http_unsupported(): the same code whatever the body says
IsAtomicUnsupported(op, status) ==
    op \in {"set_nx", "incr"} /\ status \in AtomicUnsupportedStatuses

StatusCode(status) ==
    CASE status = 503 -> "NodeInactive"
      [] status = 504 -> "WriteTimeout"
      [] status = 404 -> "KeyNotFound"
      [] status = 429 -> "RateLimited"
      [] OTHER        -> "InternalError"

\* _assert_ok(): the code of the error that it raises
AssertOkCode(q) ==
    IF q.body.json /\ q.body.error # None THEN q.body.error ELSE StatusCode(q.status)

GetValue(body) ==
    IF body.value_base64 # None /\ body.value_base64 # <<>>
    THEN body.value_base64 ELSE body.value

HttpResult(op, body) ==
    CASE op = "ping"   -> Bool(body.pong)
      [] op = "get"    -> Got(GetValue(body), body.version)
      [] op = "set"    -> SetResult(body.version)
      [] op = "set_nx" -> SetNxResult(body.created, body.version)
      [] op = "incr"   -> CounterResult(body.value, body.version)
      [] op = "delete_by_pattern"  -> DeletedResult(body.deleted)
      [] op = "set_ttl_by_pattern" -> UpdatedResult(body.updated)
      [] op = "stats"  -> StatsResult(body.fields \cap StatsFields)

HttpOutcome(op, q) ==
    CASE op = "ping" /\ q.status # 200  -> Bool(FALSE)
      [] op = "get" /\ q.status = 404    -> Returned("None")
      [] op = "delete" /\ q.status = 404 -> Bool(FALSE)
      [] IsAtomicUnsupported(op, q.status) -> DittoError("UnsupportedRequest")
      [] OTHER ->
            IF q.status \notin 200..299 THEN DittoError(AssertOkCode(q))
            ELSE IF op = "delete" THEN Bool(TRUE)
            ELSE IF ~q.body.json THEN ValueError
            ELSE HttpResult(op, q.body)
=============================================================================
