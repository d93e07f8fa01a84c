---------------------------- MODULE PythonClients ----------------------------
(***************************************************************************)
(* A call of the Python SDK from its arguments to its result, over either  *)
(* transport: strict mode, the request as the server reads it, the answer  *)
(* as bytes that arrive in pieces or as a status and a body, and what the  *)
(* caller gets for it.                                                     *)
(*                                                                         *)
(* The lock of the TCP client lets one operation run at a time, so there   *)
(* is one current call; what threads, retries and automatic reconnects do  *)
(* to each other is the matter of BlockingTcpClients.  auto_reconnect is   *)
(* off here, as it is by default.                                          *)
(*                                                                         *)
(* A definition marked "Variant" is a plausible slip in the definition     *)
(* after it; no action uses it.                                            *)
(***************************************************************************)
EXTENDS PythonHttp

CONSTANTS
    Calls,          \* the calls to look at: [op, key, value, ttl, delta, ns]
    Responses,      \* the responses the server can give
    Statuses,       \* the HTTP statuses of its errors
    Token,          \* auth_token, or None
    MaxFrame,       \* max_frame_bytes
    ChunkSizes,     \* how many bytes a recv() may find
    Faults,         \* the reads that may time out or meet an oversized frame
    WatchingCalls,  \* bound: the calls made where events may be on their way
    WatchingFrames, \* bound: the frames sent there, <<response, form>>
    TornCalls,      \* bound: the operations begun after half a frame was read
    MaxPending      \* bound on what is on its way when an event is pushed

Bytes == 0..255

NoCall    == [op |-> "none", key |-> <<>>, value |-> <<>>, ttl |-> 0, delta |-> 0, ns |-> None]
EventWait == [NoCall EXCEPT !.op = "event"]
AuthCall  == [NoCall EXCEPT !.op = "auth", !.key = Token]

TcpOps  == Range(RequestFields) \ {"auth"}
HttpOps == (TcpOps \ {"watch", "unwatch"}) \cup {"stats"}

\* The contents of a response have the types of the protocol.
IsResponse(r) ==
    /\ r.type \in {"Value", "Ok", "SetNx", "Counter", "WatchEvent"} => r.version \in Nat
    /\ r.type \in {"PatternDeleted", "PatternTtlUpdated"} => r.count \in Nat
    /\ r.type = "Counter"    => r.count \in Int
    /\ r.type = "Error"      => r.code \in Nat
    /\ r.type = "Value"      => r.value \in Seq(Bytes)
    /\ r.type = "WatchEvent" => r.key \in Seq(Bytes) /\ r.value \in Seq(Bytes) \cup {None}

ASSUME ConstantsAssumption ==
    /\ \A c \in Calls : c.op \in TcpOps \cup {"stats"} /\ c.ttl \in Int /\ c.delta \in Int
    /\ \A r \in Responses :
          r.type \in Range(ResponseFields) \cup {"Stats"} /\ IsResponse(r)
    /\ Statuses \cap (200..299) = {}
    /\ MaxFrame \in Nat /\ (MaxFrame + 1) \div 16777216 \in Bytes
    /\ ChunkSizes \subseteq Nat \ {0}
    /\ Faults \subseteq {"auth", "reply", "event"}
    /\ WatchingCalls \subseteq Calls /\ TornCalls \subseteq Calls \cup {EventWait}

VARIABLES
    strict,     \* strict_mode
    transport,  \* which of the two clients it is
    sock,       \* _sock: none, open, or eof when the server has closed it
    at,         \* where the current operation is
    call,       \* the current operation
    requests,   \* what is on its way to the server: [call, bytes], in order
    stream,     \* bytes on their way to the client
    head,       \* _recv(): header
    data,       \* _recvn(): data
    reply,      \* the HTTP response on its way
    result,     \* what the operation has come to
    watching,   \* does the server watch a key for this connection?
    seen,       \* history: the last call that reached the server, and how it read it
    answer,     \* history: the answer that the operation read, and if it is its own
    unread,     \* history: the frames that the server wrote, up to the first unread
                \* one: [bytes, resp, form, to]
    torn,       \* history: an operation left half a frame on this connection
    stray       \* history: an event, or the answer to an operation that has
                \* ended, was on this connection and may still be

tcpVars  == <<sock, stream, head, data, watching, unread, torn, stray>>
vars     == <<strict, transport, tcpVars, at, call, requests, reply, result, seen, answer>>

Reading == at \in {"header", "payload"}

\* Variant: the length of the prefix is added, which is read already.
LengthAndPrefix(h) == 16777216 * h[1] + 65536 * h[2] + 256 * h[3] + h[4] + 4

\* struct.unpack(">I", h)
Length(h) == 16777216 * h[1] + 65536 * h[2] + 256 * h[3] + h[4]

\* How much the current _recvn() asks for.
Wanted == IF at = "header" THEN 4 ELSE Length(head)

\* The state is well formed.  In particular a payload is only ever read when
\* its length is within max_frame_bytes, and no more of it than that.
TypeOK ==
    /\ strict \in BOOLEAN /\ transport \in {"tcp", "http"}
    /\ sock \in {"none", "open", "eof"}
    /\ at \in {"idle", "header", "payload", "http", "done"}
    /\ call \in Calls \cup {NoCall, EventWait, AuthCall}
    /\ stream \in Seq(Bytes) /\ head \in Seq(Bytes) /\ data \in Seq(Bytes)
    /\ at = "payload" => Len(head) = 4 /\ Length(head) <= MaxFrame
    /\ Reading => sock # "none" /\ Len(data) <= Wanted
    /\ ~Reading => head = <<>> /\ data = <<>>
    /\ watching \in BOOLEAN /\ torn \in BOOLEAN /\ stray \in BOOLEAN
    /\ transport = "http" => sock = "none" /\ ~Reading

Init ==
    /\ strict \in BOOLEAN /\ transport \in {"tcp", "http"}
    /\ sock = "none" /\ at = "idle" /\ call = NoCall
    /\ requests = <<>> /\ reply = None /\ result = None
    /\ stream = <<>> /\ head = <<>> /\ data = <<>>
    /\ watching = FALSE /\ torn = FALSE /\ stray = FALSE
    /\ seen = None /\ answer = None /\ unread = <<>>

\* The operation ends; the caller sees r.
Return(r) == at' = "done" /\ result' = r

\* _close_locked()
CloseLocked ==
    /\ sock' = "none" /\ stream' = <<>> /\ unread' = <<>> /\ requests' = <<>>
    /\ watching' = FALSE /\ torn' = FALSE /\ stray' = FALSE

\* self._sock stays, with what was read of a frame gone from it, and with the
\* answer to a failed authentication still to come.
KeepSock ==
    /\ torn' = (torn \/ head \o data # <<>>)
    /\ stray' = (stray \/ call.op = "auth")
    /\ UNCHANGED <<sock, stream, unread, requests, watching>>

\* Events may be on their way, or an answer that nobody waits for.
Mixed == watching \/ stray

\* The bounds on what is tried on a connection that is no longer in order.
Tried(c) ==
    /\ torn => c \in TornCalls
    /\ Mixed /\ c # EventWait => c \in WatchingCalls

\* sendall() of a request
Send(c) ==
    requests' = IF sock = "eof" THEN requests
                ELSE Append(requests, [call |-> c, bytes |-> EncodeRequest(c)])

(***************************************************************************)
(* The application                                                         *)
(***************************************************************************)

\* _connect_locked() up to the read of the auth reply
Connect ==
    /\ at = "idle" /\ transport = "tcp" /\ sock = "none"
    /\ sock' = "open"
    /\ IF Token = None
       THEN Return(Returned("None")) /\ UNCHANGED <<call, requests>>
       ELSE /\ call' = AuthCall /\ Send(AuthCall)
            /\ at' = "header" /\ UNCHANGED result
    /\ UNCHANGED <<strict, transport, stream, head, data, watching, unread,
                   torn, stray, reply, seen, answer>>

ConnectFails ==
    /\ at = "idle" /\ transport = "tcp" /\ sock = "none"
    /\ Return(OSError)
    /\ UNCHANGED <<strict, transport, tcpVars, call, requests, reply, seen, answer>>

Close ==
    /\ at = "idle" /\ sock # "none"
    /\ CloseLocked
    /\ UNCHANGED <<strict, transport, head, data, at, call, reply, result,
                   seen, answer>>

\* Any operation with arguments c, up to the read of its answer.
Call(c) ==
    /\ at = "idle"
    /\ c.op \in IF transport = "tcp" THEN TcpOps ELSE HttpOps
    /\ Tried(c)
    /\ call' = c
    /\ \/ /\ ~Validate(strict, c)
          /\ Return(ValueError) /\ UNCHANGED requests
       \/ /\ Validate(strict, c) /\ transport = "tcp" /\ sock = "none"
          /\ Return(RuntimeError) /\ UNCHANGED requests
       \/ /\ Validate(strict, c) /\ transport = "tcp" /\ sock # "none"
          /\ Send(c)
          /\ at' = "header" /\ UNCHANGED result
       \/ /\ Validate(strict, c) /\ transport = "http" /\ HeaderRefused(c.ns)
          /\ Return(HeaderError(c.ns)) /\ UNCHANGED requests
       \/ /\ Validate(strict, c) /\ transport = "http" /\ ~HeaderRefused(c.ns)
          /\ requests' = <<[call |-> c, bytes |-> HttpRequest(c)]>>
          /\ at' = "http" /\ UNCHANGED result
    /\ UNCHANGED <<strict, transport, tcpVars, reply, seen, answer>>

WaitWatchEvent ==
    /\ at = "idle" /\ transport = "tcp"
    /\ Tried(EventWait)
    /\ call' = EventWait
    /\ IF sock = "none" THEN Return(RuntimeError) ELSE at' = "header" /\ UNCHANGED result
    /\ UNCHANGED <<strict, transport, tcpVars, requests, reply, seen, answer>>

\* The caller goes on.  What is on a TCP connection stays there.
Finish ==
    /\ at = "done"
    /\ at' = "idle" /\ call' = NoCall
    /\ requests' = IF transport = "http" THEN <<>> ELSE requests
    /\ reply' = None /\ result' = None /\ seen' = None /\ answer' = None
    /\ UNCHANGED <<strict, transport, tcpVars>>

(***************************************************************************)
(* The server                                                              *)
(***************************************************************************)

\* The types of response by which an operation succeeds.
Accepted ==
    [ping |-> {"Pong"}, get |-> {"Value", "NotFound"}, set |-> {"Ok"},
     set_nx |-> {"SetNx"}, incr |-> {"Counter"},
     delete |-> {"Deleted", "NotFound"},
     delete_by_pattern |-> {"PatternDeleted"},
     set_ttl_by_pattern |-> {"PatternTtlUpdated"},
     watch |-> {"Watching"}, unwatch |-> {"Unwatched"},
     event |-> {"WatchEvent"}, auth |-> {"AuthOk"}, stats |-> {"Stats"}]

FaultOf(op) == IF op \in {"auth", "event"} THEN op ELSE "reply"

\* The shapes of a reply: as this version of the protocol has it; with fields
\* of a later one; with a response that a second one replaces; and those that
\* do not decode.
GoodForms == {"plain", "extended", "repeated"}
BadForms  == {"truncated", "newer", "empty"}

\* What follows the first of a queue.
Rest(queue) == SubSeq(queue, 2, Len(queue))

\* None is no answer.
ASSUME NoAnswerAssumption ==
    \A r \in Responses, form \in GoodForms \cup BadForms \cup {"oversized", "not json"},
       status \in Statuses \cup {0, 200, 204, 404} :
          \A own \in BOOLEAN :
             [resp |-> r, form |-> form, status |-> status, own |-> own] # None

Payload(r, form) ==
    LET response == LdFieldAlways(ResponseNumber(r), EncodeVariant(r))
    IN  CASE form = "plain"     -> EncodeResponse(r)
          [] form = "extended"  ->
                Uint64Field(1, 1)
                    \o LdFieldAlways(3, NewFields
                          \o LdFieldAlways(ResponseNumber(r),
                                           EncodeVariant(r) \o NewFields))
          [] form = "repeated"  ->
                LdFieldAlways(3, LdFieldAlways(7, <<>>)) \o LdFieldAlways(3, response)
          [] form = "truncated" -> Front(EncodeResponse(r))
          [] form = "newer"     -> Uint64Field(1, 2) \o LdFieldAlways(3, response)
          [] form = "empty"     -> <<>>

\* The server writes a frame, to the call c or to nobody's; one whose payload
\* is too long for the client is represented by its header and a byte.
Write(r, form, c) ==
    LET payload == Payload(r, form)
        frame   == IF form = "oversized" THEN Length32(MaxFrame + 1) \o <<0>>
                   ELSE Frame(payload)
    IN  /\ form # "oversized" => Len(payload) <= MaxFrame
        /\ stream' = stream \o frame
        /\ unread' = Append(unread, [bytes |-> frame, resp |-> r, form |-> form, to |-> c])

\* Which response it is that does not decode makes no difference.
FormsFor(op, r) ==
    GoodForms \cup (IF r.type = "Pong" THEN BadForms ELSE {})
              \cup (IF r.type = "Pong" /\ FaultOf(op) \in Faults THEN {"oversized"} ELSE {})

\* It answers the oldest request: with what the operation expects, with an
\* Error, or with something else.  The client may have given it up.
Serve ==
    /\ sock = "open" /\ requests # <<>>
    /\ LET c == Head(requests).call
       IN  \E r \in {x \in Responses : x.type \in Accepted[c.op] \cup {"Error", "Pong"}} :
            \E form \in FormsFor(c.op, r) :
              /\ Mixed => <<r, form>> \in WatchingFrames
              /\ Write(r, form, c)
              /\ watching' = CASE r.type = "Watching"  -> TRUE
                               [] r.type = "Unwatched" -> FALSE
                               [] OTHER                -> watching
    /\ seen' = [call |-> Head(requests).call, read |-> DecodeRequest(Head(requests).bytes)]
    /\ requests' = Rest(requests)
    /\ UNCHANGED <<strict, transport, sock, head, data, torn, stray, at, call,
                   reply, result, answer>>

\* A watched key changes, at any time; the frame is an event, or what else
\* the server may send unasked.
Push ==
    /\ sock = "open" /\ watching /\ Len(unread) + Len(requests) < MaxPending
    /\ \E r \in {x \in Responses : x.type \in {"WatchEvent", "Error", "Pong"}} :
        \E form \in FormsFor("event", r) :
          <<r, form>> \in WatchingFrames /\ Write(r, form, EventWait)
    /\ stray' = TRUE
    /\ UNCHANGED <<strict, transport, sock, head, data, watching, torn, at, call,
                   requests, reply, result, seen, answer>>

\* The connection is lost, with or without what was on its way.
Break ==
    /\ sock = "open"
    /\ sock' = "eof" /\ requests' = <<>>
    /\ stream' \in {stream, <<>>} /\ watching' = FALSE
    /\ UNCHANGED <<strict, transport, head, data, unread, torn, stray, at, call,
                   reply, result, seen, answer>>

\* A value that is no text is sent in base64, next to a lossy text.
JsonBody(r) ==
    LET text == \A i \in DOMAIN r.value : r.value[i] < 128
    IN  CASE r.type = "Value" ->
                [json |-> TRUE, error |-> None,
                 value |-> IF text THEN r.value ELSE <<63>>,
                 value_base64 |-> IF text THEN None ELSE r.value,
                 version |-> r.version]
          [] r.type = "Pong"   -> [json |-> TRUE, error |-> None, pong |-> TRUE]
          [] r.type = "Ok"     -> [json |-> TRUE, error |-> None, version |-> r.version]
          [] r.type = "SetNx"  ->
                [json |-> TRUE, error |-> None, created |-> r.created, version |-> r.version]
          [] r.type = "Counter" ->
                [json |-> TRUE, error |-> None, value |-> r.count, version |-> r.version]
          [] r.type = "PatternDeleted"    -> [json |-> TRUE, error |-> None, deleted |-> r.count]
          [] r.type = "PatternTtlUpdated" -> [json |-> TRUE, error |-> None, updated |-> r.count]
          [] r.type = "Stats"  -> [json |-> TRUE, error |-> None, fields |-> r.fields]
          [] r.type = "Error"  -> [json |-> TRUE, error |-> r.name]

StatusOf(r) ==
    CASE r.type = "NotFound" -> {404}
      [] r.type = "Deleted"  -> {204}
      [] r.type = "Error"    -> Statuses
      [] OTHER               -> {200}

\* The server answers an HTTP request, or something on the way to it does,
\* with a body that is not JSON.
ServeHttp ==
    /\ at = "http" /\ requests # <<>>
    /\ \E r \in Responses, form \in {"plain", "not json"} :
        \E status \in StatusOf(r) :
          /\ r.type \in Accepted[call.op] \cup {"Error"}
          /\ answer' = [resp |-> r, form |-> form, status |-> status, own |-> TRUE]
          /\ reply' = [status |-> status,
                       body |-> IF form = "plain" /\ r.type \notin {"Deleted", "NotFound"}
                                THEN JsonBody(r) ELSE [json |-> FALSE]]
    /\ seen' = [call |-> Head(requests).call, read |-> ParseHttp(Head(requests).bytes)]
    /\ requests' = <<>>
    /\ UNCHANGED <<strict, transport, tcpVars, at, call, result>>

(***************************************************************************)
(* The client reads the answer                                             *)
(***************************************************************************)

\* How much a recv() returns when k bytes have arrived.
Recv(k) == Min({k, Wanted - Len(data), Len(stream)})

RecvChunk ==
    /\ Reading /\ Len(data) < Wanted /\ stream # <<>>
    /\ \E k \in ChunkSizes :
          /\ data' = data \o SubSeq(stream, 1, Recv(k))
          /\ stream' = SubSeq(stream, Recv(k) + 1, Len(stream))
    /\ UNCHANGED <<strict, transport, sock, head, watching, unread, torn, stray,
                   at, call, requests, reply, result, seen, answer>>

\* Variant: the connection is kept after a failed read.
KeepAfterFailure == KeepSock

\* Only _send() closes the connection when a read fails; wait_watch_event()
\* and the read of the auth reply leave it as it is.
CloseAfterFailure ==
    IF call.op \in {"event", "auth"} THEN KeepSock ELSE CloseLocked

ReadFails ==
    /\ CloseAfterFailure
    /\ Return(OSError)
    /\ head' = <<>> /\ data' = <<>>
    /\ UNCHANGED <<strict, transport, call, reply, seen, answer>>

RecvEof ==
    /\ Reading /\ Len(data) < Wanted /\ stream = <<>> /\ sock = "eof"
    /\ ReadFails

RecvTimeout ==
    /\ Reading /\ Len(data) < Wanted /\ sock = "open"
    /\ FaultOf(call.op) \in Faults
    /\ ReadFails

\* Variant: a frame longer than max_frame_bytes is not noticed.
NotTooLarge(h) == FALSE

TooLarge(h) == Length(h) > MaxFrame

HeaderRead ==
    /\ at = "header" /\ Len(data) = 4
    /\ IF TooLarge(data) THEN ReadFails
       ELSE /\ at' = "payload" /\ head' = data /\ data' = <<>>
            /\ UNCHANGED <<strict, transport, sock, stream, unread, watching, torn,
                           stray, call, requests, reply, result, seen, answer>>

\* What a successful response is to its operation.
TcpResult(op, r) ==
    CASE op = "get" -> IF r.type = "NotFound" THEN Returned("None")
                       ELSE Got(r.value, r.version)
      [] op = "set"    -> SetResult(r.version)
      [] op = "set_nx" -> SetNxResult(r.created, r.version)
      [] op = "incr"   -> CounterResult(r.count, r.version)
      [] op = "delete" -> Bool(r.type = "Deleted")
      [] op = "delete_by_pattern"  -> DeletedResult(r.count)
      [] op = "set_ttl_by_pattern" -> UpdatedResult(r.count)
      [] op = "event"  -> WatchEvent(r.key, r.value, r.version)
      [] OTHER         -> Returned("None")

TcpOutcome(op, r) ==
    CASE r.type = "Undecodable"    -> ValueError
      [] op = "ping" /\ r.type # "Undecodable" -> Bool(r.type = "Pong")
      [] OTHER -> IF r.type \in Accepted[op] THEN TcpResult(op, r)
                  ELSE IF r.type = "Error" THEN DittoError(r.code)
                  ELSE RuntimeError

\* A refused authentication closes the connection; one that does not decode
\* does not.
PayloadRead ==
    /\ at = "payload" /\ Len(data) = Length(head)
    /\ answer' = IF unread = <<>> THEN None
                 ELSE [resp |-> Head(unread).resp, form |-> Head(unread).form,
                       status |-> 0, own |-> Head(unread).to = call]
    /\ LET r == DecodeResponse(data)
       IN  /\ Return(TcpOutcome(call.op, r))
           /\ IF call.op = "auth" /\ r.type \notin {"AuthOk", "Undecodable"}
              THEN CloseLocked
              ELSE /\ unread' = Rest(unread)
                   /\ stray' = (stray /\ (sock = "eof" \/ requests # <<>> \/ Rest(unread) # <<>>))
                   /\ UNCHANGED <<sock, stream, requests, watching, torn>>
    /\ head' = <<>> /\ data' = <<>>
    /\ UNCHANGED <<strict, transport, call, reply, seen>>

HttpAnswered ==
    /\ at = "http" /\ reply # None
    /\ Return(HttpOutcome(call.op, reply))
    /\ UNCHANGED <<strict, transport, tcpVars, call, requests, reply, seen, answer>>

\* The request or the response is lost or too late, it is no HTTP or cut in its
\* body, or its body is no UTF-8.
HttpLost ==
    /\ at = "http"
    /\ \/ \E e \in {OSError, HTTPException} : Return(e)
       \/ reply # None /\ Return(UnicodeDecodeError)
    /\ UNCHANGED <<strict, transport, tcpVars, call, requests, reply, seen, answer>>

Next ==
    \/ Connect \/ ConnectFails \/ Close \/ WaitWatchEvent \/ Finish
    \/ \E c \in Calls : Call(c)
    \/ Serve \/ Push \/ Break \/ ServeHttp
    \/ RecvChunk \/ RecvEof \/ RecvTimeout \/ HeaderRead \/ PayloadRead
    \/ HttpAnswered \/ HttpLost

Spec == Init /\ [][Next]_vars

(***************************************************************************)
(* Properties                                                              *)
(***************************************************************************)

Printable(s) == \A i \in DOMAIN s : s[i] \in 32..126

\* The server reads exactly what the caller asked for, through the codec or
\* the URL: operation, key, value, ttl (none unless it is positive), delta and
\* namespace, the last up to the blanks around it and over HTTP only when it
\* is printable ASCII (a header is Latin-1).  Over TCP a delta beyond int64
\* arrives modulo its width (_int64_field masks it).
RequestFaithful ==
    seen # None =>
        LET c == seen.call
            r == seen.read
        IN  /\ r.op = c.op /\ r.key = c.key /\ r.value = c.value
            /\ r.ttl = IF c.ttl > 0 THEN c.ttl ELSE None
            /\ IF ~HasNamespace(c.ns) THEN r.ns = None
               ELSE transport = "tcp" \/ Printable(Strip(c.ns)) => Strip(r.ns) = Strip(c.ns)
            /\ \/ r.delta = c.delta
               \/ /\ transport = "tcp"
                  /\ c.delta \notin -(2^(WordBits - 1))..(2^(WordBits - 1) - 1)
                  /\ (r.delta - c.delta) % 2^WordBits = 0

\* What the answer r means to a caller of op, whatever the transport.
Meaning(op, r) ==
    CASE r.type = "Value"    -> Got(r.value, r.version)
      [] r.type = "NotFound" -> IF op = "delete" THEN Bool(FALSE) ELSE Returned("None")
      [] r.type = "Deleted"  -> Bool(TRUE)
      [] r.type = "Pong"     -> Bool(TRUE)
      [] r.type = "Ok"       -> SetResult(r.version)
      [] r.type = "SetNx"    -> SetNxResult(r.created, r.version)
      [] r.type = "Counter"  -> CounterResult(r.count, r.version)
      [] r.type = "PatternDeleted"    -> DeletedResult(r.count)
      [] r.type = "PatternTtlUpdated" -> UpdatedResult(r.count)
      [] r.type = "WatchEvent" -> WatchEvent(r.key, r.value, r.version)
      [] r.type = "Stats"      -> StatsResult(r.fields \cap StatsFields)
      [] OTHER                 -> Returned("None")

\* Where the code of an error does not reach the caller: the enumeration of
\* the wire has no code from 14 on for this SDK, and set_nx and incr take these
\* statuses for UnsupportedRequest whatever the body says.
HidesCode(op, a) ==
    \/ op # "ping" /\ a.status = 0 /\ a.resp.code >= 14
    \/ op \in {"set_nx", "incr"} /\ a.status \in AtomicUnsupportedStatuses

\* What the caller of op gets for an answer a that is none of an error.
Told(op, a) ==
    IF a.resp.type \notin Accepted[op]
    THEN IF op = "ping" THEN Bool(FALSE) ELSE RuntimeError
    ELSE IF a.form = "not json" /\ op # "delete" /\ a.resp.type # "NotFound"
    THEN ValueError ELSE Meaning(op, a.resp)

\* And for an error: ping() is false, a 404 may mean that there is no key, and
\* otherwise it is raised with the code of the server.
ConveysError(op, a) ==
    IF HidesCode(op, a) THEN result.is = "DittoError"
    ELSE result = IF op = "ping" THEN Bool(FALSE)
                  ELSE IF op = "get" /\ a.status = 404 THEN Returned("None")
                  ELSE IF op = "delete" /\ a.status = 404 THEN Bool(FALSE)
                  ELSE IF a.form = "not json" THEN DittoError(StatusCode(a.status))
                  ELSE DittoError(a.resp.name)

\* The caller of op learns from result what the answer a says.
Conveys(op, a) ==
    \/ a.form \in BadForms /\ result = ValueError
    \/ a.form \notin BadForms /\ a.resp.type = "Error" /\ ConveysError(op, a)
    \/ a.form \notin BadForms /\ a.resp.type # "Error" /\ result = Told(op, a)

Losses == IF transport = "tcp" THEN {OSError}
          ELSE {OSError, HTTPException, UnicodeDecodeError}

\* Without an answer: connect() is done; or the call is refused for its
\* arguments, or for want of a connection; or it is lost.  Only waiting for an
\* event, and authenticating, leave the connection in place then.
Unanswered ==
    \/ result = Returned("None") /\ call = NoCall
    \/ result \in {ValueError, UnicodeEncodeError}
    \/ result = RuntimeError /\ transport = "tcp" /\ sock = "none"
    \/ result \in Losses /\ (sock # "none" => call.op \in {"event", "auth"})

\* A caller gets what the answer that it reads means, the same over both
\* transports, however the answer was cut into pieces and whatever fields it
\* has besides; over HTTP the answer may be lost on its way.  The answer is
\* its own unless an event was pushed to the connection or an authentication
\* gave up on it.
ResultFaithful ==
    at = "done" /\ ~torn =>
        IF answer = None THEN Unanswered
        ELSE /\ Conveys(call.op, answer) \/ (transport = "http" /\ result \in Losses)
             /\ ~stray /\ call.op # "event" => answer.own

\* "Read exactly one framed response from the socket" (_recv): what the
\* current _recv() has read is the beginning of the oldest frame not yet read,
\* unless an earlier one stopped within a frame.
ReadsOneFrame ==
    Reading /\ head \o data # <<>> /\ ~torn =>
        unread # <<>> /\ IsPrefix(head \o data, Head(unread).bytes)

\* However a call over TCP ends (result, error, undecodable or oversized
\* answer, timeout), either the connection is given up or the next call starts
\* at a frame; and at an empty connection, unless an event was pushed to it or
\* an authentication gave up on it.
FrameBoundary ==
    at = "idle" /\ sock = "open" /\ ~torn =>
        /\ stream = FlattenSeq([i \in DOMAIN unread |-> unread[i].bytes])
        /\ stray \/ (unread = <<>> /\ requests = <<>>)

PatternOps == {"delete_by_pattern", "set_ttl_by_pattern"}

\* The contract of strict mode, for a call or for what the server reads.
WellFormed(r) ==
    \/ r.op \in {"ping", "stats", "auth"}
    \/ /\ r.key # <<>>
       /\ Range(r.key) \subseteq IF r.op \in PatternOps THEN PatternChars ELSE TokenChars
       /\ \/ r.ns = None
          \/ /\ r.ns # <<>> /\ Range(r.ns) \subseteq TokenChars
             /\ \A i \in 1..(Len(r.ns) - 1) : <<r.ns[i], r.ns[i + 1]>> # <<58, 58>>

\* Strict mode looks at patterns and namespaces without the blanks around
\* them; a pattern is sent with them, and over TCP a namespace too.
Padded(c) ==
    \/ c.op \in PatternOps /\ Strip(c.key) # c.key
    \/ transport = "tcp" /\ c.ns # None /\ Strip(c.ns) # c.ns

Trimmed(r) ==
    [r EXCEPT !.key = IF r.op \in PatternOps THEN Strip(@) ELSE @,
              !.ns  = IF r.ns = None THEN None ELSE Strip(@)]

\* In strict mode the server reads only well-formed keys, patterns and
\* namespaces, as they are except for the blanks of a padded call; and a call
\* that fails without being sent, although there is a connection, was not well
\* formed or has a namespace that no header can hold.
StrictReachesServer ==
    /\ strict /\ seen # None =>
          WellFormed(IF Padded(seen.call) THEN Trimmed(seen.read) ELSE seen.read)
    /\ /\ at = "done" /\ answer = None /\ ~torn
       /\ result \in {ValueError, UnicodeEncodeError}
       => IF strict THEN ~WellFormed(call)
          ELSE transport = "http" /\ ~Printable(Strip(call.ns))
=============================================================================
