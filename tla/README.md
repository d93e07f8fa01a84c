# A TLA+ model of the Ditto client SDKs

The repository holds client libraries for the Ditto cache server (`dittod`) in
five languages. Each SDK has a TCP client (protobuf frames over one persistent
connection, port 7777), an HTTP client (port 7778), a wire codec, client-side
input validation ("strict mode") and a normalisation of errors. There is no
common code; the SDKs agree by convention, contracts and tests. This directory
models the parts that keep state and can go wrong over time, in all five
languages, and in one of them, Python, the whole way of a call from its
arguments to its result.

## Inventory

| Component | State | Operations | What is hard about it |
|---|---|---|---|
| Node.js TCP client (`tcp-client.ts`) | current socket, in-flight waiters, offline queue, reconnect timer and counter, watch callbacks, `destroyed` | `connect`, `close`/`destroy`, requests, `watch`/`unwatch`; socket events, request timers, reconnect timer, re-authentication, re-registration of watches, flush | pipelining with pairing by position; timeouts and late replies; callbacks, timers and promise continuations in any order; several connection attempts |
| Blocking TCP clients (`tcp_client.py`, `DittoTcpClient.java`, `tcp_client.go`, `tcp_client.rs`) | the connection, the lock | `connect`, `close`, requests, `watch`, `unwatch`, `wait_watch_event`; one retry of `get` and `ping` | threads on one lock, a retry after a failure whose outcome is unknown, replies left unread, writes that block (Java), dropped futures (Rust) |
| Node.js HTTP client (`http-client-base.ts`, `http-client.ts`) | circuit breaker | `request` with retries and backoff behind all operations | many requests in flight record successes and failures in any order; repeating what has been executed |
| Python HTTP client (`http_client.py`, `http_client_base.py`, `types.py`) | none | one request, one response per operation | quoting of keys, headers that are not ASCII, statuses and bodies that mean different things to different operations |
| Python wire codec (`wire.py`) | none | encoders, decoders | signed numbers in varints, unknown, repeated and truncated fields, the frame limit |
| Python strict mode (`validation.py`, `client_internal.py`) | none | `validate_core_inputs`, `validate_pattern_inputs`, `namespace_headers` | what is checked is not always what is sent |
| Normalisation of atomic errors (`client-internal.ts`, `client_internal.py`, `client_internal.go`, `client_internal.rs`, `DittoAtomicErrorNormalizer.java`) | none | `normalizeAtomic...` | "not supported" and "outcome unknown" are told apart by words in error texts |
| HTTP clients, validation and codecs of the other SDKs | none | as in Python | the same rules written four more times |
| TLS set-up, release and contract scripts | none | configuration, build-time checks | - |

The components interact little: an API call validates its input, encodes a
frame, hands it to the TCP client and classifies the decoded response. The
server is the other party. It executes the frames of a connection in order,
answers each one, and pushes WatchEvents to connections that watch a key.

What makes the clients correct: a caller gets the reply to its own request; a
mutation is executed at most once; "not executed" and "outcome unknown" are told
apart; every call comes to an end; a connection is authenticated before it
carries anything else; watches survive reconnects; the breaker opens and closes
as its options say; the server reads what the caller asked for and the caller
gets what the answer means, over either transport; a connection is left at the
start of a frame or given up.

## Modules

| Module | Models |
|---|---|
| `CallService` | abstract: what a client promises about calls. They settle once, get their own reply, are executed at most once (repeatable ones a bounded number of times), and never if refused |
| `NodeTcpClient` | the Node.js TCP client, its socket events and timers, the server |
| `NodeTcpClientProofs`, `NodeTcpPairingProofs` | theorems about it |
| `BlockingTcpClients` | the Python, Java, Go and Rust TCP clients as cases (`sdk`) of one machine |
| `BlockingTcpProofs`, `BlockingPairingProofs` | theorems about it |
| `HttpClient` | the Node.js HTTP client: retries, circuit breaker |
| `HttpClientProofs` | theorems about it |
| `AtomicErrors` | how the five TCP clients report a failed `set_nx` or `incr`; used by the two modules above them |
| `Wire` | the Python wire codec over byte sequences, and the server's end of it |
| `WireProofs`, `CodecProofs` | theorems about it: varints and fields, requests and responses |
| `StrictMode` | the Python input checks and the namespace header; extends `Wire` |
| `PythonHttp` | the requests of the Python HTTP client and what it makes of a response; extends `StrictMode` |
| `PythonClients` | a call of either Python client, composed of the three |
| `PythonClientsProofs` | theorems about it, over both transports |
| `MCNodeTcpClient`, `MCBlockingTcpClients` | symmetry sets for TLC |
| `MCPythonClients` | the calls and the responses for TLC |

`PROJECT.json` maps each definition to the lines it stands for. In each
specification module, a definition marked "Variant" is a plausible slip in the
definition that follows it; no action uses it.

### NodeTcpClient

The variables are the fields of `DittoTcpClient` under their own names
(`socket`, `inflight`, `offlineQueue`, `reconnectAttempts`, `watchCallbacks`,
`destroyed`; `reconnecting` and `reconnectTimer` are assigned together and are
one variable). A waiter is a record of its owner, its frame (None once it is
written) and its `settled` flag. `outcome` is what a call's promise has come to.
`phase[s]` says where the `doConnect()` that created socket `s` is suspended: in
the connect, in the auth request, or in the re-registration of a watch.

An action is one callback of the event loop with the promise continuations it
releases: an API call, a timer, a connection that succeeds or fails, a frame
received, a socket that closes. `Send` is `send()`; `DropWaiters` and
`RetryPlan` are `handleDisconnect()`, `scheduleReconnect()` and
`rejectOfflineQueue()`; `Reregister` is `doConnect()` from
`reRegisterWatches()` on.

Abstractions: frames and replies carry an owner and a kind (`data`, `watch`,
`unwatch`, `auth`); a reply is a result, an Error or undecodable (`Verdicts`).
Replies and pushes of a connection are two streams, so their relative order is
open. `watchSeq` gives the iteration order of the JavaScript Map. With
`OverlappingConnects` the `error` and `close` events of one socket are one step,
although another attempt could connect between them.

### BlockingTcpClients

Every operation holds the lock from beginning to end, so the state of the lock
holder (`at`, `caller`, `op`, `attempt`) is global and an action is what the
holder does between two blocking calls. The clients differ in

- when they connect: Python and Java refuse without a connection, Go and Rust
  connect; Go's `Connect` dials even when connected, and Go validates input only
  after connecting (`Start*`, `Connected`);
- what they keep: a failed read of the auth reply closes the connection in Go
  only (`AuthErrorCloses`); an undecodable reply is an I/O error to all but
  Python (`Reply`); after the second attempt nobody closes it (`DropsConn`);
- writes: when the server does not read, a write blocks (`WriteBlocks`) until it
  does (`WriteResumes`); in Java it has no timeout (`WriteTimeout`);
- Rust futures can be dropped at an await (`Cancel`).

An outcome is what the caller can observe: `ok`, `error` (of the server),
`refused` (before anything was written), `failed` (the bare error of a dial, an
authentication, a read or a write), `unknown` ("outcome unknown"), `unexpected`
(a reply of another kind), `dropped`. Only a call that is not `retry_safe` is
told "outcome unknown"; `get` and `ping` fail with the bare error, also when the
reconnect between their two attempts fails after the first was executed
(`LossReport`, `DialFailed`, `AuthBroken`).

Left out: what a second attempt leaves of a frame that is oversized or whose
write timed out halfway; a block in the write of the auth request, the first
frame of a new connection; errors of `shutdown` in Python's `_close_locked`.

### HttpClient

`request()` between its awaits: up to the fetch (`Request`), from the fetch's
end to the backoff or the result (`Respond`, `FetchFailed`), from the backoff to
the next fetch (`Wake`). `circuit` holds the four fields of the breaker, the
clock being reduced to "`circuitOpenUntilMs` is past". `circuitFailures` is kept
up to the threshold, the only value it is compared with. A request that a call
has given up is `stale` and may be executed at any later time. `up` says whether
the server answers in time and without overload; any fetch may fail or be
answered with 429, 503 or 504 while it is down, and it goes up and down at will.
`streak`, `removed` and `execs` are history variables.

### AtomicErrors

An error text is the set of phrases in it that some client looks for.
`LostTexts` are the texts with which a written call fails when its connection
does (Go's contain the cause, Node's the message of the socket error);
`ErrorTexts` are those behind each outcome of a blocking client, a bare
connection error and an unexpected reply included; `NormalizeAtomic` is what
each client makes of a text. `OutcomeNotHidden` in `NodeTcpClient` and
`BlockingTcpClients` relates them to what the server executed. A bare error
("EOF", "connection reset") and an unexpected reply are both normalised to
UnsupportedRequest, so that in the blocking clients `OutcomeNotHidden` needs more
than the order of the phrases: an executed call must never end in either. With a
WatchEvent taken for the reply of an executed `set_nx` or `incr` it does, in Java,
Go and Rust, and the contract case `tcp-unexpected-response-normalizes-to-unsupported`
(`contracts/atomic-errors.contract.json`) prescribes it for a frame of another
kind; the property is therefore checked and proved without pushes.

### Wire, StrictMode, PythonHttp, PythonClients

`Wire` has one operator per encoder and decoder of `wire.py`, on sequences of
bytes. A message is read into the sequence of its fields (`Fields`), ending with
`Broken` where the reader raises; a decoder picks the last occurrence of each
field it knows. `_Reader`'s offset is the position at which `Fields` goes on.
`StrictMode` and `PythonHttp` are the pure functions of `validation.py`,
`client_internal.py`, `http_client_base.py` and `http_client.py`; an HTTP request
is a record (method, route, path after the route, query, header, body), and a
JSON body stands for the object in it. `ParseHttp`, `DecodeRequest`, `JsonBody`
and `Payload` are the server's end, as the clients and the test helpers of
`wire.py` use it.

The namespace header is what http.client makes of it: Latin-1, so that "é" arrives
as one byte instead of two, `UnicodeEncodeError` for what Latin-1 lacks and
`ValueError` for a line break, both before anything is sent (`HeaderRefused`).
A lost request or response is an `OSError` or, when the response is no HTTP or
cut in its body, an `HTTPException`; a body that is no UTF-8 is a
`UnicodeDecodeError` (`HttpLost`).

`PythonClients` runs one call at a time over either transport. Over TCP a request
is appended to `requests`, the server appends its answer to `stream`, and `_recv()`
is the actions `RecvChunk` (one `recv()`), `HeaderRead` and `PayloadRead`, with
`RecvEof` and `RecvTimeout` for its failures; `head` and `data` are its local
variables. The server answers with what the operation expects, an Error or
something else, in the form this version of the protocol has, with new fields of
every wire type, given twice, truncated, of a newer version, empty, or over the
limit. While the connection watches a key it pushes frames at any time, before,
during and between calls and several in a row (`Push`). Any read may time out or
meet an oversized frame, that of an auth reply and of an event included
(`Faults`); those two keep the connection (`CloseAfterFailure`), whose late answer
or rest of a frame is then the next thing to be read.

The history variables are `unread`, the frames written and not yet read, each with
the operation it answers; `seen`, the request as the server read it; `answer`, what
the operation read and whether that was its own; `stray`, that an event or the
answer to a given-up authentication may be on the connection; and `torn`, that an
operation left the connection in the middle of a frame.

Left out: `auto_reconnect` (off by default; `BlockingTcpClients` has it), the
texts of errors, the check that a string field is UTF-8, JSON bodies without the
fields of their operation, and the blanks beyond ASCII that `str.strip()` removes.

## Runs

| Run | Instance | Shows |
|---|---|---|
| `node_pairing` | 3 calls, 2 sockets, auth, timeouts, every kind of reply, circuit after 1 attempt | `OwnReply`, `OneConnection`, `AuthFirst`, and `ImplementsCallService` (refinement, no call repeated) |
| `node_watch` | 3 calls, 2 keys, 2 sockets, pushes, no request timeouts | `CallbacksSubscribed`, `NoStrandedQueue` |
| `node_overlap` | 2 calls, 1 key, overlapping `connect()`, undecodable pushes | `AtMostOnce`, `RefusedNeverExecuted`, `FramesInPlace`, `ClosedForGood`, `SettledOnce` hold even then |
| `node_live` | 2 calls, timeouts, undecodable replies, fairness; no token and no watches, so that a connection is ready as soon as it is there: what `node_auth_timeout` shows, calls stranded behind a failed authentication, is outside it | `CallsSettle` |
| `node_auth_timeout` | 1 call, auth | violation of the comment at `tcp-client.ts:580` |
| `node_atomic_reset` | 1 call, 1 socket, no timeouts | violation of the comment at `tcp-client.ts:464` |
| `blocking_pairing` | 4 SDKs, 2 reads, 1 other call, auth, every kind of reply, timeouts of first attempts and of event reads | `OwnReply`, `InStep`, `AuthFirst`, `OutcomeNotHidden`, `ImplementsCallService` |
| `blocking_faults` | 4 SDKs, 1 read, 2 other calls (one invalid), all timeouts, blocking writes, pushes, cancellation, fairness | `BoundedExecutions`, `PlainFailureNotExecuted`, `LockReleased` |
| `blocking_late_reply` | Python, 2 reads, both attempts may time out | violation of "safe to call from multiple threads" (`tcp_client.py:6`) |
| `http_circuit` | one DELETE, one POST, one invalid GET, each made again and again; 2 retries, threshold 2, 2 probes, fairness | `FailuresCounted`, `ImplementsCallService`, `CircuitHeals` |
| `http_delete` | one DELETE, 2 retries | violation of "Returns true if the key existed" (`http-client.ts:108`) |
| `python_calls` | every operation over both transports, strict or not, with the arguments and responses of `MCPythonClients`, auth, events at any time, every read failing | `RequestFaithful`, `ResultFaithful`, `ReadsOneFrame`, `FrameBoundary`, `StrictReachesServer` |

Bounds. Two socket identities are enough for a connection and its successor, an
old one being forgotten by the server and reused any number of times. Three
calls make a timed-out, a late and a waiting request meet. `AttemptCap` stops the
attempt counter where the code stops comparing it; `MaxPush` bounds undelivered
pushes. Calls are made once each, except in `HttpClient`, where `Renew` hands the
name of a settled call to a new one.

`python_calls` varies one argument at a time, because the arguments of a call are
encoded independently, over the values at which something changes: keys that are
empty, padded, not ASCII, or contain `/incr` or `%`; namespaces absent, empty,
padded or malformed; ttl and delta around 0 and at the ends of their range.
`WordBits` is 15 and `MaxShift` 21 where the code has 64 and 70: TLC's integers
are too short for the real ones, and as there the sign bit falls into the last
group of a varint and one group more than needed is allowed. `MaxFrame` is the
length of the longest payload the server sends here, so that frames at the limit
and one byte above it both occur. `recv()` finds 3 bytes or all of them: with 3
every frame is cut inside its header and inside its payload. Answers that do not
decode are tried with one response, since what is in them makes no difference.
Where events or a late answer may be on the connection, one request of each kind
(`WatchingCalls`) and one frame of each kind (`WatchingFrames`) are tried, and at
most `MaxPending` frames and requests are on their way when an event is pushed:
two suffice for an event before the answer, behind it, and one after another.
`TornCalls` is empty: what is read after half a frame has a length of up to 2^32,
beyond TLC's integers. The theorems hold for all values of these bounds.

Fairness. `NodeTcpClient`: the event loop runs due timers and an attempt ends
because of its connect timer (weak fairness); the application calls `connect()`
when no attempt is scheduled, and an attempt succeeds if attempts are made
forever (strong fairness). Nothing is assumed of replies: the request timer must
do. `BlockingTcpClients`: the thread that holds the lock runs, and its dials, reads
and writes end because each has a timeout, except Java's writes. Nothing is assumed
of a server that does not read, so that `LockReleased` lets a Java call keep the
lock in a blocked write. `HttpClient`: fetches and backoffs end
(`timeoutMs`, `setTimeout`), the clock advances, and the application goes on
calling; without calls nothing probes an open circuit.

### What the violations show

- `node_auth_timeout`: a request timeout of the auth frame, or an undecodable
  reply to it, ends `doConnect()` while the socket stays. Nothing reconnects; the
  offline queue stays unflushed until the connection is lost; new calls are
  written without authentication. A re-registration that is rejected has the same
  effect, which is why `node_watch` runs without request timeouts.
- `node_atomic_reset`: a `setNX` or `incr` is executed, the connection is reset
  before its reply, and the caller is told that the server does not support the
  operation, because "econnreset" in the text is taken for a sign of that. Java,
  Go and Rust look for "outcome unknown" first (`blocking_pairing`).
- `blocking_late_reply`: when the second attempt times out the connection stays,
  its reply unread, and from then on each call gets its predecessor's reply if the
  kinds agree.
- `http_delete`: a retried DELETE reports "not found" for the key it removed.

Met while modelling, and bounded away where a property needs it: `OwnReply` of the
Node.js client fails with overlapping `connect()` calls, because two connections
share one in-flight list, and with undecodable pushes, because each costs a
waiter. `OwnReply` of the blocking clients also fails after a late auth reply
(Python, Java, Rust), after a dropped future (Rust), and when a WatchEvent comes
between a request and its reply. The last is the guide's own example of `watch`
(`docs/client-developer-guide.md:304-309` sets the watched key and then waits), and
for an executed `set_nx` or `incr` it ends in UnsupportedRequest in Java, Go and
Rust. `get` and `ping` fail with the same words whether or not they were executed.
A server that does not read holds the lock of a Java client for ever. None of the
four re-registers watches after a reconnect. Go's `Connect` on a connected client drops the old connection without
closing it. After its reconnect circuit has opened, the Node.js client goes on
queueing calls. A response from before an HTTP circuit opened closes it without
any probe. A `close()` of the Node.js client during a connection attempt does not
stop the attempt, and leaves a closed client with an open connection. A `watch`
and an `unwatch` of it, both offline, leave the queued Watch to be sent.

Of the Python clients:

- `wait_watch_event()`, and an authentication, keep the connection when they time
  out inside a frame or meet one over the limit; the next read starts inside that
  frame. `ReadsOneFrame`, `FrameBoundary` and `ResultFaithful` are false from there
  on and end at `torn`.
- After an authentication that timed out or did not decode, an unauthenticated
  connection is in use, and the late answer is that of the next call (`stray`).
- On a watching connection an event is taken for the reply of a call, as above.
- `docs/client-developer-guide.md:83-84` says that HTTP clients prefer the error
  code of the payload and that unknown codes are preserved. `set_nx` and `incr`
  report 400, 404 and 501 as UnsupportedRequest whatever the body says
  (`client_internal.py:19-35`), and over TCP every code from 14 on becomes
  InternalError (`wire.py:513`). `ResultFaithful` claims only a DittoError there
  (`HidesCode`).
- `docs/client-developer-guide.md:75-78` wants a strict mode in which the pattern and
  the namespace match; with blanks around them they pass and are sent with them, the
  namespace over TCP only. `StrictReachesServer` makes that one exception (`Padded`).
- Over HTTP a namespace outside ASCII reaches the server as other bytes, or is
  refused by http.client with an error that strict mode does not explain.
- A refused input and an undecodable answer of a call that was executed are both a
  `ValueError`; a delta beyond int64 is masked silently over TCP; the normaliser of
  TCP errors is called by nobody; a fixed-width field that is cut off by the end of
  its message is not noticed.

## Proofs

A theorem holds for every value of the constants that satisfies its module's
`ConstantsAssumption` (in `Wire`: `WidthAssumption`, `NoneAssumption`,
`WordAssumption`) and the hypotheses the theorem names. The assumptions that are
there for the proofs only say what the constants are: `None` is no string of
bytes and no answer; twice 2^(w-1) is 2^w, which the provers do not compute; the fields of a
response have their declared types (`IsResponse`); the first byte of the length
of a frame beyond `MaxFrame` is a byte.

| Component | Theorem | Property | Hypotheses |
|---|---|---|---|
| Node.js TCP | `TypeCorrect`, `FramesStayInPlace` | `TypeOK`, `FramesInPlace` | - |
| | `ExecutedAtMostOnce`, `RefusalIsFinal` | `AtMostOnce`, `RefusedNeverExecuted` | - |
| | `PromisesSettleOnce` | `SettledOnce` (action property) | - |
| | `CloseIsFinal`, `AuthComesFirst` | `ClosedForGood`, `AuthFirst` | - |
| | `QueueIsFlushed` | `NoStrandedQueue` | `Unhurried` |
| | `RepliesPaired`, `ConnectionIsUnique` | `OwnReply`, `OneConnection` | `Discipline` |
| | `NodeImplementsCallService` | `ImplementsCallService` | `Discipline` |
| | `WatchesSurvive` | `CallbacksSubscribed` | `Discipline`, `Obliging` |
| Blocking TCP | `TypeCorrect` | `TypeOK` | - |
| | `ExecutionsBounded`, `PlainFailureIsFinal` | `BoundedExecutions`, `PlainFailureNotExecuted` | - |
| | `AuthComesFirst` | `AuthFirst` | - |
| | `ExecutionIsNotHidden` | `OutcomeNotHidden` | `Discipline` |
| | `RepliesPaired`, `ConnectionInStep` | `OwnReply`, `InStep` | `Discipline` |
| | `BlockingImplementsCallService` | `ImplementsCallService` | `Discipline` |
| HTTP | `TypeCorrect`, `BreakerCounts` | `TypeOK`, `FailuresCounted` | - |
| | `HttpImplementsCallService` | `ImplementsCallService` | - |
| Codec | `VarintRoundTrip`, `FieldForward`, `FieldsParsed` | - | 64-bit words, shifts of 63 allowed |
| | `RequestRoundTrip`, `ResponseRoundTrip` | - | `Wide`, contents below 2^30 bytes |
| Python calls | `TypeCorrect` | `TypeOK` | - |
| | `OneFrameAtATime`, `NothingLeftOver` | `ReadsOneFrame`, `FrameBoundary` | - |
| | `UrlRoundTrip`, `HttpRoundTrip` | - | - |
| | `ServerReadsTheCall` | `RequestFaithful`, both transports | `Wide`, `ProperCalls` |
| | `StrictModeKept` | `StrictReachesServer` | `Wide`, `ProperCalls` |
| | `CallerGetsTheAnswer` | `ResultFaithful`, both transports | `Wide`, `ProperResponses` |

The hypotheses are those under which the runs check the same properties; what
happens without them is described under "What the violations show":

- Node.js `Discipline`: no overlapping `connect()`, no undecodable push.
  `Unhurried`: no request timeouts and nothing undecodable, either of which can
  end a `doConnect()` before its flush (`node_auth_timeout`). `Obliging`: no
  request timeouts, and the server does not refuse a `watch`.
- Blocking `Discipline`: no reply is left on a connection that stays in use. The
  second attempt and the read of the auth reply (except in Go) do not time out,
  no Rust future is dropped, no WatchEvent is pushed. First attempts and
  `wait_watch_event()` may time out, and connections may break at any point.
- The theorems about Python calls assume nothing of faults, events and their order.
- `Wide`: the integer widths of the code (64 bits), which TLC cannot take.
  `ProperCalls`: a call carries the arguments its operation takes, of bytes, and
  each shorter than 2^30, so that all lengths in a request are below 2^32.
  `ProperResponses`: the numbers in a response are 64-bit words (signed for a
  counter), its strings shorter than 2^30 bytes, and an error has the name that
  the protocol gives its code. The arguments and the responses of `python_calls`
  satisfy both.

### The arguments

**Node.js TCP client** (`NodeTcpClientProofs`, `NodeTcpPairingProofs`). TypeOK is
inductive together with FramesInPlace and the bookkeeping of the wire
(`BaseInv`): what a disconnect may put back into the queue depends on which
waiters still have a frame.

- Executions and settlement (`OnceInv`): that a call is executed at most once
  follows from where its one frame may be, which is in the queue, written once on
  one connection, or nowhere (`QueueOK`, `WrittenOnce`). A waiter that is not
  settled belongs to a pending call, each call has at most one (`WaitersOK`), and a
  call that was turned away has no frame anywhere (`TurnedAway`).
- Authentication (`AuthInv`): nothing is on a connection before it is
  established, the current socket is open and carries its first frame already, and
  no queued frame is an auth request.
- Pairing (`PairInv`): the unanswered frames of the one live connection belong,
  one by one, to the waiters in flight (`Aligned`); there is only one such
  connection, counting the half-closed one that `close()` leaves (`SocketsOK`); an
  attempt starts with nothing in flight and is itself waited for while it is in
  `auth` or `rereg` (`AttemptsOK`); a queued waiter waits for the reply to its own
  frame (`QueueOwners`).
- Refinement (`RefInv`): with `Resolved` (a call that resolved was executed), each
  action is a step of `CallService` or a stuttering step.
- Watches (`WatchInv`): `CallbacksSubscribed` is about quiet moments only. In
  between, `Covered` says of each key with a callback that it *will hold*, which
  means it is subscribed and no later frame cancels it, or a watch of it is on its
  way with no cancellation behind, or that a `doConnect()` has yet to reach its
  position in the Map. Positions are unique and the cursor of a re-registration
  only passes keys it has written (`Positions`), and no unwatch waits in the
  offline queue (`NoUnwatchQueued`).

**Blocking TCP clients** (`BlockingTcpProofs`, `BlockingPairingProofs`). That a
call is executed at most as often as it was written is not inductive: requests
may be served after the lock has long been released. `Accounted` counts, for each
call, executions plus requests written and not yet served, on any connection, and
bounds the sum by the attempts that got as far as a write (`Attempted`), which
are none for a call that was refused and none for a mutation that ended in a bare
error: that is where `PlainFailureNotExecuted` comes from. The number of unserved
requests is the cardinality of a set of places (connection, position), which an
action changes by at most one. `Paired` follows the one request of the holder of
the lock: nothing is on the connection while none is awaited; while one is, it is
the last frame unserved, or its reply is the only frame unread.

**HTTP client** (`HttpClientProofs`). TypeOK bounds executions without being
inductive; `Accounted` is: requests handled and requests still under way never
exceed the attempts made, a method that is not retried has made one attempt, and a
call whose only request was given up is reported as unknown.

**Codec** (`WireProofs`, `CodecProofs`). `EncodeVarint`, `ReadVarint` and `Fields`
are recursive functions. The provers have no induction rule with an operator as
parameter, so that a recursive function satisfies its equation is proved from the
partial functions on 0..n, and a statement about all numbers by looking at the
least one it fails for (`LeastElement`, from the well-foundedness of < on Nat). A
request is then read back in layers: a varint, a field, a message given by the set
of its fields (`Message`; concatenation of bytes is union of fields), the last
occurrence of each field, the operation's body, the envelope. Negative deltas go
through the two's complement of 64 bits (`Int64Travels`). tlapm computes products
of numerals in 63 bits, so 2^63 is written there as nine factors of 128
(`Times128`) that are never multiplied out.

A response is read back along the same layers, with a set of fields of a later
protocol (`Newer`) in the response and around it. That a response without its last
byte is not decoded (`TruncatedUndecodable`) needs the fields before the one that
was cut to be read as they were (`StandsBefore`), and the reader to be `Broken` at
that one (`CutField`).

**Python call path** (`PythonClientsProofs`). `IInv` joins the types with
`AskInv` (every request on its way, and what the server has read, is that of a call
that passed the checks) and `CallInv` (what an operation in progress holds).

- Frames. `FrameInv` says that what has been read of the current frame and what is
  still in the stream are the bytes of the frames in `unread`, one after the other,
  up to where a lost connection cut them off (`Arrived`), and that the prefix of each
  is its length unless it is over the limit (`WellFramed`). `OneFrameAtATime` is the
  first of them; when `_recv()` has read a payload the rest are whole frames again.
- Whose frame it is. `QueueInv` says that a request or an answer is on the connection
  only for the operation in progress, exactly one of the two, unless the connection
  is `stray`; `NothingLeftOver` is that between two calls.
- Requests. `AskInv` and `RequestRoundTrip` cover TCP, and `HttpRoundTrip` HTTP:
  `UrlDecode` is a recursive function whose equation is proved as in the codec, and
  there is no least position from which it fails to give the rest of the key back
  (`UrlRoundTrip`); an encoded key has no slash in it, so that the path splits where
  `/incr` starts. A header of printable ASCII is the namespace itself.
- Strict mode. What is sent has passed `Validate` (`AskInv`), and the namespace
  header is stripped once more, which the checks do not notice. A refusal without an
  answer is that of `Validate` or of http.client (`RefusalJustified`).
- Results. `AuthInv` and `AnswerInv` say whose answer is read, over TCP and HTTP. The
  payload that `_recv()` has read to its end is that of the oldest frame
  (`PayloadUnderstood`), and `EndInv` says of each result which answer it was computed
  from. What it then means, case by case of operations and responses, needs no
  induction (`TcpMeans`, with `ResponseRoundTrip`, and `HttpMeans`).

### Only model-checked

- `CallsSettle`, `LockReleased` and `CircuitHeals`: liveness under fairness is out
  of the prover's reach.
- That the hypotheses of the theorems are needed: `node_auth_timeout` shows it for
  `Unhurried`, `blocking_late_reply` for the `Discipline` of the blocking clients.

## Not modelled

The HTTP clients of Java, Go and Rust, and the codecs and validators of these and
of Node.js, are further versions of the pure functions that are modelled for
Python, held to the same contract files by tests in each language. In
`NodeTcpClient` and `BlockingTcpClients` which response kinds an operation accepts
is therefore reduced to "its own kind". TLS set-up is configuration of library
sockets; its failure is a failed connection attempt. Scripts and contracts act at
build time.

## Plan

Every safety and action property that a passing run checks is stated by a theorem.
What would extend the development further:

1. The HTTP clients of Java, Go and Rust, which share the shape of `HttpClient` but
   differ in retries.
2. The validators of the other languages, as variants of `StrictMode`.
3. `auto_reconnect` in `PythonClients`, which would join it with
   `BlockingTcpClients`.
