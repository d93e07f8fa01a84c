---------------------------- MODULE NodeTcpClient ----------------------------
(***************************************************************************)
(* The TCP client of the Node.js SDK (DittoTcpClient in tcp-client.ts): a  *)
(* pipelining request/response client with watch subscriptions, request    *)
(* timeouts, an offline queue and automatic reconnection.                  *)
(*                                                                         *)
(* Node runs one callback at a time, so an action is one callback (an API  *)
(* call, a timer, a socket event) together with the promise continuations  *)
(* it releases.  What interleaves is the order of the callbacks and what   *)
(* the server and the network do between them.                             *)
(*                                                                         *)
(* A connection attempt and its net.Socket share one identity s \in Socks: *)
(* phase[s] is where the call of doConnect() that created s is suspended.  *)
(*                                                                         *)
(* A definition marked "Variant" is a plausible slip in the definition     *)
(* after it; no action uses it.                                            *)
(***************************************************************************)
EXTENDS Naturals, Sequences, SequencesExt, AtomicErrors

CONSTANTS
    Calls,                 \* API calls; each is made at most once
    Keys,                  \* watched keys (name space and key together)
    Socks,                 \* identities of net.Socket objects, reused once dead
    None,                  \* JavaScript's null
    AutoReconnect,         \* option autoReconnect
    AuthToken,             \* an auth token is configured
    RequestTimeout,        \* requestTimeoutMs > 0
    MaxReconnectAttempts,  \* option maxReconnectAttempts, 0 = unlimited
    OverlappingConnects,   \* may connect() be called during an attempt?
    Verdicts,              \* kinds of reply the server gives: ok, err, bad
    MalformedPush,         \* may a pushed frame be undecodable?
    AttemptCap,            \* bound: the attempt counter saturates here
    MaxPush                \* bound: undelivered pushes per connection

Owners   == Calls \cup Socks
Frames   == [owner : Owners, op : {"watch", "unwatch"}, key : Keys]
              \cup [owner : Owners, op : {"auth", "data"}, key : {None}]

ASSUME ConstantsAssumption ==
    /\ Calls \cap Socks = {}
    /\ None \notin Calls \cup Keys \cup Socks \cup Frames
    /\ {AutoReconnect, AuthToken, RequestTimeout, OverlappingConnects,
        MalformedPush} \subseteq BOOLEAN
    /\ MaxReconnectAttempts \in Nat
    /\ AttemptCap \in Nat /\ AttemptCap >= MaxReconnectAttempts
    /\ MaxPush \in Nat
    /\ Verdicts \subseteq {"ok", "err", "bad"}

VARIABLES
    destroyed,          \* close() or destroy() was called
    socket,             \* this.socket
    inflight,           \* waiters of written frames, in order
    offlineQueue,       \* waiters of frames to write after a reconnect
    reconnectAttempts,  \* consecutive failed attempts
    reconnectTimer,     \* reconnecting / reconnectTimer, assigned together
    watchCallbacks,     \* key -> position in the Map's order, 0 = absent
    watchSeq,           \* insertions into the Map so far
    phase,              \* where each doConnect() is suspended
    cursor,             \* position of each doConnect() in the watch Map
    outcome,            \* what the promise of each call has come to
    reply,              \* the owner of the request whose reply a call got
    link,               \* state of each TCP connection
    sent,               \* frames written on each connection
    replies,            \* verdicts of the replies the server has written
    recvd,              \* replies the client has taken off each connection
    pushes,             \* WatchEvents under way on each connection
    subs,               \* keys the server has subscribed on each connection
    execs               \* how often the server executed each call

watchVars  == <<watchCallbacks, watchSeq>>
lifeVars   == <<destroyed, reconnectAttempts, reconnectTimer>>
queueVars  == <<inflight, offlineQueue>>
dialVars   == <<phase, cursor>>
callVars   == <<outcome, reply>>
serverVars == <<replies, subs, execs>>
wireVars   == <<link, sent, recvd, pushes>>
vars       == <<watchVars, lifeVars, queueVars, dialVars, callVars, serverVars,
                wireVars, socket>>

Waiters  == [owner : Owners, frame : Frames \cup {None}, settled : BOOLEAN]
Outcomes == {"idle", "pending",
             "ok", "error",    \* resolved: the reply is a result / an Error
             "refused",        \* rejected and never written
             "unknown",        \* rejected after it was written
             "skipped"}        \* unwatch() without a connection
Phases   == {"idle", "connecting", "auth", "rereg"}
Links    == {"none", "open",   \* this end is open
             "closing",        \* half closed by close()
             "dead"}           \* gone, but the server may still be reading

Frame(o, op, k) == [owner |-> o, op |-> op, key |-> k]
Waiter(o, f)    == [owner |-> o, frame |-> f, settled |-> FALSE]

TypeOK ==
    /\ destroyed \in BOOLEAN
    /\ socket \in Socks \cup {None}
    /\ inflight \in Seq(Waiters)
    /\ offlineQueue \in Seq(Waiters)
    /\ reconnectAttempts \in 0..AttemptCap
    /\ reconnectTimer \in BOOLEAN
    /\ watchCallbacks \in [Keys -> Nat]
    /\ watchSeq \in Nat
    /\ phase \in [Socks -> Phases]
    /\ cursor \in [Socks -> Nat]
    /\ outcome \in [Calls -> Outcomes]
    /\ reply \in [Calls -> Owners \cup {None}]
    /\ link \in [Socks -> Links]
    /\ sent \in [Socks -> Seq(Frames)]
    /\ replies \in [Socks -> Seq(Verdicts)]
    /\ recvd \in [Socks -> Nat]
    /\ pushes \in [Socks -> Seq(Keys)]
    /\ subs \in [Socks -> SUBSET Keys]
    /\ execs \in [Calls -> Nat]

Init ==
    /\ destroyed = FALSE
    /\ socket = None
    /\ inflight = <<>> /\ offlineQueue = <<>>
    /\ reconnectAttempts = 0 /\ reconnectTimer = FALSE
    /\ watchCallbacks = [k \in Keys |-> 0] /\ watchSeq = 0
    /\ phase = [s \in Socks |-> "idle"] /\ cursor = [s \in Socks |-> 0]
    /\ outcome = [c \in Calls |-> "idle"] /\ reply = [c \in Calls |-> None]
    /\ link = [s \in Socks |-> "none"]
    /\ sent = [s \in Socks |-> <<>>] /\ replies = [s \in Socks |-> <<>>]
    /\ recvd = [s \in Socks |-> 0] /\ pushes = [s \in Socks |-> <<>>]
    /\ subs = [s \in Socks |-> {}]
    /\ execs = [c \in Calls |-> 0]

-----------------------------------------------------------------------------
(* Settling waiters.                                                        *)

\* q holds a waiter of o whose promise is still open.
Awaits(q, o) == \E i \in DOMAIN q : q[i].owner = o /\ ~q[i].settled

\* The calls of the waiters in q are rejected, with the given outcome.
RejectCalls(q, how) ==
    [c \in Calls |-> IF Awaits(q, c) THEN how ELSE outcome[c]]

\* A doConnect() whose waiter in q is rejected returns: at the catch around
\* the auth request, or out of reRegisterWatches() and past the flush.
RejectPhases(q) ==
    [s \in Socks |-> IF Awaits(q, s) THEN "idle" ELSE phase[s]]

\* What becomes of the offline queue when a connection is lost or an attempt
\* fails, att attempts having failed: reject it, rely on the timer that is
\* already armed, or arm the timer.
RetryPlan(att) ==
    IF ~AutoReconnect \/ destroyed THEN "reject"
    ELSE IF reconnectTimer THEN "wait"
    ELSE IF MaxReconnectAttempts > 0 /\ att >= MaxReconnectAttempts
         THEN "reject"
    ELSE "arm"

\* In-flight waiters that go back to the queue: those that still have their
\* frame (the loop un-shifts one after the other).
Requeued(q) ==
    IF \E i \in DOMAIN q : q[i].frame # None
    THEN Reverse(SelectSeq(q, LAMBDA w : w.frame # None))
    ELSE <<>>

\* Variant: what was in flight is forgotten instead of rejected.
LostSilently(q, c) == FALSE

\* The call c was in flight on the lost connection, so its result is unknown.
Lost(q, c) == \E i \in DOMAIN q : q[i].owner = c /\ ~q[i].settled /\ q[i].frame = None

\* Waiters and timer when what q holds in flight is lost: the waiters without
\* a frame are rejected, the queue follows the plan.
DropWaiters(q, plan) ==
    LET queue == Requeued(q) \o offlineQueue
    IN  /\ offlineQueue' = IF plan = "reject" THEN <<>> ELSE queue
        /\ outcome' = [c \in Calls |->
                         IF Lost(q, c) THEN "unknown"
                         ELSE IF plan = "reject" /\ Awaits(queue, c) THEN "refused"
                         ELSE outcome[c]]
        /\ phase' = RejectPhases(q)
        /\ reconnectTimer' = (reconnectTimer \/ plan = "arm")

-----------------------------------------------------------------------------
(* API calls.                                                               *)

\* Variant: a waiter in flight keeps its frame, so a disconnect re-queues it.
WriteInflightWithFrame(sk, q, f) ==
    /\ inflight' = Append(q, Waiter(f.owner, f))
    /\ sent' = [sent EXCEPT ![sk] = Append(@, f)]

\* One more waiter in flight after q, and its frame written on the socket sk.
WriteInflight(sk, q, f) ==
    /\ inflight' = Append(q, Waiter(f.owner, None))
    /\ sent' = [sent EXCEPT ![sk] = Append(@, f)]

Send(c, f) ==
    \/ /\ destroyed \/ (socket = None /\ ~AutoReconnect)
       /\ outcome' = [outcome EXCEPT ![c] = "refused"]
       /\ UNCHANGED <<queueVars, sent>>
    \/ /\ ~destroyed /\ socket = None /\ AutoReconnect
       /\ offlineQueue' = Append(offlineQueue, Waiter(c, f))
       /\ outcome' = [outcome EXCEPT ![c] = "pending"]
       /\ UNCHANGED <<inflight, sent>>
    \/ /\ ~destroyed /\ socket # None
       /\ WriteInflight(socket, inflight, f)
       /\ outcome' = [outcome EXCEPT ![c] = "pending"]
       /\ UNCHANGED offlineQueue

\* ping, get, set, setNX, incr, delete, deleteByPattern, setTtlByPattern
Request(c) ==
    /\ outcome[c] = "idle"
    /\ Send(c, Frame(c, "data", None))
    /\ UNCHANGED <<watchVars, lifeVars, dialVars, serverVars, socket, reply, link,
                   recvd, pushes>>

\* Setting a key the Map already holds keeps its place in the Map's order.
Watch(c, k) ==
    /\ outcome[c] = "idle"
    /\ IF watchCallbacks[k] = 0
       THEN /\ watchSeq' = watchSeq + 1
            /\ watchCallbacks' = [watchCallbacks EXCEPT ![k] = watchSeq + 1]
       ELSE UNCHANGED watchVars
    /\ Send(c, Frame(c, "watch", k))
    /\ UNCHANGED <<lifeVars, dialVars, serverVars, socket, reply, link, recvd, pushes>>

Unwatch(c, k) ==
    /\ outcome[c] = "idle"
    /\ watchCallbacks' = [watchCallbacks EXCEPT ![k] = 0]
    /\ IF socket = None
       THEN /\ outcome' = [outcome EXCEPT ![c] = "skipped"]
            /\ UNCHANGED <<queueVars, sent>>
       ELSE Send(c, Frame(c, "unwatch", k))
    /\ UNCHANGED <<lifeVars, dialVars, serverVars, socket, watchSeq, reply, link,
                   recvd, pushes>>

\* Variant: close() forgets to cancel the reconnect timer.
TimerKeptByClose == reconnectTimer

\* cancelReconnectTimer()
TimerAfterClose == FALSE

\* close(), alone or after a failed authentication.  What is in flight stays
\* in flight: the socket is only half closed.
Shutdown ==
    /\ destroyed' = TRUE
    /\ reconnectTimer' = TimerAfterClose
    /\ offlineQueue' = <<>>
    /\ outcome' = RejectCalls(offlineQueue, "refused")
    /\ socket' = None
    /\ link' = [s \in Socks |-> IF s = socket THEN "closing" ELSE link[s]]

Close ==
    /\ Shutdown
    /\ UNCHANGED <<watchVars, dialVars, serverVars, reconnectAttempts, inflight,
                   reply, sent, recvd, pushes>>

-----------------------------------------------------------------------------
(* Connecting.                                                              *)

\* doConnect() creates a socket and waits for it to connect.
StartConnect ==
    /\ \E s \in Socks :
         /\ phase[s] = "idle" /\ link[s] = "none"
         /\ phase' = [phase EXCEPT ![s] = "connecting"]
    /\ UNCHANGED <<watchVars, queueVars, callVars, serverVars, wireVars, socket,
                   destroyed, reconnectAttempts, cursor>>

\* Variant: connect() does not look whether there is a socket already.
MayConnectAnyway == ~destroyed

\* connect() returns at once when there is a socket and throws when the client
\* is destroyed.
MayConnect == ~destroyed /\ socket = None

\* connect() by the application, which awaits one attempt before the next
\* unless OverlappingConnects.
Connect ==
    /\ MayConnect
    /\ OverlappingConnects \/ (~reconnectTimer /\ \A s \in Socks : phase[s] = "idle")
    /\ StartConnect
    /\ UNCHANGED reconnectTimer

ReconnectTimer ==
    /\ reconnectTimer /\ ~destroyed
    /\ reconnectTimer' = FALSE
    /\ StartConnect

\* Variant: the flush looks at the waiters without taking them off the queue.
QueueKeptByFlush == offlineQueue

QueueAfterFlush == <<>>

\* Variant: the flush leaves the frame in the waiter.
FlushedWithFrame(w) == w

\* A waiter whose frame has been written.
Flushed(w) == [w EXCEPT !.frame = None]

\* flushOfflineQueue() with sk as the current socket and q in flight: every
\* queued frame is written, in order; a waiter without one is rejected.
FlushOfflineQueue(sk, q) ==
    LET Framed(w) == w.frame # None
        ready == IF \A i \in DOMAIN offlineQueue : Framed(offlineQueue[i])
                 THEN offlineQueue ELSE SelectSeq(offlineQueue, Framed)
    IN  /\ offlineQueue' = QueueAfterFlush
        /\ inflight' = q \o [i \in 1..Len(ready) |-> Flushed(ready[i])]
        /\ sent' = [sent EXCEPT ![sk] = @ \o [i \in 1..Len(ready) |-> ready[i].frame]]
        /\ outcome' = [c \in Calls |->
                         IF \E i \in DOMAIN offlineQueue :
                              offlineQueue[i].owner = c /\ ~Framed(offlineQueue[i])
                         THEN "refused" ELSE outcome[c]]

\* Variant: the watches are not re-registered after a reconnect.
NoWatches(p) == {}

\* The registrations the iterator over the Map has yet to return, after p.
RemainingWatches(p) == {k \in Keys : watchCallbacks[k] > p}

\* doConnect() number s from reRegisterWatches() on, with sk as the current
\* socket, q in flight and the iterator at p: send the next Watch and wait for
\* its reply, or flush the offline queue and return.
Reregister(s, sk, q, p) ==
    \/ /\ sk # None
       /\ \E k \in RemainingWatches(p) :
            /\ \A j \in RemainingWatches(p) : watchCallbacks[k] <= watchCallbacks[j]
            /\ WriteInflight(sk, q, Frame(s, "watch", k))
            /\ cursor' = [cursor EXCEPT ![s] = watchCallbacks[k]]
       /\ phase' = [phase EXCEPT ![s] = "rereg"]
       /\ UNCHANGED <<offlineQueue, outcome>>
    \/ /\ sk # None /\ RemainingWatches(p) = {}
       /\ FlushOfflineQueue(sk, q)
       /\ phase' = [phase EXCEPT ![s] = "idle"]
       /\ cursor' = [cursor EXCEPT ![s] = 0]
    \/ /\ sk = None
       /\ inflight' = q
       /\ phase' = [phase EXCEPT ![s] = "idle"]
       /\ cursor' = [cursor EXCEPT ![s] = 0]
       /\ UNCHANGED <<offlineQueue, sent, outcome>>

\* Variant: the queue is flushed before the connection is authenticated.
NeverAuthenticates == FALSE

MustAuthenticate == AuthToken

\* The connection is established.  Neither the callback nor what follows it
\* asks whether close() was called meanwhile.
ConnectOk(s) ==
    /\ phase[s] = "connecting"
    /\ socket' = s
    /\ link' = [link EXCEPT ![s] = "open"]
    /\ reconnectAttempts' = 0
    /\ \/ /\ MustAuthenticate
          /\ WriteInflight(s, inflight, Frame(s, "auth", None))
          /\ phase' = [phase EXCEPT ![s] = "auth"]
          /\ UNCHANGED <<offlineQueue, cursor, outcome>>
       \/ /\ ~MustAuthenticate
          /\ Reregister(s, s, inflight, 0)
    /\ UNCHANGED <<watchVars, serverVars, destroyed, reconnectTimer, reply, recvd,
                   pushes>>

\* The attempt fails or times out: the socket's error event runs
\* handleDisconnect() (which only matters if another attempt has meanwhile
\* connected) and then the catch clause of doConnect().
ConnectFail(s) ==
    LET failed == IF reconnectAttempts < AttemptCap THEN reconnectAttempts + 1
                  ELSE AttemptCap
    IN  /\ phase[s] = "connecting"
        /\ reconnectAttempts' = failed
        /\ socket' = None
        /\ \/ /\ socket = None
              /\ DropWaiters(<<Waiter(s, None)>>, RetryPlan(failed))
              /\ UNCHANGED inflight
           \/ /\ socket # None
              /\ DropWaiters(Append(inflight, Waiter(s, None)), RetryPlan(reconnectAttempts))
              /\ inflight' = <<>>
        /\ UNCHANGED <<watchVars, serverVars, wireVars, destroyed, cursor, reply>>

-----------------------------------------------------------------------------
(* Socket events and timers.                                                *)

\* The client still receives data on s.
Alive(s) == link[s] \in {"open", "closing"}

\* The frame whose reply is the next to arrive on s, and that reply.
Answered(s) == sent[s][recvd[s] + 1]
Verdict(s)  == replies[s][recvd[s] + 1]

\* The next reply on s is taken off the connection, and with it the oldest
\* waiter, whoever it is.
TakeReply(s) ==
    /\ Alive(s) /\ recvd[s] < Len(replies[s])
    /\ recvd' = [recvd EXCEPT ![s] = @ + 1]
    /\ UNCHANGED <<watchVars, serverVars, reconnectAttempts, pushes>>

Expects(o) == inflight # <<>> /\ ~Head(inflight).settled /\ Head(inflight).owner = o

\* onData: no waiter, or one that has timed out and only held the place.
ReplyIgnored(s) ==
    /\ TakeReply(s)
    /\ inflight # <<>> => Head(inflight).settled
    /\ inflight' = IF inflight = <<>> THEN <<>> ELSE Tail(inflight)
    /\ UNCHANGED <<dialVars, callVars, socket, destroyed, reconnectTimer,
                   offlineQueue, link, sent>>

\* Variant: the kind of the reply is taken for the outcome of the call.
Unclassified(v) == v

\* What a reply makes of the promise; an undecodable one rejects it.
Classified(v) == CASE v = "ok" -> "ok" [] v = "err" -> "error" [] v = "bad" -> "unknown"

\* onData: the oldest waiter belongs to an API call and is settled.
ReplyToCall(s) ==
    /\ TakeReply(s)
    /\ \E c \in Calls :
         /\ Expects(c)
         /\ outcome' = [outcome EXCEPT ![c] = Classified(Verdict(s))]
         /\ reply' = IF Verdict(s) = "bad" THEN reply
                     ELSE [reply EXCEPT ![c] = Answered(s).owner]
    /\ inflight' = Tail(inflight)
    /\ UNCHANGED <<dialVars, socket, destroyed, reconnectTimer, offlineQueue, link,
                   sent>>

\* onData: the oldest waiter is the auth request of doConnect() t, which goes
\* on with the watches, gives up, or closes the client.
ReplyToAuth(s, t) ==
    /\ TakeReply(s)
    /\ Expects(t) /\ phase[t] = "auth"
    /\ \/ /\ Verdict(s) = "bad"
          /\ inflight' = Tail(inflight)
          /\ phase' = [phase EXCEPT ![t] = "idle"]
          /\ UNCHANGED <<socket, destroyed, reconnectTimer, offlineQueue, cursor,
                         outcome, link, sent>>
       \/ /\ Verdict(s) = "ok" /\ Answered(s).op = "auth"
          /\ Reregister(t, socket, Tail(inflight), 0)
          /\ UNCHANGED <<socket, destroyed, reconnectTimer, link>>
       \/ /\ Verdict(s) = "err" \/ (Verdict(s) = "ok" /\ Answered(s).op # "auth")
          /\ Shutdown
          /\ inflight' = Tail(inflight)
          /\ phase' = [phase EXCEPT ![t] = "idle"]
          /\ UNCHANGED <<cursor, sent>>
    /\ UNCHANGED reply

\* onData: the oldest waiter is a Watch that doConnect() t re-registers.  Any
\* decodable reply will do; an undecodable one ends doConnect() t.
ReplyToRereg(s, t) ==
    /\ TakeReply(s)
    /\ Expects(t) /\ phase[t] = "rereg"
    /\ \/ /\ Verdict(s) = "bad"
          /\ inflight' = Tail(inflight)
          /\ phase' = [phase EXCEPT ![t] = "idle"]
          /\ UNCHANGED <<offlineQueue, cursor, outcome, sent>>
       \/ /\ Verdict(s) # "bad"
          /\ Reregister(t, socket, Tail(inflight), cursor[t])
    /\ UNCHANGED <<socket, destroyed, reconnectTimer, reply, link>>

\* onData: a WatchEvent goes to the callback registered for its key, if any,
\* and leaves the waiters alone.
ReceivePush(s) ==
    /\ Alive(s) /\ pushes[s] # <<>>
    /\ pushes' = [pushes EXCEPT ![s] = Tail(@)]
    /\ UNCHANGED <<watchVars, lifeVars, queueVars, dialVars, callVars, serverVars,
                   socket, link, sent, recvd>>

\* onData: a pushed frame that cannot be decoded costs the oldest waiter.
ReceiveBadPush(s) ==
    /\ MalformedPush /\ Alive(s) /\ pushes[s] # <<>>
    /\ pushes' = [pushes EXCEPT ![s] = Tail(@)]
    /\ \/ /\ inflight = <<>>
          /\ UNCHANGED <<inflight, outcome, phase>>
       \/ /\ inflight # <<>>
          /\ inflight' = Tail(inflight)
          /\ outcome' = RejectCalls(<<Head(inflight)>>, "unknown")
          /\ phase' = RejectPhases(<<Head(inflight)>>)
    /\ UNCHANGED <<watchVars, lifeVars, serverVars, socket, offlineQueue, cursor,
                   reply, link, sent, recvd>>

\* Variants: a timed-out waiter leaves the list, as if its reply had come; or
\* it is not marked as settled.
TimedOutRemoved(i)   == RemoveAt(inflight, i)
TimedOutUnsettled(i) == inflight

\* A timed-out waiter stays, to take the reply should it still come.
TimedOut(i) == [inflight EXCEPT ![i].settled = TRUE]

\* The request timer of the i-th waiter in flight.
RequestTimer(i) ==
    /\ RequestTimeout /\ ~inflight[i].settled
    /\ inflight' = TimedOut(i)
    /\ outcome' = RejectCalls(<<inflight[i]>>, "unknown")
    /\ phase' = RejectPhases(<<inflight[i]>>)
    /\ UNCHANGED <<watchVars, lifeVars, serverVars, wireVars, socket, offlineQueue,
                   cursor, reply>>

\* Variant: the waiters in flight stay in flight, for the next connection.
InflightKept == inflight

InflightAfterLoss == <<>>

\* The connection s is gone (error, close, idle timeout, oversized frame): the
\* handlers of s run handleDisconnect(), whatever the current socket is.
SocketClosed(s) ==
    /\ Alive(s)
    /\ link' = [link EXCEPT ![s] = "dead"]
    /\ \/ /\ socket = None
          /\ UNCHANGED <<inflight, offlineQueue, reconnectTimer, phase, outcome>>
       \/ /\ socket # None
          /\ DropWaiters(inflight, RetryPlan(reconnectAttempts))
          /\ inflight' = InflightAfterLoss
    /\ socket' = None
    /\ UNCHANGED <<watchVars, serverVars, destroyed, reconnectAttempts, cursor,
                   reply, sent, recvd, pushes>>

-----------------------------------------------------------------------------
(* The server, as far as the client can tell: it executes the frames of a   *)
(* connection in order and answers each of them; on a connection the client *)
(* has lost it may still execute what had reached it.  Replies and pushed   *)
(* WatchEvents are two streams, so their relative order is left open.       *)

Serve(s) ==
    LET f == sent[s][Len(replies[s]) + 1]
    IN  /\ link[s] # "none" /\ Len(replies[s]) < Len(sent[s])
        /\ \E v \in Verdicts :
             /\ replies' = [replies EXCEPT ![s] = Append(@, v)]
             /\ subs' = [subs EXCEPT ![s] =
                           IF f.op = "watch" /\ v # "err" THEN @ \cup {f.key}
                           ELSE IF f.op = "unwatch" /\ v # "err" THEN @ \ {f.key}
                           ELSE @]
        /\ execs' = [c \in Calls |-> IF c = f.owner THEN execs[c] + 1 ELSE execs[c]]
        /\ UNCHANGED <<watchVars, lifeVars, queueVars, dialVars, callVars, wireVars,
                       socket>>

Push(s, k) ==
    /\ Alive(s) /\ k \in subs[s] /\ Len(pushes[s]) < MaxPush
    /\ pushes' = [pushes EXCEPT ![s] = Append(@, k)]
    /\ UNCHANGED <<watchVars, lifeVars, queueVars, dialVars, callVars, serverVars,
                   socket, link, sent, recvd>>

\* The server is done with a connection the client has lost.
ServerForgets(s) ==
    /\ link[s] = "dead"
    /\ link' = [link EXCEPT ![s] = "none"]
    /\ sent' = [sent EXCEPT ![s] = <<>>]
    /\ replies' = [replies EXCEPT ![s] = <<>>]
    /\ recvd' = [recvd EXCEPT ![s] = 0]
    /\ pushes' = [pushes EXCEPT ![s] = <<>>]
    /\ subs' = [subs EXCEPT ![s] = {}]
    /\ UNCHANGED <<watchVars, lifeVars, queueVars, dialVars, callVars, socket, execs>>

-----------------------------------------------------------------------------
Next ==
    \/ Connect \/ Close \/ ReconnectTimer
    \/ \E c \in Calls : Request(c) \/ \E k \in Keys : Watch(c, k) \/ Unwatch(c, k)
    \/ \E i \in DOMAIN inflight : RequestTimer(i)
    \/ \E s \in Socks :
          \/ ConnectOk(s) \/ ConnectFail(s)
          \/ ReplyIgnored(s) \/ ReplyToCall(s)
          \/ \E t \in Socks : ReplyToAuth(s, t) \/ ReplyToRereg(s, t)
          \/ ReceivePush(s) \/ ReceiveBadPush(s) \/ SocketClosed(s)
          \/ Serve(s) \/ ServerForgets(s)
          \/ \E k \in Keys : Push(s, k)

Spec == Init /\ [][Next]_vars

\* The event loop runs due timers and socket events; an attempt ends one way
\* or the other because of its connect timer.  The application connects, the
\* server is not unreachable for ever, and it lets go of lost connections.
Fairness ==
    /\ WF_vars(Connect)
    /\ WF_vars(ReconnectTimer)
    /\ WF_vars(\E i \in DOMAIN inflight : RequestTimer(i))
    /\ \A s \in Socks :
         /\ WF_vars(ConnectOk(s) \/ ConnectFail(s))
         /\ WF_vars(ServerForgets(s))
    /\ SF_vars(\E s \in Socks : ConnectOk(s))

FairSpec == Spec /\ Fairness

-----------------------------------------------------------------------------
(* Properties.                                                              *)

\* A call that resolves was given the reply to its own request: onData pairs
\* replies with waiters by position only, across timeouts, disconnects and
\* half-closed sockets.
OwnReply == \A c \in Calls : outcome[c] \in {"ok", "error"} => reply[c] = c

\* The server executes a call at most once: no reconnect, flush or timeout
\* ever writes the frame of a call a second time.
AtMostOnce == \A c \in Calls : execs[c] <= 1

\* A call rejected out of the offline queue ("Client closed.", "Circuit open",
\* "Failed to connect") or at the door of send() is never executed, not even
\* later: the application may repeat it safely.
RefusedNeverExecuted ==
    \A c \in Calls : outcome[c] \in {"refused", "skipped"} => execs[c] = 0

\* The promise of a call is settled once: a timeout, a late reply and a
\* disconnect that reach the same waiter do not override each other.
SettledOnce ==
    [][\A c \in Calls :
         outcome[c] \notin {"idle", "pending"} => outcome'[c] = outcome[c]]_vars

\* The client keeps the promise of CallService without repeating any call: the
\* pairing of replies, the settling of promises and the executions together.
CS == INSTANCE CallService WITH Idempotent <- {}, MaxRetries <- 0
ImplementsCallService == CS!Spec

\* Waiters in flight have given up their frame and queued ones have theirs, so
\* handleDisconnect() has nothing to re-queue and flushOfflineQueue() never
\* meets its "Should not happen" case.
FramesInPlace ==
    /\ \A i \in DOMAIN inflight : inflight[i].frame = None
    /\ \A i \in DOMAIN offlineQueue : offlineQueue[i].frame # None

\* With a token, a connection carries one auth request, and as its first
\* frame: no request overtakes the authentication of its connection.
AuthFirst ==
    AuthToken => \A s \in Socks : \A i \in DOMAIN sent[s] :
                    (sent[s][i].op = "auth") <=> (i = 1)

\* The client never holds two connections or attempts at once, and the socket
\* it writes to is one whose loss it has not yet been told of.
OneConnection ==
    /\ \A s, t \in Socks :
         (Alive(s) \/ phase[s] = "connecting") /\ (Alive(t) \/ phase[t] = "connecting")
            => s = t
    /\ socket # None => link[socket] = "open"

\* After close() nothing is queued and no reconnect is scheduled.
ClosedForGood == destroyed => offlineQueue = <<>> /\ ~reconnectTimer

\* Calls wait in the offline queue only while a connection is missing or a
\* doConnect() that will flush the queue is still running.
NoStrandedQueue ==
    offlineQueue # <<>> => socket = None \/ \E s \in Socks : phase[s] # "idle"

Quiet(s) == /\ socket = s /\ ~destroyed /\ inflight = <<>> /\ offlineQueue = <<>>
            /\ \A t \in Socks : phase[t] = "idle"

\* Once a connection is up and nothing is under way, every key with a callback
\* is subscribed at the server, on this connection.
CallbacksSubscribed ==
    \A s \in Socks : Quiet(s) =>
        \A k \in Keys : watchCallbacks[k] > 0 => k \in subs[s]

\* Every call is eventually settled.
CallsSettle == \A c \in Calls : outcome[c] = "pending" ~> outcome[c] # "pending"

\* "Auth send failed - socket already disconnected; reconnect loop will retry."
AuthFailureDisconnects ==
    [][\A s \in Socks : phase[s] = "auth" /\ phase'[s] = "idle" /\ offlineQueue' # <<>>
          => socket' = None]_vars

\* "Already written - response may or may not have been processed.  Reject
\* with a retryable error message."  So if the server executed a setNX or incr
\* and the connection was then lost, the caller is not told that the server
\* does not know the operation, however the loss is worded.
OutcomeNotHidden ==
    \A c \in Calls : outcome[c] = "unknown" /\ execs[c] > 0 =>
        \A text \in LostTexts("node") : NormalizeAtomic("node", text) # "UnsupportedRequest"

=============================================================================
