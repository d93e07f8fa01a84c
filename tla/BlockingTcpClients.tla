------------------------- MODULE BlockingTcpClients --------------------------
(***************************************************************************)
(* The TCP clients of the Python, Java, Go and Rust SDKs: one connection,  *)
(* one lock, and under the lock one request written and one frame read.    *)
(* get and ping are repeated once on a new connection when the first       *)
(* attempt fails and autoReconnect is set; nothing else is ever repeated.  *)
(*                                                                         *)
(* The lock is held across every blocking operation, so an action is what  *)
(* its holder does between two of them (dial, write, read), and what       *)
(* interleaves is the holder, the server and the network.  sdk says which  *)
(* client it is; the clients differ in when they connect and in which      *)
(* failures they keep the connection.                                      *)
(*                                                                         *)
(* A definition marked "Variant" is a plausible slip in the definition     *)
(* after it; no action uses it.                                            *)
(***************************************************************************)
EXTENDS Naturals, Sequences, FiniteSets, AtomicErrors

CONSTANTS
    SDKs,           \* the clients to look at
    Calls,          \* API calls; each is made at most once, by its own thread
    ReadCalls,      \* those that call get or ping (retry_safe)
    InvalidCalls,   \* those whose input strict mode rejects
    Socks,          \* identities of connections, reused once forgotten
    None,
    AutoReconnect,  \* option autoReconnect
    AuthToken,      \* an auth token is configured
    TimeoutsAt,     \* the reads that may time out with the reply under way
    Verdicts,       \* kinds of reply the server gives: ok, err, bad
    Cancellation,   \* may the future of a Rust call be dropped?
    Backpressure,   \* may the server stop reading for a while?
    MaxPush         \* bound: unread pushes per connection

Reads == {"auth", "first", "second", "event"}

ASSUME ConstantsAssumption ==
    /\ SDKs \subseteq {"python", "java", "go", "rust"}
    /\ ReadCalls \subseteq Calls /\ InvalidCalls \subseteq Calls
    /\ None \notin Calls \cup Socks
    /\ {AutoReconnect, AuthToken, Cancellation, Backpressure} \subseteq BOOLEAN
    /\ TimeoutsAt \subseteq Reads
    /\ Verdicts \subseteq {"ok", "err", "bad"}
    /\ MaxPush \in Nat

VARIABLES
    sdk,      \* which client
    conn,     \* _sock / socket / conn / stream
    at,       \* what the holder of the lock waits for; "free": nobody holds it
    caller,   \* the call that holds the lock, None for connect and wait_watch_event
    op,       \* what the holder does
    attempt,  \* its attempt at the request
    outcome,  \* what each call has come to
    reply,    \* the owner of the request whose reply a call got
    link,     \* state of each connection
    sent,     \* requests written on each connection
    served,   \* how many of them the server has executed
    inbox,    \* frames on their way to the client, in order
    subs,     \* is anything watched on the connection?
    execs     \* how often the server executed each call

lockVars == <<at, caller, op, attempt>>
callVars == <<outcome, reply>>
netVars  == <<link, sent, served, inbox, subs>>
vars     == <<sdk, conn, lockVars, callVars, netVars, execs>>

CallOps  == {"read", "write", "watch", "unwatch"}
Frames   == [owner : Calls \cup {None}, op : CallOps \cup {"auth"}]
Messages == [owner : Calls \cup {None}, op : CallOps \cup {"auth", "push"},
             verdict : {"ok", "err", "bad"}]
Outcomes == {"idle", "pending",
             "ok", "error",   \* a result, or the Error reply of the server
             "refused",       \* invalid, or there is no connection
             "failed",        \* the error of a dial, of the authentication, of
                              \* a write or a read, as it is
             "unknown",       \* the error says that the outcome is unknown
             "unexpected",    \* it read a frame that is not its reply or, in
                              \* Python, does not decode
             "dropped"}       \* nobody waits for its result any more

TypeOK ==
    /\ sdk \in SDKs
    /\ conn \in Socks \cup {None}
    /\ at \in {"free", "dial", "auth", "write", "blocked", "read"}
    /\ caller \in Calls \cup {None}
    /\ op \in CallOps \cup {"none", "connect", "event"}
    /\ attempt \in {1, 2}
    /\ outcome \in [Calls -> Outcomes]
    /\ reply \in [Calls -> Calls \cup {None}]
    /\ link \in [Socks -> {"none", "open", "broken", "dead"}]
    /\ sent \in [Socks -> Seq(Frames)]
    /\ served \in [Socks -> Nat]
    /\ inbox \in [Socks -> Seq(Messages)]
    /\ subs \in [Socks -> BOOLEAN]
    /\ execs \in [Calls -> Nat]
    \* the lock and its holder
    /\ (at = "free") <=> (op = "none")
    /\ (caller # None) <=> (op \in CallOps)
    /\ caller # None => outcome[caller] = "pending"
    /\ at \in {"auth", "write", "blocked", "read"} => conn # None
    /\ at \in {"write", "blocked"} => op \in CallOps

Init ==
    /\ sdk \in SDKs
    /\ conn = None
    /\ at = "free" /\ caller = None /\ op = "none" /\ attempt = 1
    /\ outcome = [c \in Calls |-> "idle"] /\ reply = [c \in Calls |-> None]
    /\ link = [s \in Socks |-> "none"] /\ sent = [s \in Socks |-> <<>>]
    /\ served = [s \in Socks |-> 0] /\ inbox = [s \in Socks |-> <<>>]
    /\ subs = [s \in Socks |-> FALSE]
    /\ execs = [c \in Calls |-> 0]

-----------------------------------------------------------------------------
(* Taking the lock.                                                         *)

FirstStep(o) == IF o = "event" THEN "read" ELSE "write"

\* Variant: an operation does not look whether there is a connection.
StartUnchecked(c, o) == IF o = "connect" THEN "dial" ELSE FirstStep(o)

\* What an operation does first, by client: "done" is a return without effect.
StartPython(c, o) ==
    CASE o = "connect" -> IF conn = None THEN "dial" ELSE "done"
      [] o # "connect" -> IF c \in InvalidCalls \/ conn = None THEN "refuse"
                          ELSE FirstStep(o)

\* Without a connection the streams are null: a NullPointerException.
StartJava(c, o) == StartPython(c, o)

\* Connect() dials even when there is a connection; the other operations
\* connect when there is none, and validate after that.
StartGo(c, o) ==
    CASE o = "connect" \/ conn = None -> "dial"
      [] o # "connect" /\ conn # None -> IF c \in InvalidCalls THEN "refuse" ELSE FirstStep(o)

StartRust(c, o) ==
    CASE c \in InvalidCalls -> "refuse"
      [] c \notin InvalidCalls /\ conn = None -> "dial"
      [] c \notin InvalidCalls /\ conn # None ->
           IF o = "connect" THEN "done" ELSE FirstStep(o)

Start(c, o) ==
    CASE sdk = "python" -> StartPython(c, o)
      [] sdk = "java"   -> StartJava(c, o)
      [] sdk = "go"     -> StartGo(c, o)
      [] sdk = "rust"   -> StartRust(c, o)

Acquire(c, o) ==
    /\ at = "free" /\ Start(c, o) \notin {"done", "refuse"}
    /\ at' = Start(c, o) /\ caller' = c /\ op' = o /\ attempt' = 1
    /\ UNCHANGED <<sdk, conn, reply, netVars, execs>>

\* get, ping; set, set_nx, incr, delete, the pattern operations; watch, unwatch
Call(c, o) ==
    /\ outcome[c] = "idle" /\ (c \in ReadCalls <=> o = "read")
    /\ Acquire(c, o)
    /\ outcome' = [outcome EXCEPT ![c] = "pending"]

CallRefused(c, o) ==
    /\ outcome[c] = "idle" /\ (c \in ReadCalls <=> o = "read")
    /\ at = "free" /\ Start(c, o) = "refuse"
    /\ outcome' = [outcome EXCEPT ![c] = "refused"]
    /\ UNCHANGED <<sdk, conn, lockVars, reply, netVars, execs>>

Connect        == Acquire(None, "connect") /\ UNCHANGED outcome
WaitWatchEvent == Acquire(None, "event") /\ UNCHANGED outcome

\* The connection is closed by this end.
CloseConn ==
    /\ conn' = None
    /\ link' = [link EXCEPT ![conn] = "dead"]

Close ==
    /\ at = "free" /\ conn # None
    /\ CloseConn
    /\ UNCHANGED <<sdk, lockVars, callVars, sent, served, inbox, subs, execs>>

\* The holder releases the lock; its call, if it is one, ends with outcome v.
Release(v) ==
    /\ at' = "free" /\ caller' = None /\ op' = "none" /\ attempt' = 1
    /\ outcome' = [c \in Calls |-> IF c = caller THEN v ELSE outcome[c]]

-----------------------------------------------------------------------------
(* Connecting and authenticating.                                           *)

\* There is a connection, authenticated if need be.
Connected ==
    \/ /\ op = "connect" \/ (sdk = "go" /\ caller \in InvalidCalls)
       /\ Release("refused")
    \/ /\ op # "connect" /\ ~(sdk = "go" /\ caller \in InvalidCalls)
       /\ at' = FirstStep(op)
       /\ UNCHANGED <<caller, op, attempt, outcome>>

\* Variant: the second attempt skips the authentication.
AuthenticatesOnce == AuthToken /\ attempt = 1

MustAuthenticate == AuthToken

\* A connection is established, and the auth request written on it (a new
\* connection has room for it, so that this write does not block).
DialOk ==
    /\ at = "dial"
    /\ \E s \in Socks :
         /\ link[s] = "none"
         /\ conn' = s
         /\ link' = [link EXCEPT ![s] = "open"]
         /\ \/ /\ MustAuthenticate
               /\ sent' = [sent EXCEPT ![s] = <<[owner |-> None, op |-> "auth"]>>]
               /\ at' = "auth"
               /\ UNCHANGED <<caller, op, attempt, outcome>>
            \/ /\ ~MustAuthenticate
               /\ Connected
               /\ UNCHANGED sent
    /\ UNCHANGED <<sdk, reply, served, inbox, subs, execs>>

DialFailed ==
    /\ at = "dial"
    /\ Release("failed")
    /\ UNCHANGED <<sdk, conn, reply, netVars, execs>>

\* Does an error while the auth reply is read close the connection?  Only Go
\* says so; the others leave it in place, the reply unread.
AuthErrorCloses == sdk = "go"

AuthBroken ==
    /\ \/ AuthErrorCloses /\ CloseConn
       \/ ~AuthErrorCloses /\ UNCHANGED <<conn, link>>
    /\ Release("failed")

Arrived == inbox[conn] # <<>>
Message == Head(inbox[conn])
Take    == inbox' = [inbox EXCEPT ![conn] = Tail(@)]

AuthAnswered ==
    /\ at = "auth" /\ Arrived /\ Take
    /\ \/ /\ Message.op = "auth" /\ Message.verdict = "ok"
          /\ Connected
          /\ UNCHANGED <<conn, link>>
       \/ /\ Message.verdict = "bad"
          /\ AuthBroken
       \/ /\ Message.verdict = "err" \/ (Message.verdict = "ok" /\ Message.op # "auth")
          /\ CloseConn
          /\ Release("failed")
    /\ UNCHANGED <<sdk, reply, sent, served, subs, execs>>

\* A read fails: it times out, or the connection is lost and nothing is left
\* to be read.
ReadFails(where) ==
    where \in TimeoutsAt \/ (link[conn] = "broken" /\ inbox[conn] = <<>>)

AuthFailed ==
    /\ at = "auth" /\ ReadFails("auth")
    /\ AuthBroken
    /\ UNCHANGED <<sdk, reply, sent, served, inbox, subs, execs>>

-----------------------------------------------------------------------------
(* One request, one reply.                                                  *)

\* Variant: every call is repeated.
RetriesAnything == op \in CallOps /\ AutoReconnect /\ attempt = 1

\* Is the call repeated when its attempt fails?
Retries == op = "read" /\ AutoReconnect /\ attempt = 1

\* Variant: the failed connection is used for the second attempt too.
KeepsConn == UNCHANGED <<conn, link>>

\* The first failure closes the connection, the second one leaves it.
DropsConn ==
    \/ attempt = 1 /\ CloseConn
    \/ attempt = 2 /\ UNCHANGED <<conn, link>>

\* Variant: the cause of the failure is reported, whatever the call.
ReportsTheCause == "failed"

\* How the caller learns of it.  Only a call that is not retry_safe is told
\* that its outcome is unknown; get and ping get the error as it is.
LossReport == IF op = "read" THEN "failed" ELSE "unknown"

\* The attempt has failed: try again on a new connection, or give up.
AttemptFailed ==
    /\ DropsConn
    /\ \/ /\ Retries
          /\ at' = "dial" /\ attempt' = 2
          /\ UNCHANGED <<caller, op, outcome>>
       \/ /\ ~Retries
          /\ Release(LossReport)

\* The request is on the connection; if that is lost, so is the request.
Written ==
    /\ at' = "read"
    /\ sent' = IF link[conn] = "broken" THEN sent
               ELSE [sent EXCEPT ![conn] = Append(@, [owner |-> caller, op |-> op])]
    /\ UNCHANGED <<sdk, conn, caller, op, attempt, callVars, link, served, inbox, subs, execs>>

Write == at = "write" /\ Written

\* The server does not read, and the connection takes no more; some time it
\* may go on reading.
WriteBlocks ==
    /\ Backpressure /\ at = "write" /\ at' = "blocked"
    /\ UNCHANGED <<sdk, conn, caller, op, attempt, callVars, netVars, execs>>

WriteResumes == at = "blocked" /\ Written

\* Variant: writes have no timeout.
WritesForever == FALSE

\* Does a blocked write time out?  Python's settimeout(), Go's write deadline
\* and Rust's timeout() cover writes; Java's SO_TIMEOUT does not.
WriteTimeout == sdk # "java"

WriteFailed ==
    /\ \/ at \in {"write", "blocked"} /\ link[conn] = "broken"
       \/ at = "blocked" /\ WriteTimeout
    /\ AttemptFailed
    /\ UNCHANGED <<sdk, reply, sent, served, inbox, subs, execs>>

\* The next frame is taken for the reply, whatever request it answers.
Reply ==
    /\ at = "read" /\ op # "event" /\ Arrived /\ Take
    /\ \/ /\ Message.verdict # "bad" /\ Message.op # "push"
          /\ \/ /\ Message.verdict = "err"
                /\ Release("error")
             \/ /\ Message.verdict = "ok" /\ Message.op = op
                /\ Release("ok")
          /\ reply' = [reply EXCEPT ![caller] = Message.owner]
          /\ UNCHANGED <<conn, link>>
       \/ /\ Message.verdict = "ok" /\ Message.op # op
          /\ Release("unexpected")
          /\ UNCHANGED <<reply, conn, link>>
       \/ /\ Message.verdict = "bad" /\ sdk # "python"
          /\ AttemptFailed
          /\ UNCHANGED reply
       \/ /\ Message.verdict = "bad" /\ sdk = "python"
          /\ Release("unexpected")
          /\ UNCHANGED <<reply, conn, link>>
    /\ UNCHANGED <<sdk, sent, served, subs, execs>>

ReadFailed ==
    /\ at = "read" /\ op # "event"
    /\ ReadFails(IF attempt = 1 THEN "first" ELSE "second")
    /\ AttemptFailed
    /\ UNCHANGED <<sdk, reply, sent, served, inbox, subs, execs>>

\* wait_watch_event reads one frame, without a request; if it cannot, the
\* connection stays.
Event ==
    /\ at = "read" /\ op = "event"
    /\ \/ Arrived /\ Take
       \/ ReadFails("event") /\ UNCHANGED inbox
    /\ Release("failed")
    /\ UNCHANGED <<sdk, conn, reply, link, sent, served, subs, execs>>

\* The future of a Rust call is dropped at one of its awaits: the lock is
\* released and the connection stays as it is.
Cancel ==
    /\ Cancellation /\ sdk = "rust" /\ at # "free"
    /\ Release("dropped")
    /\ UNCHANGED <<sdk, conn, reply, netVars, execs>>

-----------------------------------------------------------------------------
(* The server and the network.                                              *)

Serve(s) ==
    LET f == sent[s][served[s] + 1]
    IN  /\ served[s] < Len(sent[s])
        /\ served' = [served EXCEPT ![s] = @ + 1]
        /\ execs' = [c \in Calls |-> IF c = f.owner THEN execs[c] + 1 ELSE execs[c]]
        /\ \E v \in Verdicts :
             /\ inbox' = IF link[s] # "open" THEN inbox
                         ELSE [inbox EXCEPT ![s] =
                                 Append(@, [owner |-> f.owner, op |-> f.op, verdict |-> v])]
             /\ subs' = [subs EXCEPT ![s] =
                           (@ \/ (f.op = "watch" /\ v # "err"))
                             /\ ~(f.op = "unwatch" /\ v # "err")]
        /\ UNCHANGED <<sdk, conn, lockVars, callVars, link, sent>>

Push(s) ==
    /\ link[s] = "open" /\ subs[s]
    /\ Cardinality({i \in DOMAIN inbox[s] : inbox[s][i].op = "push"}) < MaxPush
    /\ inbox' = [inbox EXCEPT ![s] =
                   Append(@, [owner |-> None, op |-> "push", verdict |-> "ok"])]
    /\ UNCHANGED <<sdk, conn, lockVars, callVars, link, sent, served, subs, execs>>

\* The connection is lost, with what is under way to the client or without.
Break(s) ==
    /\ link[s] = "open"
    /\ link' = [link EXCEPT ![s] = "broken"]
    /\ inbox' \in {inbox, [inbox EXCEPT ![s] = <<>>]}
    /\ UNCHANGED <<sdk, conn, lockVars, callVars, sent, served, subs, execs>>

\* The server is done with a connection the client no longer uses.
Forget(s) ==
    /\ link[s] = "dead" \/ (link[s] = "broken" /\ conn # s)
    /\ link' = [link EXCEPT ![s] = "none"]
    /\ sent' = [sent EXCEPT ![s] = <<>>]
    /\ served' = [served EXCEPT ![s] = 0]
    /\ inbox' = [inbox EXCEPT ![s] = <<>>]
    /\ subs' = [subs EXCEPT ![s] = FALSE]
    /\ UNCHANGED <<sdk, conn, lockVars, callVars, execs>>

-----------------------------------------------------------------------------
\* What the holder of the lock does.
Holder ==
    \/ DialOk \/ DialFailed \/ AuthAnswered \/ AuthFailed
    \/ Write \/ WriteFailed \/ Reply \/ ReadFailed \/ Event

Next ==
    \/ \E c \in Calls, o \in CallOps : Call(c, o) \/ CallRefused(c, o)
    \/ Connect \/ WaitWatchEvent \/ Close \/ Holder \/ Cancel
    \/ WriteBlocks \/ WriteResumes
    \/ \E s \in Socks : Serve(s) \/ Push(s) \/ Break(s) \/ Forget(s)

Spec == Init /\ [][Next]_vars

\* The thread that holds the lock runs, and what has a timeout times out.
FairSpec == Spec /\ WF_vars(Holder)

-----------------------------------------------------------------------------
(* Properties.                                                              *)

\* A call that returns a result or the server's error was given the reply to
\* its own request, not one that an earlier call left unread.
OwnReply == \A c \in Calls : outcome[c] \in {"ok", "error"} => reply[c] = c

\* What may change the server's state is executed at most once; get and ping
\* at most twice, whatever is lost, late, pushed or cancelled.
BoundedExecutions ==
    \A c \in Calls : execs[c] <= (IF c \in ReadCalls THEN 2 ELSE 1)

\* A call that is refused is not executed, then or later; and neither is a
\* call that can change the server's state and fails with the bare error of
\* a dial or an authentication: whoever is not told that the outcome is
\* unknown, or that the reply was unexpected, may repeat it.
PlainFailureNotExecuted ==
    \A c \in Calls : execs[c] > 0 =>
        outcome[c] # "refused" /\ (c \notin ReadCalls => outcome[c] # "failed")

\* A set_nx or incr that the server has executed is not reported as one that
\* the server does not know, whatever became of its connection or its reply.
OutcomeNotHidden ==
    \A c \in Calls \ ReadCalls : execs[c] > 0 =>
        \A text \in ErrorTexts(sdk, outcome[c]) :
            NormalizeAtomic(sdk, text) # "UnsupportedRequest"

\* What the outcome v of a call c says in the terms of CallService.  A bare
\* error is a promise that nothing was executed, except to the caller of get
\* or ping.
Promise(c, v) ==
    IF v \in {"unexpected", "dropped"} \/ (v = "failed" /\ c \in ReadCalls) THEN "unknown"
    ELSE IF v = "failed" THEN "refused" ELSE v

Promised == [c \in Calls |-> Promise(c, outcome[c])]

\* The client keeps the promise of CallService, get and ping being repeated at
\* most once.
CS == INSTANCE CallService WITH
        Idempotent <- ReadCalls, MaxRetries <- 1, outcome <- Promised
ImplementsCallService == CS!Spec

\* Between two calls the connection is in step: no request on it is waiting
\* for the server or for its reply to be read.
InStep ==
    at = "free" /\ conn # None /\ link[conn] = "open" =>
        served[conn] = Len(sent[conn]) /\ inbox[conn] = <<>>

\* With a token, the auth request is the first frame of every connection, on
\* retries too.
AuthFirst ==
    AuthToken => \A s \in Socks : \A i \in DOMAIN sent[s] :
                    (sent[s][i].op = "auth") <=> (i = 1)

\* Nobody keeps the lock for ever: retries come to an end, and every dial,
\* read and write has a timeout - except a write of the Java client, which
\* holds the lock as long as the server does not read.
LockReleased == at # "free" ~> (at = "free" \/ (sdk = "java" /\ at = "blocked"))

=============================================================================
