------------------------ MODULE BlockingPairingProofs ------------------------
(***************************************************************************)
(* What the Python, Java, Go and Rust clients promise when no reply is     *)
(* ever left on a connection that stays in use: every result is the reply  *)
(* to its own request, the connection is in step between calls, and the    *)
(* client implements CallService.  Discipline says when that is so; the    *)
(* run BlockingLateReply shows what happens without it.                    *)
(*                                                                         *)
(* OwnReply says nothing of the frame that is about to be read.  Paired    *)
(* does: it follows the one request of the holder of the lock, from the    *)
(* write until its reply is read, on the connection in use.                *)
(***************************************************************************)
EXTENDS BlockingTcpProofs

\* The failures after which a client keeps a connection on which a reply may
\* still come do not happen: the second attempt of get or ping does not time
\* out (or there is none), nor does the read of the auth reply (but for Go,
\* which closes the connection), no future is dropped, and the server pushes
\* nothing.  First attempts and wait_watch_event may time out, and connections
\* may break at any moment.
Discipline ==
    /\ "second" \in TimeoutsAt => ~AutoReconnect
    /\ "auth" \in TimeoutsAt => ~AuthToken \/ SDKs \subseteq {"go"}
    /\ Cancellation => "rust" \notin SDKs
    /\ MaxPush = 0

\* Does the holder of the lock wait for a reply, and to which request?
Awaiting == at = "auth" \/ (at = "read" /\ op # "event")
Awaited  == IF at = "auth" THEN [owner |-> None, op |-> "auth"] ELSE [owner |-> caller, op |-> op]

\* The server has not come to the awaited request, the last one written.
Asked ==
    /\ inbox[conn] = <<>> /\ served[conn] + 1 = Len(sent[conn])
    /\ sent[conn][Len(sent[conn])] = Awaited

\* The reply to it, and nothing else, is on its way.
Answered ==
    /\ Len(inbox[conn]) = 1
    /\ Message.owner = Awaited.owner /\ Message.op = Awaited.op
    /\ at = "read" /\ caller \in Calls => execs[caller] > 0

Served == served[conn] = Len(sent[conn])

Paired ==
    conn # None =>
        \/ ~Awaiting /\ inbox[conn] = <<>> /\ (link[conn] = "open" => Served)
        \/ Awaiting /\ link[conn] = "open" /\ (Asked \/ (Answered /\ Served))
        \/ Awaiting /\ link[conn] = "broken" /\ (inbox[conn] = <<>> \/ Answered)

\* A call that has a result has its own, and was executed; and the only frame
\* that is unexpected is one that the Python client cannot decode.
Resolved ==
    \A c \in Calls : /\ outcome[c] \in {"ok", "error"} => reply[c] = c /\ execs[c] > 0
                     /\ outcome[c] = "unexpected" => sdk = "python"

\* Second attempts and auth requests are made only if so configured.
Configured == (attempt = 2 => AutoReconnect) /\ (at = "auth" => AuthToken)

PairInv == Paired /\ Resolved /\ Configured

-----------------------------------------------------------------------------
(* One request, one reply.                                                  *)

\* Nothing that the holder waits for is on the connection.
Idle == inbox[conn] = <<>> /\ (link[conn] = "open" => Served)

\* While nothing is awaited, the connection is idle; a frame that has arrived
\* is the only one and is the awaited reply.
LEMMA PairedFacts ==
    ASSUME IInv, Paired, conn # None
    PROVE  /\ conn \in Socks /\ link[conn] \in {"open", "broken"}
           /\ ~Awaiting => Idle
           /\ Arrived => Answered /\ Tail(inbox[conn]) = <<>> /\ (link[conn] = "open" => Served)
           /\ link[conn] = "broken" /\ inbox[conn] = <<>> => Idle
  <1>1. conn \in Socks /\ link[conn] \in {"open", "broken"} /\ inbox[conn] \in Seq(Messages)
    BY DEF IInv, TypeOK, LinksOK
  <1>2. ~Awaiting => Idle
    BY DEF Paired, Idle
  <1>3. ASSUME Arrived
        PROVE  Answered /\ Tail(inbox[conn]) = <<>> /\ (link[conn] = "open" => Served)
    <2>1. Answered /\ (link[conn] = "open" => Served)
      BY <1>3 DEF Paired, Arrived, Asked
    <2>2. Len(Tail(inbox[conn])) = 0 /\ Tail(inbox[conn]) \in Seq(Messages)
      BY <1>1, <1>3, <2>1, HeadTailProperties DEF Answered, Arrived
    <2> QED BY <2>1, <2>2, EmptySeq
  <1>4. link[conn] = "broken" /\ inbox[conn] = <<>> => Idle
    BY DEF Idle
  <1> QED BY <1>1, <1>2, <1>3, <1>4

\* A step after which nothing is awaited keeps Paired if it closes the
\* connection, or leaves it idle.
LEMMA ThenIdle ==
    ASSUME ~Awaiting', CloseConn \/ (UNCHANGED <<conn, link, sent, served>> /\ Idle')
    PROVE  Paired'
  BY DEF CloseConn, Paired, Idle

\* What follows a connection being there awaits nothing yet.
LEMMA ConnectedAwaitsNothing ==
    ASSUME Connected
    PROVE  ~Awaiting'
  BY DEF Connected, Release, FirstStep, Awaiting

\* Taking and giving up the lock, and connecting.
LEMMA LockPairs ==
    ASSUME Discipline, IInv, PairInv,
           \/ \E c \in Calls, o \in CallOps : Call(c, o) \/ CallRefused(c, o)
           \/ Connect \/ WaitWatchEvent \/ Close \/ DialFailed \/ WriteBlocks \/ Cancel
    PROVE  Paired'
  <1> USE ConstantsAssumption DEF ConstantsAssumption, IInv, PairInv
  <1>1. CASE ~Awaiting /\ ~Awaiting' /\ UNCHANGED <<conn, netVars>>
    BY <1>1 DEF netVars, Paired, Served
  <1>2. ASSUME NEW c \in Calls, NEW o \in CallOps, Call(c, o)
        PROVE  Paired'
    <2>1. Start(c, o) \in {"dial", "write"}
      BY <1>2, StartValues DEF Call, Acquire, CallOps
    <2> QED BY <1>1, <1>2, <2>1 DEF Call, Acquire, Awaiting
  <1>3. ASSUME NEW c \in Calls, NEW o \in CallOps, CallRefused(c, o)
        PROVE  Paired'
    BY <1>1, <1>3 DEF CallRefused, Awaiting, lockVars
  <1>4. CASE Connect
    <2>1. Start(None, "connect") = "dial"
      BY <1>4, StartValues DEF Connect, Acquire, CallOps
    <2> QED BY <1>1, <1>4, <2>1 DEF Connect, Acquire, Awaiting
  <1>5. CASE WaitWatchEvent
    <2>1. Start(None, "event") \in {"dial", "read"}
      BY <1>5, StartValues DEF WaitWatchEvent, Acquire, CallOps
    <2> QED BY <1>1, <1>5, <2>1 DEF WaitWatchEvent, Acquire, Awaiting
  <1>6. CASE Close
    BY <1>6 DEF Close, CloseConn, Paired
  <1>7. CASE DialFailed
    BY <1>1, <1>7 DEF DialFailed, Release, Awaiting
  <1>8. ~Cancel
    BY DEF Cancel, Discipline, TypeOK
  <1>9. CASE WriteBlocks
    BY <1>1, <1>9 DEF WriteBlocks, Awaiting
  <1> QED BY <1>2, <1>3, <1>4, <1>5, <1>6, <1>7, <1>8, <1>9

\* A new connection carries the auth request, if any, and nothing else.
LEMMA DialPairs ==
    ASSUME IInv, DialOk
    PROVE  Paired'
  <1> USE ConstantsAssumption DEF ConstantsAssumption, IInv
  <1> DEFINE r == [owner |-> None, op |-> "auth"]
  <1>1. PICK s \in Socks :
          /\ link[s] = "none" /\ conn' = s /\ link' = [link EXCEPT ![s] = "open"]
          /\ \/ sent' = [sent EXCEPT ![s] = <<r>>] /\ at' = "auth"
             \/ Connected /\ UNCHANGED sent
    BY DEF DialOk
  <1>2. sent[s] = <<>> /\ inbox[s] = <<>> /\ served[s] <= Len(sent[s]) /\ served[s] \in Nat
    BY <1>1 DEF LinksOK, TypeOK
  <1>3. served[s] = 0 /\ Len(sent[s]) = 0
    BY <1>2, EmptySeq
  <1>4. link'[s] = "open" /\ UNCHANGED <<inbox, served>>
    BY <1>1 DEF DialOk, TypeOK
  <1>5. CASE sent' = [sent EXCEPT ![s] = <<r>>] /\ at' = "auth"
    <2>1. sent'[s] = <<r>> /\ Len(<<r>>) = 1 /\ <<r>>[1] = r
      BY <1>5 DEF TypeOK
    <2>2. Awaiting' /\ Awaited' = r
      BY <1>5 DEF Awaiting, Awaited
    <2>3. Asked'
      BY <1>1, <1>2, <1>3, <1>4, <2>1, <2>2 DEF Asked
    <2> QED BY <1>1, <1>4, <2>2, <2>3 DEF Paired
  <1>6. CASE Connected /\ UNCHANGED sent
    <2>1. ~Awaiting'
      BY <1>6, ConnectedAwaitsNothing
    <2> QED BY <1>1, <1>2, <1>3, <1>4, <1>6, <2>1 DEF Paired, Served
  <1> QED BY <1>1, <1>5, <1>6

\* The auth reply is read, or cannot be.
LEMMA AuthPairs ==
    ASSUME Discipline, IInv, PairInv, AuthAnswered \/ AuthFailed
    PROVE  Paired'
  <1> USE ConstantsAssumption DEF ConstantsAssumption, PairInv
  <1>0. conn \in Socks /\ conn # None /\ inbox \in [Socks -> Seq(Messages)] /\ sdk \in SDKs
    BY DEF AuthAnswered, AuthFailed, IInv, TypeOK
  <1>1. CASE AuthAnswered
    <2>1. ~Awaiting'
      BY <1>1, ConnectedAwaitsNothing DEF AuthAnswered, AuthBroken, Release, Awaiting
    <2>2. CloseConn \/ UNCHANGED <<conn, link>>
      BY <1>1 DEF AuthAnswered, AuthBroken
    <2>3. UNCHANGED <<sent, served>> /\ inbox'[conn] = <<>> /\ (link[conn] = "open" => Served)
      BY <1>0, <1>1, PairedFacts DEF AuthAnswered, Take
    <2>4. UNCHANGED <<conn, link>> => Idle'
      BY <2>3 DEF Idle, Served
    <2> QED BY <2>1, <2>2, <2>3, <2>4, ThenIdle
  <1>2. CASE AuthFailed
    <2>1. ~Awaiting' /\ UNCHANGED <<sent, served, inbox>>
      BY <1>2 DEF AuthFailed, AuthBroken, Release, Awaiting
    <2>2. CASE "auth" \in TimeoutsAt
      <3>1. sdk = "go"
        BY <1>0, <1>2, <2>2 DEF AuthFailed, Discipline, Configured
      <3> QED BY <1>2, <2>1, <3>1, ThenIdle DEF AuthFailed, AuthBroken, AuthErrorCloses
    <2>3. CASE link[conn] = "broken" /\ inbox[conn] = <<>>
      <3>1. UNCHANGED <<conn, link>> => Idle'
        BY <2>1, <2>3 DEF Idle
      <3> QED BY <1>2, <2>1, <3>1, ThenIdle DEF AuthFailed, AuthBroken
    <2> QED BY <1>2, <2>2, <2>3 DEF AuthFailed, ReadFails
  <1> QED BY <1>1, <1>2

\* A request is written; it cannot be written; a reply or an event is read; it
\* cannot be read.
LEMMA RequestPairs ==
    ASSUME Discipline, IInv, PairInv,
           Write \/ WriteResumes \/ WriteFailed \/ Reply \/ ReadFailed \/ Event
    PROVE  Paired'
  <1> USE ConstantsAssumption DEF ConstantsAssumption, PairInv
  <1>0. /\ conn \in Socks /\ conn # None /\ inbox \in [Socks -> Seq(Messages)]
        /\ sent \in [Socks -> Seq(Frames)] /\ attempt \in {1, 2}
        /\ link[conn] \in {"open", "broken"}
    BY DEF Write, WriteResumes, WriteFailed, Reply, ReadFailed, Event, IInv, TypeOK, LinksOK
  <1>1. CASE Write \/ WriteResumes
    <2> DEFINE r == [owner |-> caller, op |-> op]
    <2>1. /\ ~Awaiting /\ Awaiting' /\ Awaited' = r /\ r \in Frames
          /\ UNCHANGED <<conn, link, served, inbox>>
      BY <1>1
      DEF Write, WriteResumes, Written, Awaiting, Awaited, IInv, TypeOK, Frames, CallOps
    <2>2. Idle
      BY <1>0, <2>1, PairedFacts
    <2>3. CASE link[conn] = "broken"
      BY <2>1, <2>2, <2>3 DEF Idle, Paired
    <2>4. CASE link[conn] = "open"
      <3>1. sent'[conn] = Append(sent[conn], r) /\ sent[conn] \in Seq(Frames)
        BY <1>0, <1>1, <2>4 DEF Write, WriteResumes, Written
      <3>2. Len(sent'[conn]) = Len(sent[conn]) + 1 /\ sent'[conn][Len(sent[conn]) + 1] = r
        BY <2>1, <3>1, AppendProperties
      <3>3. Asked'
        BY <2>1, <2>2, <2>4, <3>2 DEF Idle, Served, Asked
      <3> QED BY <2>1, <2>4, <3>3 DEF Paired
    <2> QED BY <1>0, <2>3, <2>4
  <1>2. CASE WriteFailed
    <2>1. ~Awaiting /\ ~Awaiting' /\ UNCHANGED <<sent, served, inbox>>
      BY <1>2 DEF WriteFailed, AttemptFailed, Release, Awaiting
    <2>2. Idle
      BY <1>0, <2>1, PairedFacts
    <2>3. CloseConn \/ UNCHANGED <<conn, link>>
      BY <1>2 DEF WriteFailed, AttemptFailed, DropsConn
    <2>4. UNCHANGED <<conn, link>> => Idle'
      BY <2>1, <2>2 DEF Idle, Served
    <2> QED BY <2>1, <2>3, <2>4, ThenIdle
  <1>3. CASE Reply
    <2>1. ~Awaiting' /\ UNCHANGED <<sent, served>>
      BY <1>3 DEF Reply, AttemptFailed, Release, Awaiting
    <2>2. inbox'[conn] = <<>> /\ (link[conn] = "open" => Served)
      BY <1>0, <1>3, PairedFacts DEF Reply, Take
    <2>3. CloseConn \/ UNCHANGED <<conn, link>>
      BY <1>3 DEF Reply, AttemptFailed, DropsConn
    <2>4. UNCHANGED <<conn, link>> => Idle'
      BY <2>1, <2>2 DEF Idle, Served
    <2> QED BY <2>1, <2>3, <2>4, ThenIdle
  <1>4. CASE ReadFailed
    <2>1. ~Awaiting' /\ UNCHANGED <<sent, served, inbox>>
      BY <1>4 DEF ReadFailed, AttemptFailed, Release, Awaiting
    <2>2. CASE attempt = 1
      BY <1>4, <2>1, <2>2, ThenIdle DEF ReadFailed, AttemptFailed, DropsConn
    <2>3. CASE attempt = 2
      <3>1. link[conn] = "broken" /\ inbox[conn] = <<>>
        BY <1>4, <2>3 DEF ReadFailed, ReadFails, Discipline, Configured
      <3>2. UNCHANGED <<conn, link>>
        BY <1>4, <2>3 DEF ReadFailed, AttemptFailed, DropsConn
      <3>3. Idle'
        BY <2>1, <3>1, <3>2 DEF Idle
      <3> QED BY <2>1, <3>2, <3>3, ThenIdle
    <2> QED BY <1>0, <2>2, <2>3
  <1>5. CASE Event
    <2>1. ~Awaiting /\ ~Awaiting' /\ UNCHANGED <<conn, link, sent, served>>
      BY <1>5 DEF Event, Release, Awaiting
    <2>2. Idle
      BY <1>0, <2>1, PairedFacts
    <2>3. UNCHANGED inbox
      BY <1>5, <2>2 DEF Event, Arrived, Idle
    <2>4. Idle'
      BY <2>1, <2>2, <2>3 DEF Idle, Served
    <2> QED BY <2>1, <2>4, ThenIdle
  <1> QED BY <1>1, <1>2, <1>3, <1>4, <1>5

\* The server executes the awaited request and answers it.
LEMMA ServePairs ==
    ASSUME IInv, Paired, NEW s \in Socks, Serve(s)
    PROVE  Paired'
  <1> USE ConstantsAssumption DEF ConstantsAssumption
  <1> DEFINE f == sent[s][served[s] + 1]
  <1>0. /\ inbox \in [Socks -> Seq(Messages)] /\ sent \in [Socks -> Seq(Frames)]
        /\ served \in [Socks -> Nat] /\ execs \in [Calls -> Nat]
    BY DEF IInv, TypeOK
  <1>1. /\ UNCHANGED <<conn, at, caller, op, link, sent>>
        /\ served' = [served EXCEPT ![s] = @ + 1] /\ served[s] < Len(sent[s])
        /\ \A c \in Calls : execs'[c] = IF c = f.owner THEN execs[c] + 1 ELSE execs[c]
    BY DEF Serve, lockVars
  <1>2. Awaiting' = Awaiting /\ Awaited' = Awaited
    BY <1>1 DEF Awaiting, Awaited
  <1>3. inbox' = inbox \/ (link[s] = "open" /\ \E v \in Verdicts :
          inbox' = [inbox EXCEPT ![s] =
                      Append(@, [owner |-> f.owner, op |-> f.op, verdict |-> v])])
    BY DEF Serve
  <1>4. \A c \in Calls : execs[c] > 0 => execs'[c] > 0
    <2> TAKE c \in Calls
    <2>1. execs[c] \in Nat /\ execs'[c] \in {execs[c], execs[c] + 1}
      BY <1>0, <1>1
    <2> QED BY <2>1
  <1>5. CASE conn # s
    <2>1. conn # None => inbox'[conn] = inbox[conn] /\ served'[conn] = served[conn]
      <3>1. conn # None => conn \in Socks
        BY DEF IInv, TypeOK
      <3> QED BY <1>0, <1>1, <1>3, <1>5, <3>1
    <2>2. conn # None /\ Answered => Answered'
      BY <1>1, <1>2, <1>4, <2>1 DEF Answered, Message
    <2> QED BY <1>1, <1>2, <2>1, <2>2 DEF Paired, Asked, Served
  <1>6. CASE conn = s /\ link[conn] # "open"
    <2>1. inbox' = inbox /\ conn # None
      BY <1>3, <1>6
    <2>2. Answered => Answered'
      BY <1>1, <1>2, <1>4, <2>1 DEF Answered, Message
    <2> QED BY <1>1, <1>2, <1>6, <2>1, <2>2 DEF Paired
  <1>7. CASE conn = s /\ link[conn] = "open"
    <2>1. Awaiting /\ Asked
      <3>1. ~Served /\ conn # None
        BY <1>0, <1>1, <1>7 DEF Served
      <3> QED BY <1>7, <3>1 DEF Paired
    <2>2. f = Awaited /\ served'[conn] = Len(sent[conn])
      BY <1>0, <1>1, <1>7, <2>1 DEF Asked
    <2>3. Served'
      BY <1>1, <2>2 DEF Served
    <2>4. PICK v \in Verdicts :
            inbox' = [inbox EXCEPT ![s] =
                        Append(@, [owner |-> f.owner, op |-> f.op, verdict |-> v])]
      BY <1>7 DEF Serve
    <2>5. inbox'[conn] = <<[owner |-> Awaited.owner, op |-> Awaited.op, verdict |-> v]>>
      BY <1>0, <1>7, <2>1, <2>2, <2>4 DEF Asked
    <2>6. Message'.owner = Awaited.owner /\ Message'.op = Awaited.op /\ Len(inbox'[conn]) = 1
      BY <1>1, <2>5 DEF Message
    <2>7. at = "read" /\ caller \in Calls => execs'[caller] > 0
      BY <1>0, <1>1, <2>2 DEF Awaited
    <2>8. Answered'
      BY <1>1, <1>2, <2>6, <2>7 DEF Answered
    <2> QED BY <1>1, <1>2, <1>7, <2>1, <2>3, <2>8 DEF Paired
  <1> QED BY <1>5, <1>6, <1>7

\* Connections break, with the awaited reply or without, and are forgotten once
\* they are no longer used.
LEMMA NetworkPairs ==
    ASSUME Discipline, IInv, Paired, NEW s \in Socks, Push(s) \/ Break(s) \/ Forget(s)
    PROVE  Paired'
  <1> USE ConstantsAssumption DEF ConstantsAssumption
  <1>0. /\ inbox \in [Socks -> Seq(Messages)] /\ sent \in [Socks -> Seq(Frames)]
        /\ link \in [Socks -> {"none", "open", "broken", "dead"}]
        /\ served \in [Socks -> Nat] /\ (conn # None => conn \in Socks)
    BY DEF IInv, TypeOK
  <1>1. ~Push(s)
    <2> DEFINE P == {i \in DOMAIN inbox[s] : inbox[s][i].op = "push"}
    <2>1. DOMAIN inbox[s] = 1..Len(inbox[s]) /\ Len(inbox[s]) \in Nat
      BY <1>0, LenProperties
    <2>2. IsFiniteSet(1..Len(inbox[s])) /\ P \subseteq 1..Len(inbox[s])
      BY <2>1, FS_Interval
    <2>3. IsFiniteSet(P)
      BY <2>2, FS_Subset
    <2>4. Cardinality(P) \in Nat
      BY <2>3, FS_CardinalityType
    <2> QED BY <2>4 DEF Push, Discipline
  <1>2. UNCHANGED <<conn, at, caller, op, execs>>
    BY <1>1 DEF Break, Forget, lockVars
  <1>3. Awaiting' = Awaiting /\ Awaited' = Awaited
    BY <1>2 DEF Awaiting, Awaited
  <1>4. CASE /\ conn # None => /\ link'[conn] = link[conn] /\ inbox'[conn] = inbox[conn]
                               /\ sent'[conn] = sent[conn] /\ served'[conn] = served[conn]
    <2>1. conn # None /\ Answered => Answered'
      BY <1>2, <1>3, <1>4 DEF Answered, Message
    <2> QED BY <1>2, <1>3, <1>4, <2>1 DEF Paired, Asked, Served
  <1>5. CASE Break(s) /\ conn = s
    <2>1. link'[conn] = "broken" /\ (inbox' = inbox \/ inbox'[conn] = <<>>)
      BY <1>0, <1>5 DEF Break
    <2>2. inbox' = inbox /\ Answered => Answered'
      BY <1>2, <1>3 DEF Answered, Message
    <2>3. inbox[conn] = <<>> \/ (Awaiting /\ Answered)
      BY <1>5 DEF Paired, Asked
    <2> QED BY <1>2, <1>3, <2>1, <2>2, <2>3 DEF Paired
  <1>6. CASE Break(s) /\ conn # s
    BY <1>0, <1>4, <1>6 DEF Break
  <1>7. CASE Forget(s)
    <2>1. conn # s
      BY <1>7 DEF Forget, IInv, LinksOK
    <2> QED BY <1>0, <1>4, <1>7, <2>1 DEF Forget
  <1> QED BY <1>1, <1>5, <1>6, <1>7

\* Every step leaves the awaited request and its reply paired.
LEMMA NextPaired ==
    ASSUME Discipline, IInv, PairInv, [Next]_vars
    PROVE  Paired'
  <1>1. CASE UNCHANGED vars
    BY <1>1
    DEF vars, lockVars, netVars, PairInv, Paired, Awaiting, Awaited, Asked, Answered, Served,
        Message
  <1> QED
    BY <1>1, LockPairs, DialPairs, AuthPairs, RequestPairs, ServePairs, NetworkPairs
    DEF PairInv, Next, Holder

-----------------------------------------------------------------------------
(* Results.                                                                 *)

\* A result is given only by Reply, which has read the reply to the call.
LEMMA NextResolved ==
    ASSUME IInv, PairInv, [Next]_vars
    PROVE  Resolved'
  <1> USE ConstantsAssumption DEF ConstantsAssumption, IInv, PairInv
  <1>0. outcome \in [Calls -> Outcomes] /\ reply \in [Calls -> Calls \cup {None}]
          /\ execs \in [Calls -> Nat]
    BY DEF TypeOK
  <1>1. ASSUME UNCHANGED <<sdk, reply, execs>>,
               \A c \in Calls : outcome'[c] \in {"ok", "error", "unexpected"} =>
                                 outcome'[c] = outcome[c]
        PROVE  Resolved'
    BY <1>1 DEF Resolved
  <1>2. ASSUME NEW v, Release(v), v \notin {"ok", "error", "unexpected"}
        PROVE  \A c \in Calls : outcome'[c] \in {"ok", "error", "unexpected"} =>
                                  outcome'[c] = outcome[c]
    BY <1>2 DEF Release
  <1>3. LossReport \notin {"ok", "error", "unexpected"}
    BY DEF LossReport
  <1>4. CASE /\ Reply /\ (Release("ok") \/ Release("error"))
             /\ reply' = [reply EXCEPT ![caller] = Message.owner]
    <2>1. conn # None /\ at = "read" /\ Arrived /\ UNCHANGED <<sdk, execs>>
      BY <1>4 DEF Reply, TypeOK
    <2>2. Message.owner = caller /\ (caller \in Calls => execs[caller] > 0)
      BY <2>1, PairedFacts DEF Answered, Awaited
    <2>3. /\ \A c \in Calls : c # caller => outcome'[c] = outcome[c] /\ reply'[c] = reply[c]
          /\ caller \in Calls => outcome'[caller] # "unexpected"
      BY <1>0, <1>4 DEF Release
    <2>4. caller \in Calls => reply'[caller] = caller
      BY <1>0, <1>4, <2>2
    <2> QED BY <2>1, <2>2, <2>3, <2>4 DEF Resolved
  <1>5. CASE UNCHANGED <<sdk, reply, execs>> /\ AttemptFailed
    BY <1>1, <1>2, <1>3, <1>5 DEF AttemptFailed
  <1>6. CASE Reply
    <2>1. Message.op = op
      BY <1>6, PairedFacts DEF Reply, TypeOK, Answered, Awaited
    <2>2. CASE Release("unexpected") /\ sdk = "python" /\ UNCHANGED <<sdk, reply, execs>>
      BY <2>2 DEF Release, Resolved
    <2> QED BY <1>4, <1>5, <1>6, <2>1, <2>2 DEF Reply
  <1>7. ASSUME NEW s \in Socks, Serve(s)
        PROVE  Resolved'
    <2>1. \A c \in Calls : execs[c] \in Nat /\ execs'[c] \in {execs[c], execs[c] + 1}
      BY <1>0, <1>7 DEF Serve
    <2>2. \A c \in Calls : execs[c] > 0 => execs'[c] > 0
      BY <2>1
    <2> QED BY <1>7, <2>2 DEF Serve, callVars, Resolved
  <1>8. CASE DialOk \/ DialFailed \/ AuthAnswered \/ AuthFailed
    <2>1. UNCHANGED <<sdk, reply, execs>>
      BY <1>8 DEF DialOk, DialFailed, AuthAnswered, AuthFailed
    <2>2. \/ Release("failed") \/ Release("refused") \/ UNCHANGED outcome
      BY <1>8 DEF DialOk, DialFailed, AuthAnswered, AuthFailed, AuthBroken, Connected
    <2> QED BY <1>1, <1>2, <2>1, <2>2
  <1>9. CASE WriteFailed \/ ReadFailed \/ Event \/ Cancel
    <2>1. UNCHANGED <<sdk, reply, execs>>
      BY <1>9 DEF WriteFailed, ReadFailed, Event, Cancel
    <2>2. \/ Release(LossReport) \/ Release("failed") \/ Release("dropped")
          \/ UNCHANGED outcome
      BY <1>9 DEF WriteFailed, ReadFailed, Event, Cancel, AttemptFailed
    <2> QED BY <1>1, <1>2, <1>3, <2>1, <2>2
  <1>10. CASE \E c \in Calls, o \in CallOps : Call(c, o) \/ CallRefused(c, o)
    BY <1>0, <1>1, <1>10 DEF Call, Acquire, CallRefused
  <1>11. CASE \/ Connect \/ WaitWatchEvent \/ Close \/ UNCHANGED vars
              \/ Write \/ WriteBlocks \/ WriteResumes
              \/ \E s \in Socks : Push(s) \/ Break(s) \/ Forget(s)
    BY <1>1, <1>11
    DEF Connect, WaitWatchEvent, Acquire, Close, Write, WriteBlocks, WriteResumes, Written,
        Push, Break, Forget, vars, callVars
  <1> QED
    BY <1>6, <1>7, <1>8, <1>9, <1>10, <1>11 DEF Next, Holder

\* A second attempt needs autoReconnect, an auth request needs a token.
LEMMA NextConfigured ==
    ASSUME IInv, PairInv, [Next]_vars
    PROVE  Configured'
  <1> USE DEF PairInv, Configured, lockVars
  <1>1. ASSUME NEW c \in Calls \cup {None}, NEW o \in CallOps \cup {"connect", "event"},
               Acquire(c, o)
        PROVE  Configured'
    BY <1>1, StartValues DEF Acquire, IInv
  <1>2. ASSUME NEW v, Release(v) PROVE Configured'
    BY <1>2 DEF Release
  <1>3. CASE Connected
    BY <1>2, <1>3 DEF Connected, FirstStep
  <1>4. CASE AttemptFailed
    BY <1>2, <1>4 DEF AttemptFailed, Retries
  <1>5. CASE DialOk
    BY <1>3, <1>5 DEF DialOk, MustAuthenticate
  <1>6. CASE DialFailed \/ AuthAnswered \/ AuthFailed
    BY <1>2, <1>3, <1>6 DEF DialFailed, AuthAnswered, AuthFailed, AuthBroken
  <1>7. CASE \/ WriteFailed \/ Reply \/ ReadFailed \/ Event \/ Cancel
             \/ Write \/ WriteBlocks \/ WriteResumes
    BY <1>2, <1>4, <1>7
    DEF WriteFailed, Reply, ReadFailed, Event, Cancel, Write, WriteBlocks, WriteResumes, Written
  <1>8. CASE \/ \E c \in Calls, o \in CallOps : Call(c, o)
             \/ Connect \/ WaitWatchEvent
    BY <1>1, <1>8 DEF Call, Connect, WaitWatchEvent
  <1>9. CASE \/ \E c \in Calls, o \in CallOps : CallRefused(c, o)
             \/ Close \/ UNCHANGED vars
             \/ \E s \in Socks : Serve(s) \/ Push(s) \/ Break(s) \/ Forget(s)
    BY <1>9 DEF CallRefused, Close, vars, Serve, Push, Break, Forget
  <1> QED
    BY <1>5, <1>6, <1>7, <1>8, <1>9 DEF Next, Holder

\* Nothing is written or resolved at first.
LEMMA InitPairs == Init => PairInv
  BY DEF Init, PairInv, Paired, Resolved, Configured

\* Under Discipline, the pairing of requests and replies is an invariant.
THEOREM PairingInvariance == Discipline /\ Spec => [](IInv /\ PairInv)
  <1> SUFFICES ASSUME Discipline
               PROVE  Spec => [](IInv /\ PairInv)
    OBVIOUS
  <1>1. IInv /\ PairInv /\ [Next]_vars => PairInv'
    BY NextPaired, NextResolved, NextConfigured DEF PairInv
  <1> QED
    BY <1>1, InitPairs, Invariance, PTL DEF Spec

\* A call that returns got the reply to its own request, although replies carry
\* no identity: the clients drop the connection wherever one may come late.
THEOREM RepliesPaired == Discipline /\ Spec => []OwnReply
  <1>1. PairInv => OwnReply
    BY DEF PairInv, Resolved, OwnReply
  <1> QED BY <1>1, PairingInvariance, PTL

\* Whoever takes the lock next finds an open connection with no request
\* unanswered and no reply unread.
THEOREM ConnectionInStep == Discipline /\ Spec => []InStep
  <1>1. PairInv => InStep
    BY DEF PairInv, Paired, Awaiting, Served, InStep
  <1> QED BY <1>1, PairingInvariance, PTL

\* A set_nx or incr that the server has executed is not reported as one it does
\* not know: the error of its lost connection is not mistaken for one, nor is
\* another frame for its reply (as a push can be, where Discipline fails).
THEOREM ExecutionIsNotHidden == Discipline /\ Spec => []OutcomeNotHidden
  <1>1. IInv /\ PairInv => OutcomeNotHidden
    <2> SUFFICES ASSUME IInv, PairInv, NEW c \in Calls \ ReadCalls, execs[c] > 0,
                        NEW text \in ErrorTexts(sdk, outcome[c])
                 PROVE  NormalizeAtomic(sdk, text) # "UnsupportedRequest"
      BY DEF OutcomeNotHidden
    <2>1. sdk \in {"python", "java", "go", "rust"}
      BY ConstantsAssumption DEF ConstantsAssumption, IInv, TypeOK
    <2>2. outcome[c] # "failed"
      BY ExecutionsAttempted DEF Attempted, IInv
    <2>3. outcome[c] = "unexpected" => sdk = "python"
      BY DEF PairInv, Resolved
    <2>4. sdk = "python" \/ outcome[c] = "unknown"
      BY <2>2, <2>3, Zenon DEF ErrorTexts
    <2>5. CASE sdk = "python"
      BY <2>5 DEF NormalizeAtomic
    <2>6. CASE sdk # "python" /\ outcome[c] = "unknown"
      <3>1. text \in LostTexts(sdk)
        BY <2>6, Zenon DEF ErrorTexts
      <3>2. "outcome unknown" \in text
        BY <2>1, <2>6, <3>1 DEF LostTexts
      <3> QED BY <2>1, <2>6, <3>2 DEF NormalizeAtomic
    <2> QED BY <2>4, <2>5, <2>6
  <1> QED BY <1>1, PairingInvariance, PTL

-----------------------------------------------------------------------------
(* The refinement.                                                          *)

\* What CallService sees of a step that leaves the outcome of all calls but
\* one, of which it makes v.
LEMMA PromisedChange ==
    ASSUME IInv, NEW c \in Calls, NEW v, outcome' = [outcome EXCEPT ![c] = v]
    PROVE  Promised' = [Promised EXCEPT ![c] = Promise(c, v)]
  BY DEF IInv, TypeOK, Promised

\* What a promise tells of the outcome behind it.
LEMMA PromiseValues ==
    ASSUME NEW c \in Calls, NEW v \in Outcomes
    PROVE  /\ v \in {"idle", "pending", "ok", "error", "refused", "unknown"} => Promise(c, v) = v
           /\ v \in {"unexpected", "dropped"} => Promise(c, v) = "unknown"
           /\ v = "failed" => Promise(c, v) = IF c \in ReadCalls THEN "unknown" ELSE "refused"
  BY DEF Promise, Outcomes

\* A new client is a CallService with no calls made.
LEMMA InitRefines == Init => CS!Init
  BY DEF Init, CS!Init, Promised, Promise

\* A call takes the lock or is refused at once.
LEMMA BeginRefines ==
    ASSUME IInv, NEW c \in Calls, NEW o \in CallOps, Call(c, o) \/ CallRefused(c, o)
    PROVE  CS!Begin(c)
  <1>1. PICK v \in {"pending", "refused"} : outcome' = [outcome EXCEPT ![c] = v]
    BY DEF Call, CallRefused
  <1>2. Promised' = [Promised EXCEPT ![c] = v]
    <2>1. Promise(c, v) = v
      BY DEF Promise
    <2> QED BY <1>1, <2>1, PromisedChange
  <1>3. Promised[c] = "idle"
    BY PromiseValues DEF Call, CallRefused, Promised, Outcomes
  <1> QED BY <1>1, <1>2, <1>3 DEF Call, Acquire, CallRefused, CS!Begin

\* The server executes a request: it is the auth request, or one that its
\* caller's account still has room for.
LEMMA ExecuteRefines ==
    ASSUME IInv, PairInv, NEW s \in Socks, Serve(s)
    PROVE  (\E c \in Calls : CS!Execute(c)) \/ UNCHANGED <<Promised, reply, execs>>
  <1> USE ConstantsAssumption DEF ConstantsAssumption, IInv
  <1> DEFINE n == served[s] + 1
             c == sent[s][n].owner
  <1>0. /\ execs \in [Calls -> Nat] /\ outcome \in [Calls -> Outcomes]
        /\ UNCHANGED <<outcome, Promised, reply>>
        /\ execs' = [d \in Calls |-> IF d = c THEN execs[d] + 1 ELSE execs[d]]
    BY DEF Serve, TypeOK, callVars, Promised
  <1>1. CASE c \notin Calls
    BY <1>0, <1>1
  <1>2. CASE c \in Calls
    <2> DEFINE U == Unserved(c, sent, served)
    <2>1. <<s, n>> \in U
      <3>1. sent[s] \in Seq(Frames) /\ served[s] \in Nat
        BY DEF TypeOK
      <3>2. n \in DOMAIN sent[s] /\ n > served[s]
        BY <3>1, LenProperties DEF Serve
      <3> QED BY <3>2, UnservedElement
    <2>2. IsFiniteSet(U) /\ Cardinality(U) \in Nat /\ execs[c] + Cardinality(U) <= Attempted(c)
      BY <1>2, FS_CardinalityType DEF Accounted
    <2>3. Cardinality(U) # 0
      BY <2>1, <2>2, FS_EmptySet
    <2>4. Attempted(c) \in Nat /\ Attempted(c) <= (IF c \in ReadCalls THEN 2 ELSE 1)
      BY <1>2 DEF TypeOK, HolderOK, Attempted
    <2>5. execs[c] \in Nat /\ execs[c] + 1 <= Attempted(c)
      BY <1>0, <1>2, <2>2, <2>3, <2>4
    <2>6. execs[c] < (IF c \in ReadCalls THEN 1 + 1 ELSE 1)
      BY <2>4, <2>5
    <2>7. /\ outcome[c] \notin {"idle", "refused"}
          /\ outcome[c] = "failed" => c \in ReadCalls
      BY <2>5 DEF Attempted
    <2>8. outcome[c] \in {"ok", "error"} => c \in ReadCalls
      BY <1>2, <2>5, <2>6 DEF PairInv, Resolved
    <2>9. \/ Promised[c] \in {"pending", "unknown"}
          \/ c \in ReadCalls /\ Promised[c] \in {"ok", "error"}
      BY <1>0, <1>2, <2>7, <2>8, PromiseValues DEF Outcomes, Promised
    <2>10. execs' = [execs EXCEPT ![c] = @ + 1]
      BY <1>0, <1>2
    <2> QED BY <1>0, <1>2, <2>6, <2>9, <2>10 DEF CS!Execute
  <1> QED BY <1>1, <1>2

\* A call ends without a result: its outcome is unknown, or it is promised that
\* nothing of it was written.
LEMMA FailRefines ==
    ASSUME IInv, NEW v \in {"refused", "failed", "unknown", "unexpected", "dropped"}, Release(v),
           UNCHANGED <<reply, execs>>,
           v \in {"refused", "failed"} /\ caller \in Calls =>
               \/ attempt = 1 /\ at \in {"dial", "auth"}
               \/ v = "failed" /\ caller \in ReadCalls
    PROVE  (\E U, R \in SUBSET Calls : CS!Fail(U, R)) \/ UNCHANGED <<Promised, reply, execs>>
  <1> USE ConstantsAssumption DEF ConstantsAssumption
  <1>0. outcome \in [Calls -> Outcomes] /\ caller \in Calls \cup {None}
          /\ (caller # None => outcome[caller] = "pending")
    BY DEF IInv, TypeOK
  <1>1. CASE caller = None
    BY <1>0, <1>1 DEF Release, Promised
  <1>2. CASE caller \in Calls
    <2>1. /\ outcome' = [outcome EXCEPT ![caller] = v]
          /\ Promised' = [Promised EXCEPT ![caller] = Promise(caller, v)]
      BY <1>0, <1>2, PromisedChange DEF Release
    <2>2. Promised[caller] = "pending" /\ Promised = [c \in Calls |-> Promised[c]]
      BY <1>0, <1>2, PromiseValues DEF Promised, Outcomes
    <2>3. {caller} \in SUBSET Calls /\ {} \in SUBSET Calls
      BY <1>2
    <2>4. CASE Promise(caller, v) = "unknown"
      <3>1. CS!Fail({caller}, {})
        BY <1>2, <2>1, <2>2, <2>4 DEF CS!Fail
      <3> QED BY <2>3, <3>1
    <2>5. CASE Promise(caller, v) = "refused" /\ attempt = 1 /\ at \in {"dial", "auth"}
      <3>1. Attempted(caller) = 0
        BY <1>0, <1>2, <2>5 DEF Attempted
      <3>2. execs[caller] = 0
        BY <1>2, <3>1, ExecutionsAttempted
      <3>3. CS!Fail({}, {caller})
        BY <1>2, <2>1, <2>2, <2>5, <3>2 DEF CS!Fail
      <3> QED BY <2>3, <3>3
    <2>6. \/ Promise(caller, v) = "unknown"
          \/ Promise(caller, v) = "refused" /\ attempt = 1 /\ at \in {"dial", "auth"}
      BY <1>2 DEF Promise
    <2> QED BY <2>4, <2>5, <2>6
  <1> QED BY <1>0, <1>1, <1>2

\* A reply resolves the call it belongs to.
LEMMA ResolveRefines ==
    ASSUME IInv, PairInv, Reply, Release("ok") \/ Release("error"),
           reply' = [reply EXCEPT ![caller] = Message.owner]
    PROVE  (\E c \in Calls : CS!Resolve(c)) \/ UNCHANGED <<Promised, reply, execs>>
  <1> USE ConstantsAssumption DEF ConstantsAssumption
  <1>0. /\ outcome \in [Calls -> Outcomes] /\ caller \in Calls \cup {None}
        /\ (caller # None => outcome[caller] = "pending")
        /\ reply \in [Calls -> Calls \cup {None}]
        /\ conn # None /\ at = "read" /\ Arrived /\ UNCHANGED execs
    BY DEF IInv, TypeOK, Reply
  <1>1. Message.owner = caller /\ (caller \in Calls => execs[caller] > 0)
    BY <1>0, PairedFacts DEF PairInv, Answered, Awaited
  <1>2. CASE caller = None
    BY <1>0, <1>2 DEF Release, Promised
  <1>3. CASE caller \in Calls
    <2>1. PICK v \in {"ok", "error"} : outcome' = [outcome EXCEPT ![caller] = v]
      BY <1>0 DEF Release
    <2>2. Promised' = [Promised EXCEPT ![caller] = v] /\ Promised[caller] = "pending"
      BY <1>0, <1>3, <2>1, PromisedChange, PromiseValues DEF Outcomes, Promised
    <2>3. CS!Resolve(caller)
      BY <1>0, <1>1, <1>3, <2>2 DEF CS!Resolve
    <2> QED BY <1>3, <2>3
  <1> QED BY <1>0, <1>2, <1>3

\* Every step of a client is a step of CallService, or none that it can see.
LEMMA StepRefines ==
    ASSUME IInv, PairInv, [Next]_vars
    PROVE  [CS!Next]_<<Promised, reply, execs>>
  <1>1. CASE \E c \in Calls, o \in CallOps : Call(c, o) \/ CallRefused(c, o)
    BY <1>1, BeginRefines DEF CS!Next
  <1>2. CASE \E s \in Socks : Serve(s)
    BY <1>2, ExecuteRefines DEF CS!Next
  <1>3. ASSUME NEW v \in {"refused", "failed", "unknown", "unexpected", "dropped"}, Release(v),
               UNCHANGED <<reply, execs>>,
               v \in {"refused", "failed"} /\ caller \in Calls =>
                   \/ attempt = 1 /\ at \in {"dial", "auth"}
                   \/ v = "failed" /\ caller \in ReadCalls
        PROVE  [CS!Next]_<<Promised, reply, execs>>
    BY <1>3, FailRefines DEF CS!Next
  <1>0. caller \in Calls => /\ op \in CallOps /\ (caller \in ReadCalls <=> op = "read")
                            /\ attempt = 1 \/ (attempt = 2 /\ caller \in ReadCalls)
    BY ConstantsAssumption DEF ConstantsAssumption, IInv, TypeOK, HolderOK
  <1>4. CASE DialOk \/ DialFailed \/ AuthAnswered \/ AuthFailed
    <2>1. UNCHANGED <<reply, execs>> /\ at \in {"dial", "auth"}
      BY <1>4 DEF DialOk, DialFailed, AuthAnswered, AuthFailed
    <2>2. CASE UNCHANGED outcome
      BY <2>1, <2>2 DEF Promised
    <2>3. CASE Release("failed")
      BY <1>0, <1>3, <2>1, <2>3
    <2>4. CASE Release("refused") /\ (op = "connect" \/ (sdk = "go" /\ caller \in InvalidCalls))
      <3>1. caller \in Calls => attempt = 1
        BY <2>4, ConstantsAssumption DEF ConstantsAssumption, IInv, TypeOK, HolderOK, CallOps
      <3> QED BY <1>3, <2>1, <2>4, <3>1
    <2> QED
      BY <1>4, <2>2, <2>3, <2>4
      DEF DialOk, DialFailed, AuthAnswered, AuthFailed, AuthBroken, Connected
  <1>5. CASE AttemptFailed /\ UNCHANGED <<reply, execs>>
    <2>1. CASE UNCHANGED outcome
      BY <1>5, <2>1 DEF Promised
    <2>2. CASE Release(LossReport)
      <3>1. LossReport \in {"failed", "unknown"}
              /\ (LossReport = "failed" /\ caller \in Calls => caller \in ReadCalls)
        BY <1>0 DEF LossReport
      <3> QED BY <1>3, <1>5, <2>2, <3>1
    <2> QED BY <1>5, <2>1, <2>2 DEF AttemptFailed
  <1>6. CASE Reply
    <2>1. CASE /\ Release("ok") \/ Release("error")
               /\ reply' = [reply EXCEPT ![caller] = Message.owner]
      BY <1>6, <2>1, ResolveRefines DEF CS!Next
    <2>2. CASE Release("unexpected") /\ UNCHANGED <<reply, execs>>
      BY <1>3, <2>2
    <2> QED BY <1>5, <1>6, <2>1, <2>2 DEF Reply
  <1>8. CASE WriteFailed \/ ReadFailed
    BY <1>5, <1>8 DEF WriteFailed, ReadFailed
  <1>9. CASE Event
    <2>1. caller \notin Calls
      BY <1>9, ConstantsAssumption DEF ConstantsAssumption, Event, IInv, TypeOK, CallOps
    <2> QED BY <1>3, <1>9, <2>1 DEF Event
  <1>10. CASE Cancel
    BY <1>3, <1>10 DEF Cancel
  <1>7. CASE \/ Connect \/ WaitWatchEvent \/ Close \/ UNCHANGED vars
             \/ Write \/ WriteBlocks \/ WriteResumes
             \/ \E s \in Socks : Push(s) \/ Break(s) \/ Forget(s)
    <2>1. UNCHANGED <<outcome, reply, execs>>
      BY <1>7
      DEF Connect, WaitWatchEvent, Acquire, Close, Write, WriteBlocks, WriteResumes, Written,
          Push, Break, Forget, vars, callVars
    <2> QED BY <2>1 DEF Promised
  <1> QED
    BY <1>1, <1>2, <1>4, <1>6, <1>7, <1>8, <1>9, <1>10 DEF Next, Holder

\* The four clients implement CallService, get and ping being repeated at most
\* once: a call settles once, with its own reply or a failure that tells the
\* truth about whether the server may execute it.
THEOREM BlockingImplementsCallService == Discipline /\ Spec => ImplementsCallService
  <1>1. IInv /\ PairInv /\ [Next]_vars => [CS!Next]_<<Promised, reply, execs>>
    BY StepRefines
  <1> QED
    BY <1>1, InitRefines, PairingInvariance, PTL
    DEF Spec, ImplementsCallService, CS!Spec, CS!cvars

=============================================================================
