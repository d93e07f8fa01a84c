-------------------------- MODULE BlockingTcpProofs --------------------------
(***************************************************************************)
(* Proofs about BlockingTcpClients for every value of its constants, that  *)
(* is with every fault it models: types, how often a call is executed,     *)
(* which failures promise that it is not, and that authentication comes    *)
(* first.                                                                  *)
(*                                                                         *)
(* That a call is executed no more often than its requests were written is *)
(* not inductive: the requests the server has not come to must be counted  *)
(* too.  Accounted(c) says that the executions of c and the requests of c  *)
(* still to be served, on whatever connection, are together no more than   *)
(* the attempts of c that got as far as the write.                         *)
(***************************************************************************)
EXTENDS BlockingTcpClients, FiniteSetTheorems, SequenceTheorems, TLAPS

\* The holder of the lock: only get and ping have a second attempt, and a call
\* Go will refuse is refused before its request is written.
HolderOK ==
    /\ caller # None => (caller \in ReadCalls <=> op = "read")
    /\ attempt = 2 => op = "read"
    /\ sdk = "go" /\ caller \in InvalidCalls => attempt = 1 /\ at \in {"dial", "auth"}

\* The connections: the one in use is not closed, and was authenticated first.
LinksOK ==
    /\ conn # None => link[conn] \in {"open", "broken"}
    /\ conn # None /\ AuthToken => sent[conn] # <<>>
    /\ \A s \in Socks : /\ served[s] <= Len(sent[s])
                        /\ link[s] = "none" => sent[s] = <<>> /\ inbox[s] = <<>>

\* The requests of a call that the server has not come to: connection and place
Unserved(c, requests, done) ==
    UNION {{s} \X {i \in DOMAIN requests[s] : i > done[s] /\ requests[s][i].owner = c} : s \in Socks}

\* How many requests a call can have written.
Attempted(c) ==
    IF \/ outcome[c] \in {"idle", "refused"}
       \/ outcome[c] = "failed" /\ c \notin ReadCalls
    THEN 0
    ELSE IF c = caller THEN attempt - 1 + (IF at = "read" THEN 1 ELSE 0)
    ELSE IF c \in ReadCalls THEN 2 ELSE 1

Accounted(c) ==
    /\ IsFiniteSet(Unserved(c, sent, served))
    /\ execs[c] + Cardinality(Unserved(c, sent, served)) <= Attempted(c)

IInv == TypeOK /\ HolderOK /\ LinksOK /\ \A c \in Calls : Accounted(c)

-----------------------------------------------------------------------------
(* Types.                                                                   *)

\* What an operation does first is one of five things, and it reads or writes
\* at once only if there is a connection.
LEMMA StartValues ==
    ASSUME TypeOK, NEW c \in Calls \cup {None},
           NEW o \in CallOps \cup {"connect", "event"}
    PROVE  /\ Start(c, o) \in {"done", "refuse", "dial", "write", "read"}
           /\ Start(c, o) \in {"write", "read"} => conn # None
           /\ Start(c, o) = "write" => o \in CallOps
           /\ Start(c, o) = "read" => o = "event"
           /\ sdk = "go" /\ c \in InvalidCalls => Start(c, o) \in {"dial", "refuse"}
  <1>1. /\ FirstStep(o) \in {"write", "read"} /\ (FirstStep(o) = "read" => o = "event")
        /\ o # "connect" /\ FirstStep(o) = "write" => o \in CallOps
    BY DEF FirstStep
  <1>2. CASE sdk \in {"python", "java"}
    BY <1>1, <1>2 DEF Start, StartPython, StartJava
  <1>3. CASE sdk = "go"
    BY <1>1, <1>3 DEF Start, StartGo
  <1>4. CASE sdk = "rust"
    BY <1>1, <1>4 DEF Start, StartRust
  <1> QED
    BY <1>2, <1>3, <1>4, ConstantsAssumption DEF ConstantsAssumption, TypeOK

\* The first frame that has arrived is a message, and what follows it are.
LEMMA ArrivedTypes ==
    ASSUME TypeOK, conn # None, Arrived
    PROVE  Message \in Messages /\ Tail(inbox[conn]) \in Seq(Messages)
  <1>1. inbox[conn] \in Seq(Messages) /\ inbox[conn] # <<>>
    BY DEF TypeOK, Arrived
  <1> QED BY <1>1, HeadTailProperties DEF Message

\* Releasing the lock leaves the lock variables and the outcomes well typed.
LEMMA ReleaseTypes ==
    ASSUME TypeOK, NEW v \in Outcomes, Release(v)
    PROVE  /\ at' = "free" /\ op' = "none" /\ caller' = None /\ attempt' = 1
           /\ outcome' \in [Calls -> Outcomes]
  BY DEF TypeOK, Release

\* Closing the connection, or leaving it, keeps it well typed.
LEMMA CloseTypes ==
    ASSUME TypeOK, CloseConn \/ UNCHANGED <<conn, link>>
    PROVE  /\ conn' \in Socks \cup {None}
           /\ link' \in [Socks -> {"none", "open", "broken", "dead"}]
  BY DEF TypeOK, CloseConn

\* Init satisfies the type invariant.
LEMMA InitTypes == Init => TypeOK
  BY ConstantsAssumption DEF ConstantsAssumption, Init, TypeOK, Outcomes, CallOps

\* Taking the lock, being refused, closing.
LEMMA AcquireTypes ==
    ASSUME TypeOK,
           \/ \E c \in Calls, o \in CallOps : Call(c, o) \/ CallRefused(c, o)
           \/ Connect \/ WaitWatchEvent \/ Close
    PROVE  TypeOK'
  <1> USE ConstantsAssumption DEF ConstantsAssumption, netVars, lockVars, callVars, CallOps
  <1>1. ASSUME NEW c \in Calls, NEW o \in CallOps, Call(c, o)
        PROVE  TypeOK'
    <2>1. Start(c, o) \in {"dial", "write", "read"} /\ (Start(c, o) # "dial" => conn # None)
      BY <1>1, StartValues DEF Call, Acquire
    <2>2. outcome' \in [Calls -> Outcomes] /\ outcome'[c] = "pending" /\ c # None
      BY <1>1 DEF Call, TypeOK, Outcomes
    <2> QED BY <1>1, <2>1, <2>2 DEF Call, Acquire, TypeOK
  <1>2. ASSUME NEW c \in Calls, NEW o \in CallOps, CallRefused(c, o)
        PROVE  TypeOK'
    <2>1. outcome' \in [Calls -> Outcomes] /\ caller = None
      BY <1>2 DEF CallRefused, TypeOK, Outcomes
    <2> QED BY <1>2, <2>1 DEF CallRefused, TypeOK
  <1>3. CASE Connect
    <2>1. Start(None, "connect") = "dial"
      BY <1>3, StartValues DEF Connect, Acquire
    <2> QED BY <1>3, <2>1 DEF Connect, Acquire, TypeOK
  <1>4. CASE WaitWatchEvent
    <2>1. Start(None, "event") \in {"dial", "read"}
            /\ (Start(None, "event") # "dial" => conn # None)
      BY <1>4, StartValues DEF WaitWatchEvent, Acquire
    <2> QED BY <1>4, <2>1 DEF WaitWatchEvent, Acquire, TypeOK
  <1>5. CASE Close
    BY <1>5, CloseTypes DEF Close, TypeOK
  <1> QED BY <1>1, <1>2, <1>3, <1>4, <1>5

\* After a connection is there, the holder goes on or is done.
LEMMA ConnectedTypes ==
    ASSUME TypeOK, at \in {"dial", "auth"}, Connected
    PROVE  \/ /\ at' = "free" /\ op' = "none" /\ caller' = None /\ attempt' = 1
              /\ outcome' \in [Calls -> Outcomes]
           \/ /\ at' \in {"write", "read"} /\ op # "none" /\ (at' = "write" => op \in CallOps)
              /\ UNCHANGED <<caller, op, attempt, outcome>>
  <1>1. op # "none"
    BY DEF TypeOK
  <1>2. CASE Release("refused")
    BY <1>2, ReleaseTypes DEF Outcomes
  <1>3. CASE op # "connect" /\ at' = FirstStep(op) /\ UNCHANGED <<caller, op, attempt, outcome>>
    BY <1>1, <1>3 DEF FirstStep, TypeOK
  <1> QED BY <1>2, <1>3 DEF Connected

\* Connecting and authenticating.
LEMMA ConnectTypes ==
    ASSUME TypeOK, DialOk \/ DialFailed \/ AuthAnswered \/ AuthFailed
    PROVE  TypeOK'
  <1> USE ConstantsAssumption DEF ConstantsAssumption, netVars
  <1>0. "failed" \in Outcomes /\ "refused" \in Outcomes
    BY DEF Outcomes
  <1>1. CASE DialOk
    <2>1. PICK s \in Socks :
            /\ link[s] = "none" /\ conn' = s /\ link' = [link EXCEPT ![s] = "open"]
            /\ \/ /\ sent' = [sent EXCEPT ![s] = <<[owner |-> None, op |-> "auth"]>>]
                  /\ at' = "auth"
                  /\ UNCHANGED <<caller, op, attempt, outcome>>
               \/ Connected /\ UNCHANGED sent
      BY <1>1 DEF DialOk
    <2>2. conn' \in Socks /\ conn' # None
            /\ link' \in [Socks -> {"none", "open", "broken", "dead"}]
      BY <2>1 DEF TypeOK
    <2>3. <<[owner |-> None, op |-> "auth"]>> \in Seq(Frames)
      BY DEF Frames
    <2>4. sent' \in [Socks -> Seq(Frames)]
      BY <2>1, <2>3 DEF TypeOK
    <2>5. CASE at' = "auth" /\ UNCHANGED <<caller, op, attempt, outcome>>
      BY <1>1, <2>2, <2>4, <2>5 DEF DialOk, TypeOK
    <2>6. CASE Connected
      BY <1>1, <2>2, <2>4, <2>6, ConnectedTypes DEF DialOk, TypeOK, CallOps
    <2> QED BY <2>1, <2>5, <2>6
  <1>2. CASE DialFailed
    BY <1>0, <1>2, ReleaseTypes DEF DialFailed, TypeOK, CallOps
  <1>3. CASE AuthAnswered
    <2>1. conn \in Socks /\ inbox' \in [Socks -> Seq(Messages)]
      BY <1>3, ArrivedTypes DEF AuthAnswered, Take, TypeOK
    <2>2. CASE Connected /\ UNCHANGED <<conn, link>>
      BY <1>3, <2>1, <2>2, ConnectedTypes DEF AuthAnswered, TypeOK, CallOps
    <2>3. CASE (CloseConn \/ UNCHANGED <<conn, link>>) /\ Release("failed")
      BY <1>0, <1>3, <2>1, <2>3, CloseTypes, ReleaseTypes DEF AuthAnswered, TypeOK, CallOps
    <2> QED BY <1>3, <2>2, <2>3 DEF AuthAnswered, AuthBroken
  <1>4. CASE AuthFailed
    BY <1>0, <1>4, CloseTypes, ReleaseTypes DEF AuthFailed, AuthBroken, TypeOK, CallOps
  <1> QED BY <1>1, <1>2, <1>3, <1>4

\* A failed attempt is followed by a second one or releases the lock.
LEMMA AttemptTypes ==
    ASSUME TypeOK, AttemptFailed
    PROVE  /\ conn' \in Socks \cup {None}
           /\ link' \in [Socks -> {"none", "open", "broken", "dead"}]
           /\ \/ /\ at' = "dial" /\ attempt' = 2 /\ op = "read"
                 /\ UNCHANGED <<caller, op, outcome>>
              \/ /\ at' = "free" /\ op' = "none" /\ caller' = None /\ attempt' = 1
                 /\ outcome' \in [Calls -> Outcomes]
  <1>1. CloseConn \/ UNCHANGED <<conn, link>>
    BY DEF AttemptFailed, DropsConn
  <1>2. CASE Retries /\ at' = "dial" /\ attempt' = 2 /\ UNCHANGED <<caller, op, outcome>>
    BY <1>1, <1>2, CloseTypes DEF Retries
  <1>3. CASE Release(LossReport)
    <2>1. LossReport \in Outcomes
      BY DEF LossReport, Outcomes
    <2> QED BY <1>1, <1>3, <2>1, CloseTypes, ReleaseTypes
  <1> QED BY <1>2, <1>3 DEF AttemptFailed

\* Writing a request and reading a reply or an event.
LEMMA RequestTypes ==
    ASSUME TypeOK,
           \/ Write \/ WriteBlocks \/ WriteResumes \/ WriteFailed
           \/ Reply \/ ReadFailed \/ Event \/ Cancel
    PROVE  TypeOK'
  <1> USE ConstantsAssumption DEF ConstantsAssumption, netVars, callVars
  <1>0. {"ok", "error", "failed", "unexpected", "dropped"} \subseteq Outcomes
    BY DEF Outcomes
  <1>1. CASE Write \/ WriteResumes
    <2>0. at \in {"write", "blocked"} /\ Written
      BY <1>1 DEF Write, WriteResumes
    <2>1. sent' \in [Socks -> Seq(Frames)]
      <3>1. CASE link[conn] = "broken"
        BY <2>0, <3>1 DEF Written, TypeOK
      <3>2. CASE link[conn] # "broken"
        <4>1. conn \in Socks /\ sent[conn] \in Seq(Frames)
          BY <2>0 DEF TypeOK
        <4>2. [owner |-> caller, op |-> op] \in Frames
          BY <2>0 DEF TypeOK, Frames
        <4>3. Append(sent[conn], [owner |-> caller, op |-> op]) \in Seq(Frames)
          BY <4>1, <4>2, AppendProperties
        <4> QED BY <2>0, <3>2, <4>3 DEF Written, TypeOK
      <3> QED BY <3>1, <3>2
    <2> QED BY <2>0, <2>1 DEF Written, TypeOK
  <1>2. CASE WriteFailed
    BY <1>2, AttemptTypes DEF WriteFailed, TypeOK, CallOps
  <1>3. CASE Reply
    <2>1. conn \in Socks /\ inbox' \in [Socks -> Seq(Messages)]
      BY <1>3, ArrivedTypes DEF Reply, Take, TypeOK
    <2>2. reply' \in [Calls -> Calls \cup {None}]
      <3>1. Message \in Messages
        BY <1>3, ArrivedTypes DEF Reply, TypeOK
      <3>2. Message.owner \in Calls \cup {None}
        BY <3>1 DEF Messages
      <3> QED BY <1>3, <3>2 DEF Reply, TypeOK
    <2>3. CASE (Release("error") \/ Release("ok") \/ Release("unexpected"))
                 /\ UNCHANGED <<conn, link>>
      BY <1>0, <1>3, <2>1, <2>2, <2>3, ReleaseTypes DEF Reply, TypeOK, CallOps
    <2>4. CASE AttemptFailed
      BY <1>3, <2>1, <2>2, <2>4, AttemptTypes DEF Reply, TypeOK, CallOps
    <2> QED BY <1>3, <2>3, <2>4 DEF Reply
  <1>4. CASE ReadFailed
    BY <1>4, AttemptTypes DEF ReadFailed, TypeOK, CallOps
  <1>5. CASE Event
    <2>0. conn \in Socks /\ conn # None
      BY <1>5 DEF Event, TypeOK
    <2>1. inbox' \in [Socks -> Seq(Messages)]
      <3>1. CASE Arrived /\ Take
        BY <2>0, <3>1, ArrivedTypes DEF Take, TypeOK
      <3>2. CASE UNCHANGED inbox
        BY <3>2 DEF TypeOK
      <3> QED BY <1>5, <3>1, <3>2 DEF Event
    <2> QED BY <1>0, <1>5, <2>1, ReleaseTypes DEF Event, TypeOK, CallOps
  <1>6. CASE Cancel
    BY <1>0, <1>6, ReleaseTypes DEF Cancel, TypeOK, CallOps
  <1>7. CASE WriteBlocks
    BY <1>7 DEF WriteBlocks, TypeOK
  <1> QED BY <1>1, <1>2, <1>3, <1>4, <1>5, <1>6, <1>7

\* The server executes, pushes; the network loses; a connection is forgotten.
LEMMA ServerTypes ==
    ASSUME TypeOK, NEW s \in Socks, Serve(s) \/ Push(s) \/ Break(s) \/ Forget(s)
    PROVE  TypeOK'
  <1> USE ConstantsAssumption DEF ConstantsAssumption, lockVars, callVars
  <1>1. CASE Serve(s)
    <2> DEFINE f == sent[s][served[s] + 1]
    <2>1. f \in Frames
      <3>1. sent[s] \in Seq(Frames) /\ served[s] + 1 \in 1..Len(sent[s])
        BY <1>1, LenProperties, SMTT(30) DEF Serve, TypeOK
      <3> QED BY <3>1, ElementOfSeq
    <2>2. PICK v \in Verdicts :
            /\ inbox' = IF link[s] # "open" THEN inbox
                        ELSE [inbox EXCEPT ![s] =
                                Append(@, [owner |-> f.owner, op |-> f.op, verdict |-> v])]
            /\ subs' = [subs EXCEPT ![s] =
                          (@ \/ (f.op = "watch" /\ v # "err"))
                            /\ ~(f.op = "unwatch" /\ v # "err")]
      BY <1>1 DEF Serve
    <2>3. [owner |-> f.owner, op |-> f.op, verdict |-> v] \in Messages
      BY <2>1 DEF Frames, Messages
    <2>4. inbox[s] \in Seq(Messages)
      BY DEF TypeOK
    <2>5. Append(inbox[s], [owner |-> f.owner, op |-> f.op, verdict |-> v]) \in Seq(Messages)
      BY <2>3, <2>4, AppendProperties
    <2>6. inbox' \in [Socks -> Seq(Messages)]
      BY <2>2, <2>5 DEF TypeOK
    <2>7. subs' \in [Socks -> BOOLEAN]
      BY <2>2 DEF TypeOK
    <2>8. served' \in [Socks -> Nat] /\ execs' \in [Calls -> Nat]
      BY <1>1 DEF Serve, TypeOK
    <2> QED BY <1>1, <2>6, <2>7, <2>8 DEF Serve, TypeOK
  <1>2. CASE Push(s)
    <2>1. [owner |-> None, op |-> "push", verdict |-> "ok"] \in Messages /\ inbox[s] \in Seq(Messages)
      BY DEF Messages, TypeOK
    <2>2. Append(inbox[s], [owner |-> None, op |-> "push", verdict |-> "ok"]) \in Seq(Messages)
      BY <2>1, AppendProperties
    <2>3. inbox' \in [Socks -> Seq(Messages)]
      BY <1>2, <2>2 DEF Push, TypeOK
    <2> QED BY <1>2, <2>3 DEF Push, TypeOK
  <1>3. CASE Break(s)
    <2>1. <<>> \in Seq(Messages)
      BY EmptySeq
    <2>2. inbox' = inbox \/ inbox' = [inbox EXCEPT ![s] = <<>>]
      BY <1>3 DEF Break
    <2>3. inbox' \in [Socks -> Seq(Messages)]
      BY <2>1, <2>2, ZenonT(60) DEF TypeOK
    <2> QED BY <1>3, <2>3 DEF Break, TypeOK
  <1>4. CASE Forget(s)
    <2>1. inbox' \in [Socks -> Seq(Messages)] /\ sent' \in [Socks -> Seq(Frames)]
      BY <1>4, EmptySeq DEF Forget, TypeOK
    <2> QED BY <1>4, <2>1 DEF Forget, TypeOK
  <1> QED BY <1>1, <1>2, <1>3, <1>4

\* Every step preserves the types.
LEMMA NextTypes == TypeOK /\ [Next]_vars => TypeOK'
  <1> SUFFICES ASSUME TypeOK, [Next]_vars PROVE TypeOK'
    OBVIOUS
  <1>1. CASE UNCHANGED vars
    BY <1>1 DEF vars, lockVars, callVars, netVars, TypeOK
  <1> QED
    BY <1>1, AcquireTypes, ConnectTypes, RequestTypes, ServerTypes DEF Next, Holder

\* The state of the four clients, of the lock, of the connections and of the
\* server stays within its types, and the lock is held by a pending call, or by
\* connect() or wait_watch_event(), which are no calls.
THEOREM TypeCorrect == Spec => []TypeOK
  BY InitTypes, NextTypes, PTL DEF Spec

-----------------------------------------------------------------------------
(* The holder of the lock and the connections.                              *)

\* Every step leaves the holder of the lock in order.
LEMMA NextHolder == TypeOK /\ HolderOK /\ [Next]_vars => HolderOK'
  <1> SUFFICES ASSUME TypeOK, HolderOK, [Next]_vars PROVE HolderOK'
    OBVIOUS
  <1> USE ConstantsAssumption DEF ConstantsAssumption, lockVars
  <1>0. None \notin InvalidCalls /\ attempt \in {1, 2}
    BY DEF TypeOK
  <1>1. ASSUME NEW c \in Calls, NEW o \in CallOps, Call(c, o)
        PROVE  HolderOK'
    <2>1. sdk = "go" /\ c \in InvalidCalls => Start(c, o) = "dial"
      BY <1>1, StartValues DEF Call, Acquire, CallOps
    <2> QED BY <1>1, <2>1 DEF Call, Acquire, HolderOK
  <1>2. CASE caller' = None /\ attempt' = 1
    BY <1>0, <1>2 DEF HolderOK
  <1>3. CASE UNCHANGED <<sdk, caller, op, attempt>> /\ (at' = at \/ at' = "auth")
    BY <1>3 DEF HolderOK
  <1>4. CASE Connected /\ UNCHANGED sdk
    BY <1>0, <1>4 DEF Connected, Release, HolderOK
  <1>5. CASE Write \/ WriteBlocks \/ WriteResumes
    BY <1>5 DEF Write, WriteBlocks, WriteResumes, Written, HolderOK
  <1>6. CASE AttemptFailed /\ UNCHANGED sdk /\ at \in {"write", "blocked", "read"}
    BY <1>0, <1>6 DEF AttemptFailed, Retries, Release, HolderOK
  <1>7. ASSUME NEW v, Release(v) PROVE HolderOK'
    BY <1>2, <1>7 DEF Release
  <1>8. CASE Connect \/ WaitWatchEvent
    BY <1>2, <1>8 DEF Connect, WaitWatchEvent, Acquire
  <1>9. CASE \/ UNCHANGED vars \/ Close
             \/ \E c \in Calls, o \in CallOps : CallRefused(c, o)
             \/ \E s \in Socks : Serve(s) \/ Push(s) \/ Break(s) \/ Forget(s)
    BY <1>3, <1>9 DEF vars, Close, CallRefused, Serve, Push, Break, Forget
  <1>10. CASE DialOk
    BY <1>3, <1>4, <1>10 DEF DialOk
  <1>11. CASE AuthAnswered \/ AuthFailed
    BY <1>4, <1>7, <1>11 DEF AuthAnswered, AuthFailed, AuthBroken
  <1>12. CASE Reply \/ ReadFailed \/ WriteFailed
    BY <1>6, <1>7, <1>12 DEF Reply, ReadFailed, WriteFailed
  <1>13. CASE DialFailed \/ Event \/ Cancel
    BY <1>7, <1>13 DEF DialFailed, Event, Cancel
  <1> QED
    BY <1>1, <1>5, <1>8, <1>9, <1>10, <1>11, <1>12, <1>13 DEF Next, Holder

\* Every step leaves the connections in order.
LEMMA NextLinks == TypeOK /\ LinksOK /\ [Next]_vars => LinksOK'
  <1> SUFFICES ASSUME TypeOK, LinksOK, [Next]_vars PROVE LinksOK'
    OBVIOUS
  <1> USE ConstantsAssumption DEF ConstantsAssumption
  <1>0. /\ conn \in Socks \cup {None} /\ link \in [Socks -> {"none", "open", "broken", "dead"}]
        /\ sent \in [Socks -> Seq(Frames)] /\ served \in [Socks -> Nat]
        /\ inbox \in [Socks -> Seq(Messages)]
        /\ \A s \in Socks : Len(sent[s]) \in Nat
    BY LenProperties DEF TypeOK
  \* what is read from the connection in use is not looked at here
  <1>1. CASE /\ CloseConn \/ UNCHANGED <<conn, link>>
             /\ UNCHANGED <<sent, served>>
             /\ \A s \in Socks : s # conn => inbox'[s] = inbox[s]
    <2>1. conn' # None => conn' = conn /\ link' = link
      BY <1>1 DEF CloseConn
    <2>2. \A s \in Socks : link'[s] = "none" => link[s] = "none"
      BY <1>0, <1>1 DEF CloseConn
    <2>3. \A s \in Socks : link[s] = "none" => s # conn
      BY <1>0 DEF LinksOK
    <2> QED BY <1>0, <1>1, <2>1, <2>2, <2>3 DEF LinksOK
  <1>2. CASE DialOk
    <2>1. PICK s \in Socks :
            /\ link[s] = "none" /\ conn' = s /\ link' = [link EXCEPT ![s] = "open"]
            /\ \/ sent' = [sent EXCEPT ![s] = <<[owner |-> None, op |-> "auth"]>>]
               \/ ~AuthToken /\ UNCHANGED sent
      BY <1>2 DEF DialOk, MustAuthenticate
    <2>2. served[s] = 0
      <3>1. sent[s] = <<>> /\ served[s] <= Len(sent[s]) /\ served[s] \in Nat
        BY <1>0, <2>1 DEF LinksOK
      <3>2. Len(<<>>) = 0
        BY EmptySeq
      <3> QED BY <3>1, <3>2
    <2>3. /\ Len(<<[owner |-> None, op |-> "auth"]>>) = 1
          /\ <<[owner |-> None, op |-> "auth"]>> # <<>>
      OBVIOUS
    <2>4. UNCHANGED <<served, inbox>>
      BY <1>2 DEF DialOk
    <2>5. CASE sent' = [sent EXCEPT ![s] = <<[owner |-> None, op |-> "auth"]>>]
      BY <1>0, <2>1, <2>2, <2>3, <2>4, <2>5 DEF LinksOK
    <2>6. CASE ~AuthToken /\ UNCHANGED sent
      BY <1>0, <2>1, <2>4, <2>6 DEF LinksOK
    <2> QED BY <2>1, <2>5, <2>6
  <1>3. CASE Write \/ WriteResumes
    <2>0. at \in {"write", "blocked"} /\ Written
      BY <1>3 DEF Write, WriteResumes
    <2>1. conn \in Socks
      BY <2>0 DEF TypeOK
    <2>2. UNCHANGED <<conn, link, served, inbox>> /\ link[conn] # "none"
      BY <1>0, <2>0, <2>1 DEF Written, LinksOK
    <2>3. CASE sent' = sent
      BY <2>2, <2>3 DEF LinksOK
    <2>4. CASE sent' = [sent EXCEPT ![conn] = Append(@, [owner |-> caller, op |-> op])]
      <3>1. [owner |-> caller, op |-> op] \in Frames
        BY <2>0 DEF TypeOK, Frames
      <3>2. /\ sent'[conn] = Append(sent[conn], [owner |-> caller, op |-> op])
            /\ \A s \in Socks : s # conn => sent'[s] = sent[s]
        BY <1>0, <2>1, <2>4
      <3>3. sent[conn] \in Seq(Frames)
        BY <1>0, <2>1
      <3>4. sent'[conn] # <<>> /\ Len(sent'[conn]) = Len(sent[conn]) + 1
        BY <3>1, <3>2, <3>3, AppendProperties
      <3>5. \A s \in Socks : served'[s] <= Len(sent'[s])
        <4> SUFFICES ASSUME NEW s \in Socks PROVE served[s] <= Len(sent'[s])
          BY <2>2
        <4>1. served[s] <= Len(sent[s]) /\ served[s] \in Nat /\ Len(sent[s]) \in Nat
          BY <1>0 DEF LinksOK
        <4>2. CASE s = conn
          BY <3>4, <4>1, <4>2
        <4>3. CASE s # conn
          BY <3>2, <4>1, <4>3
        <4> QED BY <4>2, <4>3
      <3>6. \A s \in Socks : link[s] = "none" => sent'[s] = <<>> /\ inbox'[s] = <<>>
        BY <2>1, <2>2, <3>2 DEF LinksOK
      <3> QED BY <2>1, <2>2, <3>4, <3>5, <3>6 DEF LinksOK
    <2> QED BY <2>0, <2>3, <2>4 DEF Written
  <1>4. ASSUME NEW s \in Socks, Serve(s)
        PROVE  LinksOK'
    <2>1. /\ UNCHANGED <<conn, link, sent>> /\ served[s] < Len(sent[s])
          /\ served' = [served EXCEPT ![s] = @ + 1]
          /\ \A r \in Socks : link[r] # "open" => inbox'[r] = inbox[r]
      BY <1>0, <1>4 DEF Serve
    <2> QED BY <1>0, <2>1 DEF LinksOK
  <1>5. ASSUME NEW s \in Socks, Push(s) \/ Break(s)
        PROVE  LinksOK'
    <2>1. /\ UNCHANGED <<conn, sent, served>> /\ link[s] = "open"
          /\ link' \in {link, [link EXCEPT ![s] = "broken"]}
          /\ \A r \in Socks : link[r] # "open" => inbox'[r] = inbox[r]
      BY <1>0, <1>5 DEF Push, Break
    <2> QED BY <1>0, <2>1 DEF LinksOK
  <1>6. ASSUME NEW s \in Socks, Forget(s)
        PROVE  LinksOK'
    <2>1. conn # s
      BY <1>6 DEF Forget, LinksOK
    <2>2. Len(<<>>) = 0
      BY EmptySeq
    <2> QED BY <1>0, <1>6, <2>1, <2>2 DEF Forget, LinksOK
  <1>7. CASE \/ \E c \in Calls, o \in CallOps : Call(c, o) \/ CallRefused(c, o)
             \/ Connect \/ WaitWatchEvent \/ DialFailed \/ WriteBlocks \/ Cancel
             \/ UNCHANGED vars
    BY <1>1, <1>7
    DEF Call, CallRefused, Acquire, Connect, WaitWatchEvent, DialFailed, WriteBlocks, Cancel,
        vars, netVars
  <1>8. CASE Close \/ AuthAnswered \/ AuthFailed \/ WriteFailed \/ Reply \/ ReadFailed \/ Event
    <2>1. \A s \in Socks : s # conn => inbox'[s] = inbox[s]
      BY <1>0, <1>8
      DEF Close, AuthAnswered, AuthFailed, WriteFailed, Reply, ReadFailed, Event, Take
    <2>2. CloseConn \/ UNCHANGED <<conn, link>>
      BY <1>8 DEF Close, AuthAnswered, AuthFailed, AuthBroken, WriteFailed, Reply,
                  ReadFailed, Event, AttemptFailed, DropsConn
    <2>3. UNCHANGED <<sent, served>>
      BY <1>8 DEF Close, AuthAnswered, AuthFailed, WriteFailed, Reply, ReadFailed, Event
    <2> QED BY <1>1, <2>1, <2>2, <2>3
  <1> QED
    BY <1>2, <1>3, <1>4, <1>5, <1>6, <1>7, <1>8 DEF Next, Holder

-----------------------------------------------------------------------------
(* The account of a call.                                                   *)

\* What it is to be a request the server has not come to.
LEMMA UnservedElement ==
    ASSUME NEW c, NEW requests, NEW done, NEW f
    PROVE  f \in Unserved(c, requests, done) <=>
             \E s \in Socks : \E i \in DOMAIN requests[s] :
               f = <<s, i>> /\ i > done[s] /\ requests[s][i].owner = c
  BY DEF Unserved

\* No step takes back a request that a call may have written.
LEMMA AttemptedGrows ==
    ASSUME TypeOK, HolderOK, Next, NEW c \in Calls
    PROVE  /\ Attempted(c) \in Nat /\ Attempted(c)' \in Nat /\ Attempted(c) <= Attempted(c)'
  <1> USE ConstantsAssumption DEF ConstantsAssumption, lockVars, callVars, CallOps
  <1>0. /\ attempt \in {1, 2} /\ c # None
        /\ c = caller => outcome[c] = "pending" /\ op \in CallOps
        /\ c = caller /\ attempt = 2 => c \in ReadCalls
        /\ outcome \in [Calls -> Outcomes]
    BY DEF TypeOK, HolderOK
  <1>1. Attempted(c) \in Nat
    BY <1>0 DEF Attempted
  <1>2. CASE UNCHANGED <<at, caller, attempt, outcome>>
    BY <1>1, <1>2 DEF Attempted
  <1>3. ASSUME NEW d \in Calls, NEW o \in CallOps, Call(d, o)
        PROVE  Attempted(c)' = Attempted(c)
    <2>1. caller = None /\ Start(d, o) \in {"dial", "write"}
      BY <1>3, StartValues DEF Call, Acquire, TypeOK
    <2> QED BY <1>0, <1>3, <2>1 DEF Call, Acquire, Attempted
  <1>4. ASSUME NEW d \in Calls, NEW o \in CallOps, CallRefused(d, o)
        PROVE  Attempted(c)' = Attempted(c)
    BY <1>0, <1>4 DEF CallRefused, Attempted
  <1>5. CASE Connect \/ WaitWatchEvent
    <2>1. caller = None /\ caller' = None /\ UNCHANGED outcome
      BY <1>5 DEF Connect, WaitWatchEvent, Acquire, TypeOK
    <2> QED BY <1>0, <1>1, <2>1 DEF Attempted
  <1>6. ASSUME NEW v \in {"unknown", "unexpected", "dropped", "ok", "error"}, Release(v)
        PROVE  Attempted(c)' \in Nat /\ Attempted(c) <= Attempted(c)'
    BY <1>0, <1>6 DEF Release, Attempted
  <1>7. CASE Release("refused") /\ (c = caller => attempt = 1 /\ at \in {"dial", "auth"})
    BY <1>0, <1>7 DEF Release, Attempted
  <1>8. CASE at \in {"dial", "auth"} /\ Connected
    <2>1. CASE Release("refused") /\ (op = "connect" \/ (sdk = "go" /\ caller \in InvalidCalls))
      BY <1>0, <1>7, <1>8, <2>1 DEF HolderOK
    <2>2. CASE at' = FirstStep(op) /\ UNCHANGED <<caller, op, attempt, outcome>>
      BY <1>0, <1>8, <2>2 DEF FirstStep, Attempted
    <2> QED BY <1>8, <2>1, <2>2 DEF Connected
  <1>9. CASE Release("failed") /\ (c = caller => op = "read" \/ at \in {"dial", "auth"})
    BY <1>0, <1>9 DEF HolderOK, Release, Attempted
  <1>10. CASE AttemptFailed
    <2>1. CASE at' = "dial" /\ attempt' = 2 /\ attempt = 1 /\ UNCHANGED <<caller, op, outcome>>
      BY <1>0, <2>1 DEF Attempted
    <2>2. CASE Release(LossReport) /\ op = "read"
      BY <1>1, <1>9, <2>2 DEF LossReport
    <2>3. CASE Release(LossReport) /\ op # "read"
      BY <1>1, <1>6, <2>3 DEF LossReport
    <2> QED BY <1>1, <1>10, <2>1, <2>2, <2>3 DEF AttemptFailed, Retries
  <1>11. CASE Write \/ WriteBlocks \/ WriteResumes
    BY <1>0, <1>1, <1>11 DEF Write, WriteBlocks, WriteResumes, Written, Attempted
  <1>12. CASE DialOk
    <2>1. CASE at' = "auth" /\ UNCHANGED <<caller, op, attempt, outcome>>
      BY <1>0, <1>12, <2>1 DEF DialOk, Attempted
    <2> QED BY <1>8, <1>12, <2>1 DEF DialOk
  <1>13. CASE DialFailed \/ AuthAnswered \/ AuthFailed
    BY <1>8, <1>9, <1>13 DEF DialFailed, AuthAnswered, AuthFailed, AuthBroken
  <1>14. CASE WriteFailed \/ Reply \/ ReadFailed \/ Event \/ Cancel
    <2>1. CASE Event
      <3>1. caller = None
        BY <2>1 DEF Event, TypeOK
      <3> QED BY <1>0, <1>9, <2>1, <3>1 DEF Event
    <2> QED BY <1>1, <1>6, <1>10, <1>14, <2>1 DEF WriteFailed, Reply, ReadFailed, Cancel
  <1>15. CASE Close \/ \E s \in Socks : Serve(s) \/ Push(s) \/ Break(s) \/ Forget(s)
    BY <1>2, <1>15 DEF Close, Serve, Push, Break, Forget
  <1> QED
    BY <1>1, <1>3, <1>4, <1>5, <1>11, <1>12, <1>13, <1>14, <1>15 DEF Next, Holder

\* A write adds a request to what its call has written.
LEMMA WriteAddsOne ==
    ASSUME TypeOK, at \in {"write", "blocked"}, Written, NEW c \in Calls, c = caller
    PROVE  Attempted(c)' = Attempted(c) + 1
  BY ConstantsAssumption DEF ConstantsAssumption, TypeOK, Written, Attempted, callVars

\* A step that neither executes a call nor adds a request of it keeps its account.
LEMMA AccountKept ==
    ASSUME TypeOK, HolderOK, Next, NEW c \in Calls, Accounted(c), execs'[c] = execs[c],
           Unserved(c, sent', served') \subseteq Unserved(c, sent, served)
    PROVE  Accounted(c)'
  <1>1. /\ Attempted(c) \in Nat /\ Attempted(c)' \in Nat /\ Attempted(c) <= Attempted(c)'
        /\ execs[c] \in Nat
    BY AttemptedGrows DEF TypeOK
  <1>2. IsFiniteSet(Unserved(c, sent, served))
    BY DEF Accounted
  <1>3. /\ IsFiniteSet(Unserved(c, sent', served'))
        /\ Cardinality(Unserved(c, sent', served')) <= Cardinality(Unserved(c, sent, served))
    BY <1>2, FS_Subset
  <1>4. /\ Cardinality(Unserved(c, sent', served')) \in Nat
        /\ Cardinality(Unserved(c, sent, served)) \in Nat
    BY <1>2, <1>3, FS_CardinalityType
  <1> QED BY <1>1, <1>3, <1>4 DEF Accounted

\* Writing a request: the account of the caller has one more on both sides.
LEMMA WriteAccount ==
    ASSUME TypeOK, HolderOK, LinksOK, Next, at \in {"write", "blocked"}, Written,
           NEW c \in Calls, Accounted(c)
    PROVE  Accounted(c)'
  <1> DEFINE r == [owner |-> caller, op |-> op]
  <1>0. /\ conn \in Socks /\ caller \in Calls /\ r \in Frames /\ sent[conn] \in Seq(Frames)
        /\ execs' = execs /\ served' = served
    BY ConstantsAssumption DEF ConstantsAssumption, Written, TypeOK, Frames
  <1>1. CASE sent' = sent
    BY <1>0, <1>1, AccountKept
  <1>2. CASE sent' = [sent EXCEPT ![conn] = Append(@, r)]
    <2> DEFINE n == Len(sent[conn]) + 1
               f == <<conn, n>>
    <2>1. /\ DOMAIN sent[conn] = 1..Len(sent[conn]) /\ Len(sent[conn]) \in Nat
          /\ DOMAIN Append(sent[conn], r) = 1..n
          /\ \A i \in 1..Len(sent[conn]) : Append(sent[conn], r)[i] = sent[conn][i]
          /\ Append(sent[conn], r)[n] = r
      <3>1. Append(sent[conn], r) \in Seq(Frames) /\ Len(Append(sent[conn], r)) = n
        BY <1>0, AppendProperties
      <3> QED BY <1>0, <3>1, AppendProperties, LenProperties
    <2>2. /\ sent'[conn] = Append(sent[conn], r)
          /\ \A s \in Socks : s # conn => sent'[s] = sent[s]
      BY <1>0, <1>2 DEF TypeOK
    <2>3. Unserved(c, sent', served') \subseteq Unserved(c, sent, served) \cup {f}
      <3> SUFFICES ASSUME NEW g \in Unserved(c, sent', served'), g # f
                   PROVE  g \in Unserved(c, sent, served)
        OBVIOUS
      <3>1. PICK s, i : /\ s \in Socks /\ i \in DOMAIN sent'[s]
                        /\ g = <<s, i>> /\ i > served[s] /\ sent'[s][i].owner = c
        BY <1>0, UnservedElement
      <3>2. i \in DOMAIN sent[s] /\ sent'[s][i] = sent[s][i]
        <4>1. CASE s = conn
          BY <2>1, <2>2, <3>1, <4>1, SMTT(30)
        <4>2. CASE s # conn
          BY <2>2, <3>1, <4>2
        <4> QED BY <4>1, <4>2
      <3> QED BY <3>1, <3>2, UnservedElement
    <2>4. f \notin Unserved(c, sent, served)
      <3> SUFFICES ASSUME f \in Unserved(c, sent, served) PROVE FALSE
        OBVIOUS
      <3>1. PICK s, i : s \in Socks /\ i \in DOMAIN sent[s] /\ f = <<s, i>>
        BY UnservedElement
      <3> QED BY <2>1, <3>1
    <2>5. CASE c # caller
      <3>1. f \notin Unserved(c, sent', served')
        <4> SUFFICES ASSUME f \in Unserved(c, sent', served') PROVE FALSE
          OBVIOUS
        <4>1. PICK s, i : /\ s \in Socks /\ i \in DOMAIN sent'[s]
                          /\ f = <<s, i>> /\ i > served'[s] /\ sent'[s][i].owner = c
          BY UnservedElement
        <4>2. s = conn /\ i = n
          BY <4>1
        <4> QED BY <2>1, <2>2, <2>5, <4>1, <4>2
      <3> QED BY <1>0, <2>3, <3>1, AccountKept
    <2>6. CASE c = caller
      <3> DEFINE U == Unserved(c, sent, served)
      <3>1. /\ IsFiniteSet(U) /\ Cardinality(U) \in Nat /\ execs[c] \in Nat
            /\ execs[c] + Cardinality(U) <= Attempted(c)
        BY FS_CardinalityType DEF Accounted, TypeOK
      <3>2. IsFiniteSet(U \cup {f}) /\ Cardinality(U \cup {f}) = Cardinality(U) + 1
        BY <2>4, <3>1, FS_AddElement
      <3>3. /\ IsFiniteSet(Unserved(c, sent', served'))
            /\ Cardinality(Unserved(c, sent', served')) <= Cardinality(U) + 1
            /\ Cardinality(Unserved(c, sent', served')) \in Nat
        BY <2>3, <3>2, FS_Subset, FS_CardinalityType
      <3>4. Attempted(c)' = Attempted(c) + 1 /\ Attempted(c) \in Nat
        BY <1>0, <2>6, WriteAddsOne, AttemptedGrows
      <3>5. execs[c] + Cardinality(Unserved(c, sent', served')) <= Attempted(c) + 1
        BY <3>1, <3>3, <3>4
      <3> QED BY <1>0, <3>3, <3>4, <3>5 DEF Accounted
    <2> QED BY <2>5, <2>6
  <1> QED BY <1>1, <1>2 DEF Written

\* Executing a request moves it from one side of its owner's account to the other.
LEMMA ServeAccount ==
    ASSUME TypeOK, HolderOK, LinksOK, Next, NEW s \in Socks, Serve(s),
           NEW c \in Calls, Accounted(c)
    PROVE  Accounted(c)'
  <1> DEFINE n == served[s] + 1
             f == <<s, n>>
             U == Unserved(c, sent, served)
             V == Unserved(c, sent', served')
  <1>0. /\ sent' = sent /\ served' = [served EXCEPT ![s] = n]
        /\ served \in [Socks -> Nat] /\ n \in Nat
        /\ execs \in [Calls -> Nat]
        /\ execs'[c] = IF c = sent[s][n].owner THEN execs[c] + 1 ELSE execs[c]
        /\ n \in DOMAIN sent[s]
        /\ \A q \in Socks : DOMAIN sent[q] \subseteq Nat
    <2>1. \A q \in Socks : sent[q] \in Seq(Frames)
      BY DEF TypeOK
    <2>2. \A q \in Socks : DOMAIN sent[q] = 1..Len(sent[q]) /\ Len(sent[q]) \in Nat
      BY <2>1, LenProperties
    <2> QED BY <2>2 DEF Serve, TypeOK
  <1>1. V \subseteq U /\ f \notin V
    <2>1. ASSUME NEW g \in V PROVE g \in U /\ g # f
      <3>0. g \in Unserved(c, sent, served')
        BY <1>0, <2>1
      <3>1. PICK q, i : /\ q \in Socks /\ i \in DOMAIN sent[q]
                        /\ g = <<q, i>> /\ i > served'[q] /\ sent[q][i].owner = c
        BY <3>0, UnservedElement
      <3>2. i > served[q]
        BY <1>0, <3>1
      <3>3. q = s => i # n
        BY <1>0, <3>1
      <3> QED BY <3>1, <3>2, <3>3, UnservedElement
    <2> QED BY <2>1
  <1>2. CASE c # sent[s][n].owner
    BY <1>0, <1>1, <1>2, AccountKept
  <1>3. CASE c = sent[s][n].owner
    <2>1. f \in U
      BY <1>0, <1>3, UnservedElement
    <2>2. /\ IsFiniteSet(U) /\ Cardinality(U) \in Nat
          /\ execs[c] + Cardinality(U) <= Attempted(c)
      BY FS_CardinalityType DEF Accounted
    <2>3. IsFiniteSet(U \ {f}) /\ Cardinality(U \ {f}) = Cardinality(U) - 1
      BY <2>1, <2>2, FS_RemoveElement
    <2>4. V \subseteq U \ {f}
      BY <1>1
    <2>5. IsFiniteSet(V) /\ Cardinality(V) <= Cardinality(U) - 1 /\ Cardinality(V) \in Nat
      BY <2>3, <2>4, FS_Subset, FS_CardinalityType
    <2>6. execs'[c] = execs[c] + 1 /\ execs[c] \in Nat
      BY <1>0, <1>3
    <2>7. Attempted(c) \in Nat /\ Attempted(c)' \in Nat /\ Attempted(c) <= Attempted(c)'
      BY AttemptedGrows
    <2> QED BY <2>2, <2>5, <2>6, <2>7 DEF Accounted
  <1> QED BY <1>2, <1>3

\* Every step keeps the account of every call.
LEMMA NextAccount ==
    ASSUME IInv, [Next]_vars, NEW c \in Calls
    PROVE  Accounted(c)'
  <1> USE DEF IInv
  <1>1. CASE UNCHANGED vars
    BY <1>1 DEF vars, lockVars, callVars, netVars, Accounted, Attempted
  <1>2. CASE Next /\ UNCHANGED <<sent, served, execs>>
    BY <1>2, AccountKept
  <1>3. CASE Next /\ DialOk
    <2>1. PICK s \in Socks :
            /\ link[s] = "none"
            /\ \/ sent' = [sent EXCEPT ![s] = <<[owner |-> None, op |-> "auth"]>>]
               \/ UNCHANGED sent
      BY <1>3 DEF DialOk
    <2>2. served' = served /\ execs' = execs
      BY <1>3 DEF DialOk
    <2>3. Unserved(c, sent', served') \subseteq Unserved(c, sent, served)
      <3> SUFFICES ASSUME NEW g \in Unserved(c, sent', served')
                   PROVE  g \in Unserved(c, sent, served)
        OBVIOUS
      <3>1. PICK q, i : /\ q \in Socks /\ i \in DOMAIN sent'[q]
                        /\ g = <<q, i>> /\ i > served'[q] /\ sent'[q][i].owner = c
        BY UnservedElement
      <3>2. CASE sent'[q] = sent[q]
        BY <2>2, <3>1, <3>2, UnservedElement
      <3>3. CASE sent'[q] = <<[owner |-> None, op |-> "auth"]>>
        BY <3>1, <3>3, ConstantsAssumption DEF ConstantsAssumption
      <3> QED BY <2>1, <3>1, <3>2, <3>3 DEF TypeOK
    <2> QED BY <1>3, <2>2, <2>3, AccountKept
  <1>4. CASE Next /\ (Write \/ WriteResumes)
    BY <1>4, WriteAccount DEF Write, WriteResumes
  <1>5. ASSUME Next, NEW s \in Socks, Serve(s)
        PROVE  Accounted(c)'
    BY <1>5, ServeAccount
  <1>6. ASSUME Next, NEW s \in Socks, Forget(s)
        PROVE  Accounted(c)'
    <2>1. Unserved(c, sent', served') \subseteq Unserved(c, sent, served)
      <3> SUFFICES ASSUME NEW g \in Unserved(c, sent', served')
                   PROVE  g \in Unserved(c, sent, served)
        OBVIOUS
      <3>1. PICK q, i : /\ q \in Socks /\ i \in DOMAIN sent'[q]
                        /\ g = <<q, i>> /\ i > served'[q] /\ sent'[q][i].owner = c
        BY UnservedElement
      <3>2. q # s
        BY <1>6, <3>1 DEF Forget, TypeOK
      <3>3. sent'[q] = sent[q] /\ served'[q] = served[q]
        BY <1>6, <3>2 DEF Forget, TypeOK
      <3> QED BY <3>1, <3>3, UnservedElement
    <2> QED BY <1>6, <2>1, AccountKept DEF Forget
  <1>7. CASE /\ Next
             /\ \/ \E d \in Calls, o \in CallOps : Call(d, o) \/ CallRefused(d, o)
                \/ Connect \/ WaitWatchEvent \/ Close \/ DialFailed \/ AuthAnswered
                \/ AuthFailed \/ WriteBlocks \/ WriteFailed \/ Reply \/ ReadFailed \/ Event \/ Cancel
                \/ \E s \in Socks : Push(s) \/ Break(s)
    BY <1>2, <1>7
    DEF Call, CallRefused, Acquire, Connect, WaitWatchEvent, Close, DialFailed, AuthAnswered,
        AuthFailed, WriteBlocks, WriteFailed, Reply, ReadFailed, Event, Cancel, Push, Break, netVars
  <1> QED
    BY <1>1, <1>3, <1>4, <1>5, <1>6, <1>7 DEF Next, Holder

\* Nothing is written, held or connected at first.
LEMMA InitInv == Init => IInv
  <1> SUFFICES ASSUME Init PROVE IInv
    OBVIOUS
  <1> USE ConstantsAssumption DEF ConstantsAssumption
  <1>1. TypeOK
    BY InitTypes
  <1>2. HolderOK
    BY DEF Init, HolderOK
  <1>3. LinksOK
    BY EmptySeq DEF Init, LinksOK
  <1>4. ASSUME NEW c \in Calls PROVE Accounted(c)
    <2>1. Unserved(c, sent, served) = {}
      <3> SUFFICES ASSUME NEW g \in Unserved(c, sent, served) PROVE FALSE
        OBVIOUS
      <3>1. PICK s, i : s \in Socks /\ i \in DOMAIN sent[s]
        BY UnservedElement
      <3> QED BY <3>1 DEF Init
    <2>2. execs[c] = 0 /\ Attempted(c) = 0
      BY DEF Init, Attempted
    <2> QED BY <2>1, <2>2, FS_EmptySet DEF Accounted
  <1> QED BY <1>1, <1>2, <1>3, <1>4 DEF IInv

\* Every step preserves the invariant.
LEMMA NextInv == IInv /\ [Next]_vars => IInv'
  <1> SUFFICES ASSUME IInv, [Next]_vars PROVE IInv'
    OBVIOUS
  <1>1. TypeOK' /\ HolderOK' /\ LinksOK'
    BY NextTypes, NextHolder, NextLinks DEF IInv
  <1>2. \A c \in Calls : Accounted(c)'
    BY NextAccount
  <1> QED BY <1>1, <1>2 DEF IInv

\* Types, the holder, the connections and the account of every call, together,
\* hold in every reachable state.
THEOREM Invariance == Spec => []IInv
  BY InitInv, NextInv, PTL DEF Spec

\* What the account says of executions.
LEMMA ExecutionsAttempted ==
    ASSUME IInv, NEW c \in Calls
    PROVE  execs[c] \in Nat /\ execs[c] <= Attempted(c)
  <1>1. /\ execs[c] \in Nat /\ Cardinality(Unserved(c, sent, served)) \in Nat
        /\ execs[c] + Cardinality(Unserved(c, sent, served)) <= Attempted(c)
    BY FS_CardinalityType DEF IInv, TypeOK, Accounted
  <1>2. Attempted(c) \in Nat
    BY DEF IInv, TypeOK, Attempted
  <1> QED BY <1>1, <1>2

\* set, incr, delete, watch and the rest are executed at most once, get and
\* ping at most twice, by all four clients and whatever times out, breaks, is
\* cancelled, or is still on its way when the lock is released.
THEOREM ExecutionsBounded == Spec => []BoundedExecutions
  <1>1. IInv => BoundedExecutions
    <2> SUFFICES ASSUME IInv, NEW c \in Calls
                 PROVE  execs[c] <= (IF c \in ReadCalls THEN 2 ELSE 1)
      BY DEF BoundedExecutions
    <2>1. Attempted(c) \in Nat /\ Attempted(c) <= (IF c \in ReadCalls THEN 2 ELSE 1)
      BY ConstantsAssumption DEF ConstantsAssumption, IInv, TypeOK, HolderOK, Attempted
    <2> QED BY <2>1, ExecutionsAttempted
  <1> QED BY <1>1, Invariance, PTL

\* A call that is refused is not executed, nor is any request of it left for the
\* server to execute later; and the same holds for a call that may change the
\* server's state and fails with a bare connection error, although get and
\* ping, whose first attempt may have been executed, fail in the same words.
THEOREM PlainFailureIsFinal == Spec => []PlainFailureNotExecuted
  <1>1. IInv => PlainFailureNotExecuted
    <2> SUFFICES ASSUME IInv, NEW c \in Calls, execs[c] > 0
                 PROVE  outcome[c] # "refused" /\ (c \notin ReadCalls => outcome[c] # "failed")
      BY DEF PlainFailureNotExecuted
    <2>1. Attempted(c) # 0
      BY ExecutionsAttempted DEF IInv
    <2> QED BY <2>1 DEF Attempted
  <1> QED BY <1>1, Invariance, PTL

-----------------------------------------------------------------------------
(* Authentication.                                                          *)

\* Every step leaves the auth request, and no other, first on each connection.
LEMMA NextAuth == IInv /\ AuthFirst /\ [Next]_vars => AuthFirst'
  <1> SUFFICES ASSUME IInv, AuthFirst, [Next]_vars, AuthToken
               PROVE  \A s \in Socks : \A i \in DOMAIN sent'[s] :
                        (sent'[s][i].op = "auth") <=> (i = 1)
    BY DEF AuthFirst
  <1> USE DEF IInv
  <1>0. sent \in [Socks -> Seq(Frames)]
    BY DEF TypeOK
  <1>1. CASE UNCHANGED sent
    BY <1>1 DEF AuthFirst
  <1>2. CASE DialOk
    <2>1. PICK s \in Socks :
            \/ sent' = [sent EXCEPT ![s] = <<[owner |-> None, op |-> "auth"]>>]
            \/ UNCHANGED sent
      BY <1>2 DEF DialOk
    <2>2. CASE sent' = [sent EXCEPT ![s] = <<[owner |-> None, op |-> "auth"]>>]
      BY <1>0, <2>2 DEF AuthFirst
    <2> QED BY <1>1, <2>1, <2>2
  <1>3. CASE Write \/ WriteResumes
    <2> DEFINE r == [owner |-> caller, op |-> op]
    <2>0. conn \in Socks /\ r \in Frames /\ op # "auth" /\ sent[conn] \in Seq(Frames)
            /\ sent[conn] # <<>>
      BY <1>3 DEF Write, WriteResumes, TypeOK, Frames, CallOps, LinksOK
    <2>1. CASE sent' = [sent EXCEPT ![conn] = Append(@, r)]
      <3> SUFFICES ASSUME NEW s \in Socks, NEW i \in DOMAIN sent'[s]
                   PROVE  (sent'[s][i].op = "auth") <=> (i = 1)
        OBVIOUS
      <3>1. CASE s # conn
        BY <1>0, <2>1, <3>1 DEF AuthFirst
      <3>2. CASE s = conn
        <4>1. sent'[s] = Append(sent[conn], r)
          BY <1>0, <2>0, <2>1, <3>2
        <4>2. Len(sent[conn]) \in Nat \ {0} /\ DOMAIN sent[conn] = 1..Len(sent[conn])
          BY <2>0, EmptySeq, LenProperties
        <4>3. /\ i \in 1..(Len(sent[conn]) + 1)
              /\ \A j \in 1..Len(sent[conn]) : Append(sent[conn], r)[j] = sent[conn][j]
              /\ Append(sent[conn], r)[Len(sent[conn]) + 1] = r
          BY <2>0, <4>1, AppendProperties, LenProperties
        <4>4. CASE i = Len(sent[conn]) + 1
          BY <2>0, <4>1, <4>2, <4>3, <4>4
        <4>5. CASE i \in 1..Len(sent[conn])
          BY <2>0, <4>1, <4>2, <4>3, <4>5 DEF AuthFirst
        <4> QED BY <4>2, <4>3, <4>4, <4>5
      <3> QED BY <3>1, <3>2
    <2> QED BY <1>1, <1>3, <2>1 DEF Write, WriteResumes, Written
  <1>4. ASSUME NEW s \in Socks, Forget(s)
        PROVE  \A q \in Socks : \A i \in DOMAIN sent'[q] :
                 (sent'[q][i].op = "auth") <=> (i = 1)
    BY <1>0, <1>4 DEF Forget, AuthFirst
  <1>5. CASE \/ \E c \in Calls, o \in CallOps : Call(c, o) \/ CallRefused(c, o)
             \/ Connect \/ WaitWatchEvent \/ Close \/ DialFailed \/ AuthAnswered
             \/ AuthFailed \/ WriteBlocks \/ WriteFailed \/ Reply \/ ReadFailed \/ Event \/ Cancel
             \/ \E s \in Socks : Serve(s) \/ Push(s) \/ Break(s)
             \/ UNCHANGED vars
    BY <1>1, <1>5
    DEF Call, CallRefused, Acquire, Connect, WaitWatchEvent, Close, DialFailed, AuthAnswered,
        AuthFailed, WriteBlocks, WriteFailed, Reply, ReadFailed, Event, Cancel, Serve, Push, Break,
        netVars, vars
  <1> QED BY <1>2, <1>3, <1>4, <1>5 DEF Next, Holder

\* With a token configured, a request is only ever written on a connection whose
\* first frame is the auth request, on the connection of a retry too.
THEOREM AuthComesFirst == Spec => []AuthFirst
  <1>1. Init => AuthFirst
    BY DEF Init, AuthFirst
  <1> QED BY <1>1, Invariance, NextAuth, PTL DEF Spec
=============================================================================
