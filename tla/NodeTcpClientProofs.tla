------------------------- MODULE NodeTcpClientProofs -------------------------
(***************************************************************************)
(* Proofs about NodeTcpClient, for every value of its constants: type      *)
(* correctness, where waiters keep their frames, that no call is executed  *)
(* twice or after it was refused or settles twice, that close() is final,  *)
(* that the authentication comes first, and that no queue is left behind.  *)
(***************************************************************************)
EXTENDS NodeTcpClient, SequenceTheorems, TLAPS

\* The server answers what was sent, the client takes what was answered.
WireOK == \A s \in Socks : recvd[s] <= Len(replies[s]) /\ Len(replies[s]) <= Len(sent[s])

\* Type correctness by itself is not inductive: which request a reply answers
\* needs WireOK, and what a disconnect or a flush does needs FramesInPlace.
BaseInv == TypeOK /\ WireOK /\ FramesInPlace

Unframed(q) == \A i \in DOMAIN q : q[i].frame = None

-----------------------------------------------------------------------------
(* Sequences.                                                               *)

\* A function on 1..n is a sequence of length n.
LEMMA SeqOfFunction ==
    ASSUME NEW S, NEW n \in Nat, NEW f \in [1..n -> S]
    PROVE  f \in Seq(S) /\ Len(f) = n
  <1>1. f \in Seq(S)
    BY SeqDef
  <1>2. Len(f) = n
    BY <1>1, LenProperties, DOMAIN f = 1..n
  <1> QED
    BY <1>1, <1>2

\* The empty sequence.
LEMMA EmptyFacts == \A S : <<>> \in Seq(S) /\ Len(<<>>) = 0 /\ DOMAIN <<>> = {}
  OBVIOUS

\* Appending keeps the elements and adds one.
LEMMA AppendFacts ==
    ASSUME NEW S, NEW q \in Seq(S), NEW e \in S
    PROVE  /\ Append(q, e) \in Seq(S)
           /\ Len(Append(q, e)) = Len(q) + 1
           /\ DOMAIN Append(q, e) = 1..Len(q) + 1
           /\ \A i \in 1..Len(q) : Append(q, e)[i] = q[i]
           /\ Append(q, e)[Len(q) + 1] = e
  OBVIOUS

\* The tail is the sequence without its first element.
LEMMA TailFacts ==
    ASSUME NEW S, NEW q \in Seq(S), q # <<>>
    PROVE  /\ Tail(q) \in Seq(S)
           /\ Len(Tail(q)) = Len(q) - 1 /\ Len(q) \in Nat \ {0}
           /\ DOMAIN Tail(q) = 1..Len(q) - 1
           /\ \A i \in 1..Len(q) - 1 : Tail(q)[i] = q[i + 1]
           /\ Head(q) = q[1] /\ Head(q) \in S
  BY HeadTailProperties, EmptySeq, LenProperties

\* A step that keeps or empties each of the two lists keeps frames in place.
LEMMA KeptOrEmptied ==
    ASSUME TypeOK, FramesInPlace,
           offlineQueue' \in {offlineQueue, <<>>}, inflight' \in {inflight, <<>>}
    PROVE  offlineQueue' \in Seq(Waiters) /\ inflight' \in Seq(Waiters) /\ FramesInPlace'
  <1>1. offlineQueue \in Seq(Waiters) /\ inflight \in Seq(Waiters)
    BY DEF TypeOK
  <1>2. offlineQueue' \in Seq(Waiters) /\ inflight' \in Seq(Waiters)
    BY <1>1, EmptyFacts
  <1>3. \A i \in DOMAIN inflight' : inflight'[i].frame = None
    <2>1. CASE inflight' = inflight
      BY <2>1 DEF FramesInPlace
    <2>2. CASE inflight' = <<>>
      BY <2>2, EmptyFacts
    <2> QED BY <2>1, <2>2
  <1>4. \A i \in DOMAIN offlineQueue' : offlineQueue'[i].frame # None
    <2>1. CASE offlineQueue' = offlineQueue
      BY <2>1 DEF FramesInPlace
    <2>2. CASE offlineQueue' = <<>>
      BY <2>2, EmptyFacts
    <2> QED BY <2>1, <2>2
  <1> QED
    BY <1>2, <1>3, <1>4 DEF FramesInPlace

-----------------------------------------------------------------------------
(* The parts actions are made of.                                           *)

\* A frame and its waiter are well formed.
LEMMA FrameTypes ==
    ASSUME NEW o \in Owners, NEW op, NEW k,
           \/ op \in {"watch", "unwatch"} /\ k \in Keys
           \/ op \in {"auth", "data"} /\ k = None
    PROVE  /\ Frame(o, op, k) \in Frames /\ Frame(o, op, k) # None
           /\ Frame(o, op, k).owner = o /\ Frame(o, op, k).op = op
  BY ConstantsAssumption DEF Frame, Frames

LEMMA WaiterTypes ==
    ASSUME NEW o \in Owners, NEW f \in Frames \cup {None}
    PROVE  /\ Waiter(o, f) \in Waiters
           /\ Waiter(o, f).frame = f /\ Waiter(o, f).owner = o
           /\ Waiter(o, f).settled = FALSE
  BY DEF Waiter, Waiters

\* A waiter that is waiting for a reply, by itself.
LEMMA LoneWaiter ==
    ASSUME NEW o \in Owners
    PROVE  /\ Waiter(o, None) \in Waiters /\ Waiter(o, None).frame = None
           /\ <<Waiter(o, None)>> \in Seq(Waiters) /\ Unframed(<<Waiter(o, None)>>)
  <1>1. None \in Frames \cup {None}
    OBVIOUS
  <1>2. Waiter(o, None) \in Waiters /\ Waiter(o, None).frame = None
    BY <1>1, WaiterTypes
  <1> QED
    BY <1>2 DEF Unframed

\* The lengths of what was sent and answered.
LEMMA SentLengths ==
    ASSUME TypeOK
    PROVE  \A s \in Socks : Len(sent[s]) \in Nat /\ Len(replies[s]) \in Nat
  BY LenProperties DEF TypeOK

\* Writing a frame puts one waiter without frame in flight and the frame on
\* the wire.
LEMMA WriteTypes ==
    ASSUME TypeOK, NEW sk \in Socks, NEW q \in Seq(Waiters), Unframed(q),
           NEW f \in Frames, WriteInflight(sk, q, f)
    PROVE  /\ inflight' \in Seq(Waiters) /\ Unframed(inflight')
           /\ sent' \in [Socks -> Seq(Frames)]
           /\ \A s \in Socks : Len(sent[s]) <= Len(sent'[s])
  <1>0. f.owner \in Owners
    BY DEF Frames
  <1>1. Waiter(f.owner, None) \in Waiters /\ Waiter(f.owner, None).frame = None
    BY <1>0, WaiterTypes
  <1>2. inflight' \in Seq(Waiters) /\ Unframed(inflight')
    BY <1>1, AppendFacts, LenProperties DEF WriteInflight, Unframed
  <1>3. Append(sent[sk], f) \in Seq(Frames) /\ Len(Append(sent[sk], f)) = Len(sent[sk]) + 1
    BY AppendFacts DEF TypeOK
  <1>4. /\ sent' \in [Socks -> Seq(Frames)]
        /\ \A s \in Socks : Len(sent[s]) <= Len(sent'[s])
    BY <1>3, LenProperties, SMTT(30) DEF WriteInflight, TypeOK
  <1> QED
    BY <1>2, <1>4

\* A flush moves the queued frames to the wire and their waiters in flight.
LEMMA FlushShape ==
    ASSUME BaseInv, NEW sk \in Socks, NEW q, FlushOfflineQueue(sk, q)
    PROVE  \E ws \in Seq(Waiters), fs \in Seq(Frames) :
             /\ Len(ws) = Len(offlineQueue) /\ Len(fs) = Len(offlineQueue)
             /\ \A i \in 1..Len(offlineQueue) :
                  /\ ws[i].frame = None /\ ws[i].owner = offlineQueue[i].owner
                  /\ ws[i].settled = offlineQueue[i].settled
                  /\ fs[i] = offlineQueue[i].frame
             /\ inflight' = q \o ws
             /\ sent' = [sent EXCEPT ![sk] = @ \o fs]
             /\ offlineQueue' = <<>>
             /\ outcome' = outcome
  <1> DEFINE n  == Len(offlineQueue)
             ws == [i \in 1..n |-> Flushed(offlineQueue[i])]
             fs == [i \in 1..n |-> offlineQueue[i].frame]
  <1>1. /\ n \in Nat /\ DOMAIN offlineQueue = 1..n
        /\ \A i \in 1..n : offlineQueue[i] \in Waiters /\ offlineQueue[i].frame # None
    BY LenProperties DEF BaseInv, TypeOK, FramesInPlace
  <1>2. /\ inflight' = q \o ws
        /\ sent' = [sent EXCEPT ![sk] = @ \o fs]
        /\ offlineQueue' = <<>>
        /\ outcome' = [c \in Calls |-> outcome[c]]
    BY <1>1 DEF FlushOfflineQueue, QueueAfterFlush
  <1>3. \A i \in 1..n : /\ Flushed(offlineQueue[i]) \in Waiters
                        /\ Flushed(offlineQueue[i]).frame = None
                        /\ Flushed(offlineQueue[i]).owner = offlineQueue[i].owner
                        /\ Flushed(offlineQueue[i]).settled = offlineQueue[i].settled
    BY <1>1 DEF Flushed, Waiters
  <1>4. ws \in Seq(Waiters) /\ Len(ws) = n
    <2>1. ws \in [1..n -> Waiters]
      BY <1>3
    <2> QED
      BY <1>1, <2>1, SeqOfFunction
  <1>5. fs \in Seq(Frames) /\ Len(fs) = n
    <2>1. fs \in [1..n -> Frames]
      BY <1>1 DEF Waiters
    <2> QED
      BY <1>1, <2>1, SeqOfFunction
  <1>6. \A i \in 1..n : /\ ws[i].frame = None /\ ws[i].owner = offlineQueue[i].owner
                        /\ ws[i].settled = offlineQueue[i].settled
                        /\ fs[i] = offlineQueue[i].frame
    BY <1>3
  <1>7. outcome' = outcome
    BY <1>2 DEF BaseInv, TypeOK
  <1> HIDE DEF ws, fs
  <1> QED
    BY <1>2, <1>4, <1>5, <1>6, <1>7

LEMMA FlushTypes ==
    ASSUME BaseInv, NEW sk \in Socks, NEW q \in Seq(Waiters), Unframed(q),
           FlushOfflineQueue(sk, q)
    PROVE  /\ inflight' \in Seq(Waiters) /\ Unframed(inflight')
           /\ offlineQueue' = <<>>
           /\ sent' \in [Socks -> Seq(Frames)]
           /\ \A s \in Socks : Len(sent[s]) <= Len(sent'[s])
           /\ outcome' = outcome
  <1>1. PICK ws \in Seq(Waiters), fs \in Seq(Frames) :
             /\ Len(ws) = Len(offlineQueue)
             /\ \A i \in 1..Len(offlineQueue) : ws[i].frame = None
             /\ inflight' = q \o ws
             /\ sent' = [sent EXCEPT ![sk] = @ \o fs]
             /\ offlineQueue' = <<>>
             /\ outcome' = outcome
    BY FlushShape
  <1>2. inflight' \in Seq(Waiters) /\ Unframed(inflight')
    <2>1. /\ q \o ws \in Seq(Waiters) /\ Len(q \o ws) = Len(q) + Len(ws)
          /\ \A i \in 1..Len(q) + Len(ws) :
               (q \o ws)[i] = IF i <= Len(q) THEN q[i] ELSE ws[i - Len(q)]
      BY ConcatProperties
    <2>2. /\ DOMAIN q = 1..Len(q) /\ Len(q) \in Nat /\ Len(ws) \in Nat
          /\ DOMAIN (q \o ws) = 1..Len(q) + Len(ws)
      BY <2>1, LenProperties
    <2>3. ASSUME NEW i \in 1..Len(q) + Len(ws)
          PROVE  (q \o ws)[i].frame = None
      <3>1. CASE i <= Len(q)
        BY <3>1, <2>1, <2>2 DEF Unframed
      <3>2. CASE i > Len(q)
        <4>1. i - Len(q) \in 1..Len(ws)
          BY <3>2, <2>2
        <4> QED
          BY <4>1, <3>2, <2>1, <2>2, <1>1
      <3> QED
        BY <3>1, <3>2, <2>2
    <2> QED
      BY <2>1, <2>2, <2>3, <1>1 DEF Unframed
  <1>3. sent' \in [Socks -> Seq(Frames)] /\ \A s \in Socks : Len(sent[s]) <= Len(sent'[s])
    <2>1. sent \in [Socks -> Seq(Frames)]
      BY DEF BaseInv, TypeOK
    <2>2. sent[sk] \o fs \in Seq(Frames) /\ Len(sent[sk] \o fs) = Len(sent[sk]) + Len(fs)
      BY <2>1, ConcatProperties
    <2> QED
      BY <1>1, <2>1, <2>2, LenProperties
  <1> QED
    BY <1>1, <1>2, <1>3

\* What doConnect() does from the re-registration of watches on.
LEMMA ReregisterTypes ==
    ASSUME BaseInv, NEW s \in Socks, NEW sk \in Socks \cup {None},
           NEW q \in Seq(Waiters), Unframed(q), NEW p \in Nat,
           Reregister(s, sk, q, p)
    PROVE  /\ inflight' \in Seq(Waiters) /\ Unframed(inflight')
           /\ offlineQueue' \in {offlineQueue, <<>>}
           /\ sent' \in [Socks -> Seq(Frames)]
           /\ \A t \in Socks : Len(sent[t]) <= Len(sent'[t])
           /\ outcome' = outcome
           /\ phase' \in [Socks -> Phases] /\ cursor' \in [Socks -> Nat]
  <1>1. CASE /\ sk # None
             /\ \E k \in RemainingWatches(p) :
                  /\ WriteInflight(sk, q, Frame(s, "watch", k))
                  /\ cursor' = [cursor EXCEPT ![s] = watchCallbacks[k]]
             /\ phase' = [phase EXCEPT ![s] = "rereg"]
             /\ UNCHANGED <<offlineQueue, outcome>>
    <2>1. PICK k \in Keys :
             /\ WriteInflight(sk, q, Frame(s, "watch", k))
             /\ cursor' = [cursor EXCEPT ![s] = watchCallbacks[k]]
      BY <1>1 DEF RemainingWatches
    <2>2. Frame(s, "watch", k) \in Frames
      BY FrameTypes DEF Owners
    <2>3. /\ inflight' \in Seq(Waiters) /\ Unframed(inflight')
          /\ sent' \in [Socks -> Seq(Frames)]
          /\ \A t \in Socks : Len(sent[t]) <= Len(sent'[t])
      BY <1>1, <2>1, <2>2, WriteTypes DEF BaseInv
    <2> QED
      BY <1>1, <2>1, <2>3 DEF BaseInv, TypeOK, Phases
  <1>2. CASE /\ sk # None
             /\ FlushOfflineQueue(sk, q)
             /\ phase' = [phase EXCEPT ![s] = "idle"]
             /\ cursor' = [cursor EXCEPT ![s] = 0]
    <2>1. /\ inflight' \in Seq(Waiters) /\ Unframed(inflight')
          /\ offlineQueue' = <<>>
          /\ sent' \in [Socks -> Seq(Frames)]
          /\ \A t \in Socks : Len(sent[t]) <= Len(sent'[t])
          /\ outcome' = outcome
      BY <1>2, FlushTypes
    <2> QED
      BY <1>2, <2>1 DEF BaseInv, TypeOK, Phases
  <1>3. CASE /\ inflight' = q
             /\ phase' = [phase EXCEPT ![s] = "idle"]
             /\ cursor' = [cursor EXCEPT ![s] = 0]
             /\ UNCHANGED <<offlineQueue, sent, outcome>>
    <2>1. \A t \in Socks : Len(sent[t]) <= Len(sent'[t])
      BY <1>3, SentLengths DEF BaseInv
    <2> QED
      BY <1>3, <2>1 DEF BaseInv, TypeOK, Phases, Unframed
  <1> QED
    BY <1>1, <1>2, <1>3 DEF Reregister

\* Losing a connection or an attempt: nothing goes back to the queue, because
\* no waiter in flight has a frame.
LEMMA DropTypes ==
    ASSUME BaseInv, NEW q \in Seq(Waiters), Unframed(q), NEW plan,
           DropWaiters(q, plan)
    PROVE  /\ offlineQueue' \in {offlineQueue, <<>>}
           /\ outcome' \in [Calls -> Outcomes]
           /\ phase' \in [Socks -> Phases]
           /\ reconnectTimer' \in BOOLEAN
  <1>1. Requeued(q) = <<>>
    BY DEF Requeued, Unframed
  <1>2. Requeued(q) \o offlineQueue = offlineQueue
    BY <1>1, ConcatEmptySeq DEF BaseInv, TypeOK
  <1>3. offlineQueue' \in {offlineQueue, <<>>}
    BY <1>2 DEF DropWaiters
  <1>4. outcome' \in [Calls -> Outcomes]
    BY DEF DropWaiters, Outcomes, BaseInv, TypeOK
  <1>5. phase' \in [Socks -> Phases]
    BY DEF DropWaiters, RejectPhases, Phases, BaseInv, TypeOK
  <1>6. reconnectTimer' \in BOOLEAN
    BY DEF DropWaiters
  <1> QED
    BY <1>3, <1>4, <1>5, <1>6

\* A call goes to the wire, to the queue, or nowhere.
LEMMA SendTypes ==
    ASSUME BaseInv, NEW c \in Calls, NEW f \in Frames, f # None, f.owner = c,
           Send(c, f)
    PROVE  /\ inflight' \in Seq(Waiters) /\ Unframed(inflight')
           /\ offlineQueue' \in Seq(Waiters)
           /\ \A i \in DOMAIN offlineQueue' : offlineQueue'[i].frame # None
           /\ sent' \in [Socks -> Seq(Frames)]
           /\ \A s \in Socks : Len(sent[s]) <= Len(sent'[s])
           /\ outcome' \in [Calls -> Outcomes]
  <1> USE DEF BaseInv
  <1>0. Unframed(inflight)
    BY DEF FramesInPlace, Unframed
  <1>1. CASE /\ outcome' = [outcome EXCEPT ![c] = "refused"]
             /\ UNCHANGED <<queueVars, sent>>
    BY <1>0, <1>1, LenProperties DEF TypeOK, FramesInPlace, queueVars, Outcomes
  <1>2. CASE /\ offlineQueue' = Append(offlineQueue, Waiter(c, f))
             /\ outcome' = [outcome EXCEPT ![c] = "pending"]
             /\ UNCHANGED <<inflight, sent>>
    <2>1. Waiter(c, f) \in Waiters /\ Waiter(c, f).frame = f
      BY WaiterTypes, ZenonT(60) DEF Owners
    <2>2. /\ offlineQueue' \in Seq(Waiters)
          /\ \A i \in DOMAIN offlineQueue' : offlineQueue'[i].frame # None
      BY <1>2, <2>1, AppendFacts, LenProperties, SMTT(30) DEF TypeOK, FramesInPlace
    <2> QED
      BY <1>0, <1>2, <2>2, LenProperties, SMTT(30) DEF TypeOK, Outcomes
  <1>3. CASE /\ socket # None
             /\ WriteInflight(socket, inflight, f)
             /\ outcome' = [outcome EXCEPT ![c] = "pending"]
             /\ UNCHANGED offlineQueue
    <2>1. socket \in Socks /\ inflight \in Seq(Waiters)
      BY <1>3 DEF TypeOK
    <2>2. /\ inflight' \in Seq(Waiters) /\ Unframed(inflight')
          /\ sent' \in [Socks -> Seq(Frames)]
          /\ \A s \in Socks : Len(sent[s]) <= Len(sent'[s])
      BY <1>0, <1>3, <2>1, WriteTypes
    <2> QED
      BY <1>3, <2>2 DEF TypeOK, FramesInPlace, Outcomes
  <1> QED
    BY <1>1, <1>2, <1>3 DEF Send

-----------------------------------------------------------------------------
(* The base invariant.                                                      *)

LEMMA BaseInvInit == Init => BaseInv
  <1> SUFFICES ASSUME Init
               PROVE  BaseInv
    OBVIOUS
  <1>1. TypeOK
    <2>1. reconnectAttempts \in 0..AttemptCap
      BY ConstantsAssumption DEF Init
    <2>2. /\ inflight \in Seq(Waiters) /\ offlineQueue \in Seq(Waiters)
          /\ sent \in [Socks -> Seq(Frames)] /\ replies \in [Socks -> Seq(Verdicts)]
          /\ pushes \in [Socks -> Seq(Keys)]
      BY EmptyFacts DEF Init
    <2>3. /\ phase \in [Socks -> Phases] /\ link \in [Socks -> Links]
          /\ outcome \in [Calls -> Outcomes]
      BY DEF Init, Phases, Links, Outcomes
    <2> QED
      BY <2>1, <2>2, <2>3 DEF Init, TypeOK
  <1>2. WireOK /\ FramesInPlace
    BY EmptyFacts DEF Init, WireOK, FramesInPlace
  <1> QED
    BY <1>1, <1>2 DEF BaseInv

\* close() keeps the base invariant, whatever else happens in its step.
LEMMA ShutdownTypes ==
    ASSUME BaseInv, Shutdown
    PROVE  /\ destroyed' \in BOOLEAN /\ reconnectTimer' \in BOOLEAN
           /\ offlineQueue' = <<>> /\ socket' = None
           /\ outcome' \in [Calls -> Outcomes] /\ link' \in [Socks -> Links]
  BY DEF Shutdown, TimerAfterClose, RejectCalls, BaseInv, TypeOK, Outcomes, Links

\* A reply is taken off the connection: it answers a frame that was sent.
LEMMA TakeReplyTypes ==
    ASSUME BaseInv, NEW s \in Socks, TakeReply(s)
    PROVE  /\ recvd' \in [Socks -> Nat]
           /\ \A t \in Socks : recvd'[t] <= Len(replies[t])
           /\ Verdict(s) \in Verdicts /\ Answered(s) \in Frames
           /\ UNCHANGED <<watchCallbacks, watchSeq, replies, subs, execs,
                          reconnectAttempts, pushes>>
  <1>1. /\ recvd[s] \in Nat /\ recvd[s] < Len(replies[s]) /\ Len(replies[s]) <= Len(sent[s])
        /\ replies[s] \in Seq(Verdicts) /\ sent[s] \in Seq(Frames)
        /\ Len(replies[s]) \in Nat /\ Len(sent[s]) \in Nat
    BY LenProperties DEF TakeReply, BaseInv, TypeOK, WireOK
  <1>2. recvd[s] + 1 \in 1..Len(replies[s]) /\ recvd[s] + 1 \in 1..Len(sent[s])
    BY <1>1
  <1>3. Verdict(s) \in Verdicts /\ Answered(s) \in Frames
    BY <1>1, <1>2, ElementOfSeq DEF Verdict, Answered
  <1>4. /\ recvd' \in [Socks -> Nat]
        /\ \A t \in Socks : recvd'[t] <= Len(replies[t])
    BY <1>1 DEF TakeReply, BaseInv, TypeOK, WireOK
  <1> QED
    BY <1>3, <1>4 DEF TakeReply, watchVars, serverVars

\* Every step of the client, the network and the server keeps the base
\* invariant.
LEMMA BaseInvNext == BaseInv /\ [Next]_vars => BaseInv'
  <1> SUFFICES ASSUME BaseInv, [Next]_vars
               PROVE  BaseInv'
    OBVIOUS
  <1> USE DEF BaseInv
  <1>0. inflight \in Seq(Waiters) /\ Unframed(inflight)
    BY DEF TypeOK, FramesInPlace, Unframed
  <1>1. ASSUME NEW c \in Calls, Request(c)
        PROVE  BaseInv'
    <2>1. Frame(c, "data", None) \in Frames /\ Frame(c, "data", None) # None
          /\ Frame(c, "data", None).owner = c
      BY FrameTypes DEF Owners
    <2>2. Send(c, Frame(c, "data", None))
      BY <1>1 DEF Request
    <2>3. /\ inflight' \in Seq(Waiters) /\ Unframed(inflight')
          /\ offlineQueue' \in Seq(Waiters)
          /\ \A i \in DOMAIN offlineQueue' : offlineQueue'[i].frame # None
          /\ sent' \in [Socks -> Seq(Frames)]
          /\ \A s \in Socks : Len(sent[s]) <= Len(sent'[s])
          /\ outcome' \in [Calls -> Outcomes]
      BY <2>1, <2>2, SendTypes
    <2>4. FramesInPlace'
      BY <2>3 DEF FramesInPlace, Unframed
    <2>5. TypeOK'
      BY <1>1, <2>3 DEF Request, TypeOK, watchVars, lifeVars, dialVars, serverVars
    <2>6. WireOK'
      BY <1>1, <2>3, <2>5, LenProperties DEF Request, WireOK, TypeOK, serverVars
    <2> QED
      BY <2>4, <2>5, <2>6
  <1>2. ASSUME NEW c \in Calls, NEW k \in Keys, Watch(c, k)
        PROVE  BaseInv'
    <2>1. Frame(c, "watch", k) \in Frames /\ Frame(c, "watch", k) # None
          /\ Frame(c, "watch", k).owner = c
      BY FrameTypes DEF Owners
    <2>2. Send(c, Frame(c, "watch", k))
      BY <1>2 DEF Watch
    <2>3. /\ inflight' \in Seq(Waiters) /\ Unframed(inflight')
          /\ offlineQueue' \in Seq(Waiters)
          /\ \A i \in DOMAIN offlineQueue' : offlineQueue'[i].frame # None
          /\ sent' \in [Socks -> Seq(Frames)]
          /\ \A s \in Socks : Len(sent[s]) <= Len(sent'[s])
          /\ outcome' \in [Calls -> Outcomes]
      BY <2>1, <2>2, SendTypes
    <2>4. FramesInPlace'
      BY <2>3 DEF FramesInPlace, Unframed
    <2>5. watchSeq' \in Nat /\ watchCallbacks' \in [Keys -> Nat]
      BY <1>2, SMTT(30) DEF Watch, TypeOK, watchVars
    <2>6. TypeOK'
      BY <1>2, <2>3, <2>5 DEF Watch, TypeOK, lifeVars, dialVars, serverVars
    <2>7. WireOK'
      BY <1>2, <2>3, <2>6, LenProperties DEF Watch, WireOK, TypeOK, serverVars
    <2> QED
      BY <2>4, <2>6, <2>7
  <1>3. ASSUME NEW c \in Calls, NEW k \in Keys, Unwatch(c, k)
        PROVE  BaseInv'
    <2>1. Frame(c, "unwatch", k) \in Frames /\ Frame(c, "unwatch", k) # None
          /\ Frame(c, "unwatch", k).owner = c
      BY FrameTypes DEF Owners
    <2>2. /\ inflight' \in Seq(Waiters) /\ Unframed(inflight')
          /\ offlineQueue' \in Seq(Waiters)
          /\ \A i \in DOMAIN offlineQueue' : offlineQueue'[i].frame # None
          /\ sent' \in [Socks -> Seq(Frames)]
          /\ \A s \in Socks : Len(sent[s]) <= Len(sent'[s])
          /\ outcome' \in [Calls -> Outcomes]
      <3>1. CASE socket = None
        <4>1. \A s \in Socks : Len(sent[s]) <= Len(sent'[s])
          BY <1>3, <3>1, SentLengths DEF Unwatch
        <4> QED
          BY <1>0, <1>3, <3>1, <4>1
             DEF Unwatch, TypeOK, FramesInPlace, queueVars, Outcomes, Unframed
      <3>2. CASE socket # None
        BY <1>3, <3>2, <2>1, SendTypes DEF Unwatch
      <3> QED
        BY <3>1, <3>2
    <2>4. FramesInPlace'
      BY <2>2 DEF FramesInPlace, Unframed
    <2>5. watchCallbacks' \in [Keys -> Nat]
      BY <1>3 DEF Unwatch, TypeOK
    <2>6. TypeOK'
      BY <1>3, <2>2, <2>5 DEF Unwatch, TypeOK, lifeVars, dialVars, serverVars
    <2>7. WireOK'
      BY <1>3, <2>2, <2>6, LenProperties DEF Unwatch, WireOK, TypeOK, serverVars
    <2> QED
      BY <2>4, <2>6, <2>7
  <1>4. CASE Close
    <2>1. TypeOK'
      BY <1>4, ShutdownTypes, EmptySeq
         DEF Close, TypeOK, watchVars, dialVars, serverVars
    <2> QED
      BY <1>4, <2>1, ShutdownTypes
         DEF Close, FramesInPlace, WireOK, serverVars
  <1>5. CASE Connect \/ ReconnectTimer
    <2>1. StartConnect /\ reconnectTimer' \in BOOLEAN
      BY <1>5 DEF Connect, ReconnectTimer, TypeOK
    <2>2. phase' \in [Socks -> Phases]
      BY <2>1 DEF StartConnect, TypeOK, Phases
    <2> QED
      BY <2>1, <2>2 DEF StartConnect, TypeOK, WireOK, FramesInPlace, watchVars,
           queueVars, callVars, serverVars, wireVars
  <1>6. ASSUME NEW s \in Socks, ConnectOk(s)
        PROVE  BaseInv'
    <2>1. /\ inflight' \in Seq(Waiters) /\ Unframed(inflight')
          /\ offlineQueue' \in {offlineQueue, <<>>}
          /\ sent' \in [Socks -> Seq(Frames)]
          /\ \A t \in Socks : Len(sent[t]) <= Len(sent'[t])
          /\ outcome' = outcome
          /\ phase' \in [Socks -> Phases] /\ cursor' \in [Socks -> Nat]
      <3>1. CASE /\ WriteInflight(s, inflight, Frame(s, "auth", None))
                 /\ phase' = [phase EXCEPT ![s] = "auth"]
                 /\ UNCHANGED <<offlineQueue, cursor, outcome>>
        <4>1. Frame(s, "auth", None) \in Frames
          BY FrameTypes DEF Owners
        <4> QED
          BY <1>0, <3>1, <4>1, WriteTypes DEF TypeOK, Phases
      <3>2. CASE Reregister(s, s, inflight, 0)
        <4>1. s \in Socks \cup {None} /\ 0 \in Nat
          OBVIOUS
        <4> QED
          BY <1>0, <3>2, <4>1, ReregisterTypes
      <3> QED
        BY <1>6, <3>1, <3>2 DEF ConnectOk
    <2>2. reconnectAttempts' \in 0..AttemptCap
      BY <1>6, ConstantsAssumption DEF ConnectOk
    <2>3. link' \in [Socks -> Links] /\ socket' \in Socks
      BY <1>6 DEF ConnectOk, TypeOK, Links
    <2>4. offlineQueue' \in Seq(Waiters) /\ FramesInPlace'
      BY <2>1, EmptyFacts DEF TypeOK, FramesInPlace, Unframed
    <2>5. TypeOK'
      BY <1>6, <2>1, <2>2, <2>3, <2>4 DEF ConnectOk, TypeOK, watchVars, serverVars
    <2>6. WireOK'
      BY <1>6, <2>1, <2>5, LenProperties DEF ConnectOk, WireOK, TypeOK, serverVars
    <2> QED
      BY <2>4, <2>5, <2>6
  <1>7. ASSUME NEW s \in Socks, ConnectFail(s)
        PROVE  BaseInv'
    <2>1. /\ offlineQueue' \in {offlineQueue, <<>>}
          /\ outcome' \in [Calls -> Outcomes]
          /\ phase' \in [Socks -> Phases]
          /\ reconnectTimer' \in BOOLEAN
          /\ inflight' \in {inflight, <<>>}
      <3>1. s \in Owners
        BY DEF Owners
      <3>2. /\ Waiter(s, None) \in Waiters /\ Waiter(s, None).frame = None
            /\ <<Waiter(s, None)>> \in Seq(Waiters) /\ Unframed(<<Waiter(s, None)>>)
        BY <3>1, LoneWaiter
      <3>3. /\ Append(inflight, Waiter(s, None)) \in Seq(Waiters)
            /\ Unframed(Append(inflight, Waiter(s, None)))
        BY <1>0, <3>2, AppendFacts, LenProperties DEF Unframed
      <3>4. CASE socket = None
        BY <1>7, <3>2, <3>4, DropTypes DEF ConnectFail
      <3>5. CASE socket # None
        BY <1>7, <3>3, <3>5, DropTypes DEF ConnectFail
      <3> QED
        BY <3>4, <3>5
    <2>2. reconnectAttempts' \in 0..AttemptCap
      BY <1>7, ConstantsAssumption DEF ConnectFail, TypeOK
    <2>3. /\ offlineQueue' \in Seq(Waiters) /\ inflight' \in Seq(Waiters)
          /\ FramesInPlace'
      BY <2>1, KeptOrEmptied DEF BaseInv
    <2>4. TypeOK'
      BY <1>7, <2>1, <2>2, <2>3 DEF ConnectFail, TypeOK, watchVars, serverVars, wireVars
    <2>5. WireOK'
      BY <1>7 DEF ConnectFail, WireOK, serverVars, wireVars
    <2> QED
      BY <2>3, <2>4, <2>5
  <1>8. ASSUME NEW s \in Socks, ReplyIgnored(s) \/ ReplyToCall(s)
        PROVE  BaseInv'
    <2>1. TakeReply(s)
      BY <1>8 DEF ReplyIgnored, ReplyToCall
    <2>2. /\ recvd' \in [Socks -> Nat]
          /\ \A t \in Socks : recvd'[t] <= Len(replies[t])
          /\ Verdict(s) \in Verdicts /\ Answered(s) \in Frames
          /\ UNCHANGED <<watchCallbacks, watchSeq, replies, subs, execs,
                         reconnectAttempts, pushes>>
      BY <2>1, TakeReplyTypes
    <2>3. inflight' \in Seq(Waiters) /\ Unframed(inflight')
      <3>1. CASE inflight = <<>>
        BY <1>8, <3>1, EmptyFacts DEF ReplyIgnored, ReplyToCall, Expects, Unframed
      <3>2. CASE inflight # <<>>
        BY <1>0, <1>8, <3>2, TailFacts, LenProperties
           DEF ReplyIgnored, ReplyToCall, Unframed
      <3> QED
        BY <3>1, <3>2
    <2>4. outcome' \in [Calls -> Outcomes] /\ reply' \in [Calls -> Owners \cup {None}]
      <3>1. CASE ReplyIgnored(s)
        BY <3>1 DEF ReplyIgnored, callVars, TypeOK
      <3>2. CASE ReplyToCall(s)
        <4>1. Classified(Verdict(s)) \in Outcomes
          BY <2>2, ConstantsAssumption DEF Classified, Outcomes
        <4>2. Answered(s).owner \in Owners
          BY <2>2 DEF Frames
        <4> QED
          BY <3>2, <4>1, <4>2 DEF ReplyToCall, TypeOK
      <3> QED
        BY <1>8, <3>1, <3>2
    <2>5. UNCHANGED <<phase, cursor, socket, destroyed, reconnectTimer, offlineQueue,
                      link, sent>>
      BY <1>8 DEF ReplyIgnored, ReplyToCall, dialVars
    <2> QED
      BY <2>2, <2>3, <2>4, <2>5 DEF TypeOK, WireOK, FramesInPlace, Unframed
  <1>9. ASSUME NEW s \in Socks, NEW t \in Socks, ReplyToAuth(s, t) \/ ReplyToRereg(s, t)
        PROVE  BaseInv'
    <2>1. TakeReply(s) /\ inflight # <<>> /\ reply' = reply
      BY <1>9 DEF ReplyToAuth, ReplyToRereg, Expects
    <2>2. /\ recvd' \in [Socks -> Nat]
          /\ \A u \in Socks : recvd'[u] <= Len(replies[u])
          /\ UNCHANGED <<watchCallbacks, watchSeq, replies, subs, execs,
                         reconnectAttempts, pushes>>
      BY <2>1, TakeReplyTypes
    <2>3. Tail(inflight) \in Seq(Waiters) /\ Unframed(Tail(inflight))
      BY <1>0, <2>1, TailFacts, LenProperties DEF Unframed
    <2>4. /\ inflight' \in Seq(Waiters) /\ Unframed(inflight')
          /\ offlineQueue' \in {offlineQueue, <<>>}
          /\ sent' \in [Socks -> Seq(Frames)]
          /\ \A u \in Socks : Len(sent[u]) <= Len(sent'[u])
          /\ outcome' \in [Calls -> Outcomes]
          /\ phase' \in [Socks -> Phases] /\ cursor' \in [Socks -> Nat]
          /\ destroyed' \in BOOLEAN /\ reconnectTimer' \in BOOLEAN
          /\ socket' \in Socks \cup {None} /\ link' \in [Socks -> Links]
      <3>1. CASE /\ inflight' = Tail(inflight)
                 /\ phase' = [phase EXCEPT ![t] = "idle"]
                 /\ UNCHANGED <<socket, destroyed, reconnectTimer, offlineQueue, cursor,
                                outcome, link, sent>>
        <4>1. \A u \in Socks : Len(sent[u]) <= Len(sent'[u])
          BY <3>1, SentLengths
        <4> QED
          BY <2>3, <3>1, <4>1 DEF TypeOK, Phases, Unframed
      <3>2. CASE /\ \E p \in Nat : Reregister(t, socket, Tail(inflight), p)
                 /\ UNCHANGED <<socket, destroyed, reconnectTimer, link>>
        <4>1. PICK p \in Nat : Reregister(t, socket, Tail(inflight), p)
          BY <3>2
        <4>2. socket \in Socks \cup {None}
          BY DEF TypeOK
        <4>3. /\ inflight' \in Seq(Waiters) /\ Unframed(inflight')
              /\ offlineQueue' \in {offlineQueue, <<>>}
              /\ sent' \in [Socks -> Seq(Frames)]
              /\ \A u \in Socks : Len(sent[u]) <= Len(sent'[u])
              /\ outcome' = outcome
              /\ phase' \in [Socks -> Phases] /\ cursor' \in [Socks -> Nat]
          BY <2>3, <4>1, <4>2, ReregisterTypes
        <4> QED
          BY <3>2, <4>3 DEF TypeOK
      <3>3. CASE /\ Shutdown
                 /\ inflight' = Tail(inflight)
                 /\ phase' = [phase EXCEPT ![t] = "idle"]
                 /\ UNCHANGED <<cursor, sent>>
        <4>1. \A u \in Socks : Len(sent[u]) <= Len(sent'[u])
          BY <3>3, SentLengths
        <4> QED
          BY <2>3, <3>3, <4>1, ShutdownTypes DEF TypeOK, Phases, Unframed
      <3>4. cursor[t] \in Nat /\ 0 \in Nat
        BY DEF TypeOK
      <3> QED
        BY <1>9, <3>1, <3>2, <3>3, <3>4 DEF ReplyToAuth, ReplyToRereg
    <2>5. offlineQueue' \in Seq(Waiters) /\ FramesInPlace'
      BY <2>4, EmptyFacts DEF TypeOK, FramesInPlace, Unframed
    <2>6. TypeOK'
      BY <2>1, <2>2, <2>4, <2>5 DEF TypeOK
    <2>7. WireOK'
      BY <2>2, <2>4, <2>6, SentLengths, LenProperties DEF WireOK, TypeOK
    <2> QED
      BY <2>5, <2>6, <2>7
  <1>10. ASSUME NEW s \in Socks, ReceivePush(s)
         PROVE  BaseInv'
    <2>1. pushes' \in [Socks -> Seq(Keys)]
      BY <1>10, TailFacts DEF ReceivePush, TypeOK
    <2> QED
      BY <1>10, <2>1 DEF ReceivePush, TypeOK, WireOK, FramesInPlace, watchVars,
           lifeVars, queueVars, dialVars, callVars, serverVars
  <1>11. ASSUME NEW s \in Socks, ReceiveBadPush(s)
         PROVE  BaseInv'
    <2>1. pushes' \in [Socks -> Seq(Keys)]
      BY <1>11, TailFacts DEF ReceiveBadPush, TypeOK
    <2>2. /\ inflight' \in Seq(Waiters) /\ Unframed(inflight')
          /\ outcome' \in [Calls -> Outcomes] /\ phase' \in [Socks -> Phases]
      <3>1. CASE inflight = <<>>
        BY <1>0, <1>11, <3>1 DEF ReceiveBadPush, TypeOK, Unframed
      <3>2. CASE inflight # <<>>
        <4>0. Tail(inflight) \in Seq(Waiters) /\ Unframed(Tail(inflight))
          BY <1>0, <3>2, TailFacts, LenProperties DEF Unframed
        <4>1. inflight' \in Seq(Waiters) /\ Unframed(inflight')
          BY <1>11, <3>2, <4>0 DEF ReceiveBadPush, Unframed
        <4> QED
          BY <1>11, <3>2, <4>1
             DEF ReceiveBadPush, RejectCalls, RejectPhases, TypeOK, Outcomes, Phases
      <3> QED
        BY <3>1, <3>2
    <2> QED
      BY <1>11, <2>1, <2>2 DEF ReceiveBadPush, TypeOK, WireOK, FramesInPlace, Unframed,
           watchVars, lifeVars, serverVars
  <1>12. ASSUME NEW i \in DOMAIN inflight, RequestTimer(i)
         PROVE  BaseInv'
    <2>1. i \in 1..Len(inflight) /\ inflight[i] \in Waiters /\ inflight[i].frame = None
      BY <1>0, LenProperties, ElementOfSeq DEF Unframed
    <2>2. [inflight[i] EXCEPT !.settled = TRUE] \in Waiters
          /\ [inflight[i] EXCEPT !.settled = TRUE].frame = None
      BY <2>1 DEF Waiters
    <2>3. inflight' = [inflight EXCEPT ![i] = [inflight[i] EXCEPT !.settled = TRUE]]
      BY <1>12 DEF RequestTimer, TimedOut
    <2>4. inflight' \in Seq(Waiters) /\ Unframed(inflight')
      BY <1>0, <2>1, <2>2, <2>3, ExceptSeq, LenProperties DEF Unframed
    <2>5. outcome' \in [Calls -> Outcomes] /\ phase' \in [Socks -> Phases]
      BY <1>12 DEF RequestTimer, RejectCalls, RejectPhases, TypeOK, Outcomes, Phases
    <2> QED
      BY <1>12, <2>4, <2>5 DEF RequestTimer, TypeOK, WireOK, FramesInPlace, Unframed,
           watchVars, lifeVars, serverVars, wireVars
  <1>13. ASSUME NEW s \in Socks, SocketClosed(s)
         PROVE  BaseInv'
    <2>1. link' \in [Socks -> Links] /\ socket' = None
      BY <1>13 DEF SocketClosed, TypeOK, Links
    <2>2. /\ offlineQueue' \in {offlineQueue, <<>>} /\ inflight' \in {inflight, <<>>}
          /\ outcome' \in [Calls -> Outcomes] /\ phase' \in [Socks -> Phases]
          /\ reconnectTimer' \in BOOLEAN
      <3>1. CASE socket = None
        BY <1>13, <3>1 DEF SocketClosed, TypeOK
      <3>2. CASE socket # None
        BY <1>0, <1>13, <3>2, DropTypes DEF SocketClosed, InflightAfterLoss
      <3> QED
        BY <3>1, <3>2
    <2>3. /\ offlineQueue' \in Seq(Waiters) /\ inflight' \in Seq(Waiters)
          /\ FramesInPlace'
      BY <2>2, KeptOrEmptied DEF BaseInv
    <2> QED
      BY <1>13, <2>1, <2>2, <2>3 DEF SocketClosed, TypeOK, WireOK, watchVars, serverVars
  <1>14. ASSUME NEW s \in Socks, Serve(s)
         PROVE  BaseInv'
    <2>1. /\ Len(replies[s]) \in Nat /\ Len(sent[s]) \in Nat
          /\ Len(replies[s]) + 1 \in 1..Len(sent[s])
      BY <1>14, SentLengths DEF Serve
    <2>2. sent[s][Len(replies[s]) + 1] \in Frames
      BY <2>1, ElementOfSeq DEF TypeOK
    <2>3. PICK v \in Verdicts :
             /\ replies' = [replies EXCEPT ![s] = Append(@, v)]
             /\ subs' = [subs EXCEPT ![s] =
                   IF sent[s][Len(replies[s]) + 1].op = "watch" /\ v # "err"
                   THEN @ \cup {sent[s][Len(replies[s]) + 1].key}
                   ELSE IF sent[s][Len(replies[s]) + 1].op = "unwatch" /\ v # "err"
                   THEN @ \ {sent[s][Len(replies[s]) + 1].key}
                   ELSE @]
      BY <1>14 DEF Serve
    <2>4. /\ replies' \in [Socks -> Seq(Verdicts)]
          /\ \A t \in Socks : /\ Len(replies[t]) <= Len(replies'[t])
                              /\ Len(replies'[t]) <= Len(sent[t])
                              /\ Len(replies'[t]) \in Nat
      <3>1. replies[s] \in Seq(Verdicts)
        BY DEF TypeOK
      <3>2. Append(replies[s], v) \in Seq(Verdicts)
            /\ Len(Append(replies[s], v)) = Len(replies[s]) + 1
        BY <3>1, AppendFacts
      <3>3. replies' = [replies EXCEPT ![s] = Append(replies[s], v)]
        BY <2>3
      <3>4. replies' \in [Socks -> Seq(Verdicts)]
        BY <3>2, <3>3 DEF TypeOK
      <3>5. replies'[s] = Append(replies[s], v)
            /\ \A t \in Socks \ {s} : replies'[t] = replies[t]
        BY <3>3 DEF TypeOK
      <3>6. ASSUME NEW t \in Socks
            PROVE  /\ Len(replies[t]) <= Len(replies'[t])
                   /\ Len(replies'[t]) <= Len(sent[t])
                   /\ Len(replies'[t]) \in Nat
        <4>1. CASE t = s
          BY <2>1, <3>2, <3>5, <4>1
        <4>2. CASE t # s
          BY <3>5, <4>2, SentLengths DEF WireOK
        <4> QED
          BY <4>1, <4>2
      <3> QED
        BY <3>4, <3>6
    <2>5. execs' \in [Calls -> Nat]
      BY <1>14, SMTT(30) DEF Serve, TypeOK
    <2>6. subs' \in [Socks -> SUBSET Keys]
      BY <2>2, <2>3 DEF Frames, TypeOK
    <2>7. UNCHANGED <<watchCallbacks, watchSeq, destroyed, reconnectAttempts,
             reconnectTimer, inflight, offlineQueue, phase, cursor, outcome, reply,
             link, sent, recvd, pushes, socket>>
      BY <1>14 DEF Serve, watchVars, lifeVars, queueVars, dialVars, callVars, wireVars
    <2>8. TypeOK' /\ FramesInPlace'
      BY <2>4, <2>5, <2>6, <2>7 DEF TypeOK, FramesInPlace
    <2>9. WireOK'
      BY <2>4, <2>7, SentLengths DEF WireOK, TypeOK
    <2> QED
      BY <2>8, <2>9
  <1>15. ASSUME NEW s \in Socks, NEW k \in Keys, Push(s, k)
         PROVE  BaseInv'
    <2>1. pushes' \in [Socks -> Seq(Keys)]
      BY <1>15, AppendFacts DEF Push, TypeOK
    <2> QED
      BY <1>15, <2>1 DEF Push, TypeOK, WireOK, FramesInPlace, watchVars, lifeVars,
           queueVars, dialVars, callVars, serverVars
  <1>16. ASSUME NEW s \in Socks, ServerForgets(s)
         PROVE  BaseInv'
    <2>1. /\ link' \in [Socks -> Links] /\ sent' \in [Socks -> Seq(Frames)]
          /\ replies' \in [Socks -> Seq(Verdicts)] /\ recvd' \in [Socks -> Nat]
          /\ pushes' \in [Socks -> Seq(Keys)] /\ subs' \in [Socks -> SUBSET Keys]
      BY <1>16, EmptyFacts DEF ServerForgets, TypeOK, Links
    <2>2. WireOK'
      BY <1>16, EmptyFacts DEF ServerForgets, TypeOK, WireOK
    <2> QED
      BY <1>16, <2>1, <2>2 DEF ServerForgets, TypeOK, FramesInPlace, watchVars,
           lifeVars, queueVars, dialVars, callVars
  <1>17. CASE UNCHANGED vars
    BY <1>17 DEF vars, TypeOK, WireOK, FramesInPlace, watchVars, lifeVars, queueVars,
         dialVars, callVars, serverVars, wireVars
  <1> QED
    BY <1>1, <1>2, <1>3, <1>4, <1>5, <1>6, <1>7, <1>8, <1>9, <1>10, <1>11, <1>12,
       <1>13, <1>14, <1>15, <1>16, <1>17 DEF Next

\* Every reachable state is well typed, for every choice of options, calls,
\* keys and sockets.
THEOREM TypeCorrect == Spec => []TypeOK
  <1>1. BaseInv => TypeOK
    BY DEF BaseInv
  <1> QED
    BY <1>1, BaseInvInit, BaseInvNext, PTL DEF Spec

\* The waiters in flight never hold a frame and the queued ones always do: the
\* re-queueing branch of handleDisconnect() and the "Should not happen" branch
\* of flushOfflineQueue() are dead code, overlapping attempts included.
THEOREM FramesStayInPlace == Spec => []FramesInPlace
  <1>1. BaseInv => FramesInPlace
    BY DEF BaseInv
  <1> QED
    BY <1>1, BaseInvInit, BaseInvNext, PTL DEF Spec

-----------------------------------------------------------------------------
(* Every call is written and executed at most once.  The invariant follows  *)
(* a call from the queue to the wire: what is queued was never written, a   *)
(* call has one waiter at a time, and the server has executed a frame if    *)
(* and only if it has answered it.                                          *)

\* No two open waiters of q belong to the same call.
Distinct(q) ==
    \A i, j \in DOMAIN q :
        /\ ~q[i].settled /\ ~q[j].settled
        /\ q[i].owner = q[j].owner /\ q[i].owner \in Calls
        => i = j

\* The request of c has never been written.
Fresh(c) ==
    /\ execs[c] = 0
    /\ \A s \in Socks : \A i \in DOMAIN sent[s] : sent[s][i].owner # c

\* An open waiter in q is that of a pending call.
WaitersOK(q) ==
    /\ Distinct(q)
    /\ \A c \in Calls : Awaits(q, c) => outcome[c] = "pending"

\* What is queued has never been written, and is not in flight in q as well.
QueueOK(q) ==
    /\ Distinct(offlineQueue)
    /\ \A i \in DOMAIN offlineQueue :
         /\ ~offlineQueue[i].settled /\ offlineQueue[i].owner \in Calls
         /\ offlineQueue[i].frame.owner = offlineQueue[i].owner
    /\ \A c \in Calls : Awaits(offlineQueue, c) =>
         outcome[c] = "pending" /\ Fresh(c) /\ ~Awaits(q, c)

\* A call is written at most once, and executed if and only if the frame has
\* been answered.
WrittenOnce ==
    /\ \A s, t \in Socks : \A i \in DOMAIN sent[s] : \A j \in DOMAIN sent[t] :
         sent[s][i].owner = sent[t][j].owner /\ sent[s][i].owner \in Calls
           => s = t /\ i = j
    /\ \A s \in Socks : \A i \in DOMAIN sent[s] :
         sent[s][i].owner \in Calls =>
            execs[sent[s][i].owner] = (IF i <= Len(replies[s]) THEN 1 ELSE 0)

\* A call that was not made or was turned away has never been written.
TurnedAway ==
    \A c \in Calls : outcome[c] \in {"idle", "refused", "skipped"} => Fresh(c)

OnceInv ==
    /\ WaitersOK(inflight) /\ QueueOK(inflight)
    /\ WrittenOnce /\ TurnedAway /\ AtMostOnce

-----------------------------------------------------------------------------
\* Who waits, and that nobody waits twice, after the head has gone.
LEMMA TailOnce ==
    ASSUME NEW q \in Seq(Waiters), q # <<>>, Distinct(q)
    PROVE  /\ Distinct(Tail(q))
           /\ \A o : Awaits(Tail(q), o) => Awaits(q, o)
           /\ Head(q).owner \in Calls /\ ~Head(q).settled => ~Awaits(Tail(q), Head(q).owner)
  <1>1. /\ Len(q) \in Nat \ {0} /\ Head(q) = q[1] /\ DOMAIN q = 1..Len(q)
        /\ DOMAIN Tail(q) = 1..Len(q) - 1
        /\ \A j \in 1..Len(q) - 1 : Tail(q)[j] = q[j + 1]
    BY TailFacts, LenProperties
  <1>2. \A j \in 1..Len(q) - 1 : j + 1 \in DOMAIN q /\ j + 1 # 1
    BY <1>1
  <1>3. 1 \in DOMAIN q
    BY <1>1
  <1>4. Distinct(Tail(q))
    BY <1>1, <1>2 DEF Distinct
  <1>5. \A o : Awaits(Tail(q), o) => Awaits(q, o)
    BY <1>1, <1>2 DEF Awaits
  <1>6. ASSUME Head(q).owner \in Calls, ~Head(q).settled, Awaits(Tail(q), Head(q).owner)
        PROVE  FALSE
    <2>1. PICK j \in 1..Len(q) - 1 : Tail(q)[j].owner = Head(q).owner /\ ~Tail(q)[j].settled
      BY <1>1, <1>6 DEF Awaits
    <2>2. j + 1 = 1
      BY <1>1, <1>2, <1>3, <1>6, <2>1 DEF Distinct
    <2> QED BY <2>2
  <1> QED BY <1>4, <1>5, <1>6

\* The same when waiters are added behind.
LEMMA ConcatOnce ==
    ASSUME NEW q \in Seq(Waiters), NEW ws \in Seq(Waiters), Distinct(q), Distinct(ws),
           \A c \in Calls : ~(Awaits(q, c) /\ Awaits(ws, c))
    PROVE  /\ Distinct(q \o ws)
           /\ \A o : Awaits(q \o ws, o) => Awaits(q, o) \/ Awaits(ws, o)
  <1>1. /\ Len(q) \in Nat /\ Len(ws) \in Nat
        /\ DOMAIN q = 1..Len(q) /\ DOMAIN ws = 1..Len(ws)
        /\ DOMAIN (q \o ws) = 1..Len(q) + Len(ws)
        /\ \A j \in 1..Len(q) + Len(ws) :
             (q \o ws)[j] = IF j <= Len(q) THEN q[j] ELSE ws[j - Len(q)]
    BY ConcatProperties, LenProperties
  <1>2. ASSUME NEW j \in DOMAIN (q \o ws)
        PROVE  \/ j \in DOMAIN q /\ (q \o ws)[j] = q[j]
               \/ j - Len(q) \in DOMAIN ws /\ (q \o ws)[j] = ws[j - Len(q)]
    <2>1. CASE j <= Len(q)
      BY <1>1, <2>1
    <2>2. CASE j > Len(q)
      <3>1. j - Len(q) \in 1..Len(ws)
        BY <1>1, <2>2
      <3> QED BY <1>1, <2>2, <3>1
    <2> QED BY <1>1, <2>1, <2>2
  <1>3. \A o : Awaits(q \o ws, o) => Awaits(q, o) \/ Awaits(ws, o)
    BY <1>2 DEF Awaits
  <1>4. ASSUME NEW i \in DOMAIN (q \o ws), NEW j \in DOMAIN (q \o ws),
               ~(q \o ws)[i].settled, ~(q \o ws)[j].settled,
               (q \o ws)[i].owner = (q \o ws)[j].owner, (q \o ws)[i].owner \in Calls
        PROVE  i = j
    <2>1. CASE j \in DOMAIN q /\ (q \o ws)[j] = q[j] /\ i \in DOMAIN q /\ (q \o ws)[i] = q[i]
      BY <1>4, <2>1 DEF Distinct
    <2>2. CASE /\ j - Len(q) \in DOMAIN ws /\ (q \o ws)[j] = ws[j - Len(q)]
               /\ i - Len(q) \in DOMAIN ws /\ (q \o ws)[i] = ws[i - Len(q)]
      <3>1. i - Len(q) = j - Len(q)
        BY <1>4, <2>2 DEF Distinct
      <3> QED BY <1>1, <3>1
    <2>3. CASE /\ j \in DOMAIN q /\ (q \o ws)[j] = q[j]
               /\ i - Len(q) \in DOMAIN ws /\ (q \o ws)[i] = ws[i - Len(q)]
      BY <1>4, <2>3 DEF Awaits
    <2>4. CASE /\ i \in DOMAIN q /\ (q \o ws)[i] = q[i]
               /\ j - Len(q) \in DOMAIN ws /\ (q \o ws)[j] = ws[j - Len(q)]
      BY <1>4, <2>4 DEF Awaits
    <2> QED BY <1>2, <1>4, <2>1, <2>2, <2>3, <2>4
  <1>5. Distinct(q \o ws)
    BY <1>4 DEF Distinct
  <1> QED BY <1>3, <1>5

\* A timed-out waiter does not wait any more, and the others wait as before.
LEMMA SettleOnce ==
    ASSUME NEW q \in Seq(Waiters), NEW i \in DOMAIN q, Distinct(q), ~q[i].settled
    PROVE  /\ Distinct([q EXCEPT ![i].settled = TRUE])
           /\ \A o : Awaits([q EXCEPT ![i].settled = TRUE], o) => Awaits(q, o)
           /\ q[i].owner \in Calls =>
                ~Awaits([q EXCEPT ![i].settled = TRUE], q[i].owner)
  <1> DEFINE p == [q EXCEPT ![i].settled = TRUE]
  <1>1. q[i] \in Waiters /\ DOMAIN q = 1..Len(q)
    BY LenProperties, ElementOfSeq
  <1>2. /\ DOMAIN p = DOMAIN q
        /\ \A j \in DOMAIN q : p[j].owner = q[j].owner
        /\ p[i].settled /\ \A j \in DOMAIN q : j # i => p[j] = q[j]
    BY <1>1 DEF Waiters
  <1> HIDE DEF p
  <1>3. Distinct(p) /\ \A o : Awaits(p, o) => Awaits(q, o)
    BY <1>2 DEF Distinct, Awaits
  <1>4. q[i].owner \in Calls => ~Awaits(p, q[i].owner)
    BY <1>2 DEF Distinct, Awaits
  <1> QED BY <1>3, <1>4 DEF p

\* An empty list, and a list of one waiter.
LEMMA ShortOnce ==
    /\ Distinct(<<>>) /\ \A o : ~Awaits(<<>>, o)
    /\ \A w \in Waiters : /\ Distinct(<<w>>)
                          /\ \A o : Awaits(<<w>>, o) <=> w.owner = o /\ ~w.settled
  BY EmptyFacts DEF Distinct, Awaits

-----------------------------------------------------------------------------
\* What OnceInv says of the queue survives if the queue is kept or dropped.
LEMMA QueueShape ==
    ASSUME OnceInv, offlineQueue' \in {offlineQueue, <<>>}
    PROVE  /\ Distinct(offlineQueue')
           /\ \A i \in DOMAIN offlineQueue' :
                /\ ~offlineQueue'[i].settled /\ offlineQueue'[i].owner \in Calls
                /\ offlineQueue'[i].frame.owner = offlineQueue'[i].owner
           /\ \A o : Awaits(offlineQueue', o) => Awaits(offlineQueue, o)
  <1>1. CASE offlineQueue' = offlineQueue
    BY <1>1 DEF OnceInv, QueueOK
  <1>2. CASE offlineQueue' = <<>>
    BY <1>2, ShortOnce, EmptyFacts
  <1> QED BY <1>1, <1>2

\* A step that writes nothing and settles some of the pending calls.
LEMMA SettleStep ==
    ASSUME OnceInv, UNCHANGED <<sent, replies, execs>>,
           Distinct(inflight'), \A c \in Calls : Awaits(inflight', c) => Awaits(inflight, c),
           offlineQueue' \in {offlineQueue, <<>>},
           \A c \in Calls : outcome'[c] # outcome[c] =>
              /\ ~Awaits(inflight', c) /\ ~Awaits(offlineQueue', c)
              /\ outcome'[c] \in {"idle", "refused", "skipped"} => Fresh(c)
    PROVE  OnceInv'
  <1> USE DEF OnceInv
  <1>1. \A c \in Calls : Fresh(c) => Fresh(c)'
    BY DEF Fresh
  <1>2. WaitersOK(inflight)'
    BY DEF WaitersOK
  <1>3. QueueOK(inflight)'
    BY <1>1, QueueShape DEF QueueOK
  <1>4. WrittenOnce' /\ AtMostOnce'
    BY DEF WrittenOnce, AtMostOnce
  <1>5. TurnedAway'
    BY <1>1 DEF TurnedAway, QueueOK
  <1> QED BY <1>2, <1>3, <1>4, <1>5

\* Frames that belong to nobody's call, or to calls not written so far.
LEMMA WriteOnce ==
    ASSUME BaseInv, WrittenOnce, NEW sk \in Socks, NEW fs \in Seq(Frames),
           sent' = [sent EXCEPT ![sk] = @ \o fs], UNCHANGED <<replies, execs>>,
           \A i \in 1..Len(fs) : fs[i].owner \in Calls => Fresh(fs[i].owner),
           \A i, j \in 1..Len(fs) :
              fs[i].owner = fs[j].owner /\ fs[i].owner \in Calls => i = j
    PROVE  /\ WrittenOnce'
           /\ \A c \in Calls : Fresh(c) /\ (\A i \in 1..Len(fs) : fs[i].owner # c) => Fresh(c)'
  <1> DEFINE n == Len(sent[sk])
  <1>0. sent \in [Socks -> Seq(Frames)] /\ sent[sk] \in Seq(Frames)
    BY DEF BaseInv, TypeOK
  <1>1. /\ n \in Nat /\ Len(fs) \in Nat /\ DOMAIN sent[sk] = 1..n
        /\ DOMAIN (sent[sk] \o fs) = 1..n + Len(fs)
        /\ \A i \in 1..n + Len(fs) :
             (sent[sk] \o fs)[i] = IF i <= n THEN sent[sk][i] ELSE fs[i - n]
    BY <1>0, ConcatProperties, LenProperties
  <1>2. /\ sent'[sk] = sent[sk] \o fs
        /\ \A s \in Socks : s # sk => sent'[s] = sent[s]
    BY <1>0
  <1>3. ASSUME NEW s \in Socks, NEW i \in DOMAIN sent'[s]
        PROVE  \/ i \in DOMAIN sent[s] /\ sent'[s][i] = sent[s][i]
               \/ s = sk /\ i > n /\ i \in Nat /\ i - n \in 1..Len(fs) /\ sent'[s][i] = fs[i - n]
    <2>1. CASE s # sk
      BY <1>2, <1>3, <2>1
    <2>2. CASE s = sk /\ i <= n
      <3>1. i \in 1..n /\ i \in 1..n + Len(fs)
        BY <1>1, <1>2, <1>3, <2>2
      <3> QED BY <1>1, <1>2, <2>2, <3>1
    <2>3. CASE s = sk /\ ~(i <= n)
      <3>1. i \in 1..n + Len(fs) /\ i > n /\ i - n \in 1..Len(fs) /\ i \in Nat
        BY <1>1, <1>2, <1>3, <2>3
      <3> QED BY <1>1, <1>2, <2>3, <3>1
    <2> QED BY <2>1, <2>2, <2>3
  <1>4. \A s \in Socks : \A i \in DOMAIN sent[s] : sent[s][i].owner \in Calls => ~Fresh(sent[s][i].owner)
    BY DEF Fresh
  <1>5. n >= Len(replies[sk]) /\ Len(replies[sk]) \in Nat
    BY SentLengths DEF BaseInv, WireOK
  <1>6. ASSUME NEW s \in Socks, NEW t \in Socks, NEW i \in DOMAIN sent'[s], NEW j \in DOMAIN sent'[t],
               sent'[s][i].owner = sent'[t][j].owner, sent'[s][i].owner \in Calls
        PROVE  s = t /\ i = j
    <2>1. CASE /\ i \in DOMAIN sent[s] /\ sent'[s][i] = sent[s][i]
               /\ j \in DOMAIN sent[t] /\ sent'[t][j] = sent[t][j]
      BY <1>6, <2>1 DEF WrittenOnce
    <2>2. CASE /\ s = sk /\ i - n \in 1..Len(fs) /\ sent'[s][i] = fs[i - n] /\ i \in Nat
               /\ t = sk /\ j - n \in 1..Len(fs) /\ sent'[t][j] = fs[j - n] /\ j \in Nat
      <3>1. i - n = j - n
        BY <1>6, <2>2
      <3> QED BY <1>1, <2>2, <3>1
    <2>3. CASE /\ i \in DOMAIN sent[s] /\ sent'[s][i] = sent[s][i]
               /\ j - n \in 1..Len(fs) /\ sent'[t][j] = fs[j - n]
      BY <1>4, <1>6, <2>3
    <2>4. CASE /\ j \in DOMAIN sent[t] /\ sent'[t][j] = sent[t][j]
               /\ i - n \in 1..Len(fs) /\ sent'[s][i] = fs[i - n]
      BY <1>4, <1>6, <2>4
    <2> QED BY <1>3, <2>1, <2>2, <2>3, <2>4
  <1>7. ASSUME NEW s \in Socks, NEW i \in DOMAIN sent'[s], sent'[s][i].owner \in Calls
        PROVE  execs[sent'[s][i].owner] = (IF i <= Len(replies[s]) THEN 1 ELSE 0)
    <2>1. CASE i \in DOMAIN sent[s] /\ sent'[s][i] = sent[s][i]
      BY <1>7, <2>1 DEF WrittenOnce
    <2>2. CASE s = sk /\ i > n /\ i \in Nat /\ i - n \in 1..Len(fs) /\ sent'[s][i] = fs[i - n]
      <3>1. execs[sent'[s][i].owner] = 0
        BY <1>7, <2>2 DEF Fresh
      <3>2. ~(i <= Len(replies[s]))
        BY <1>1, <1>5, <2>2
      <3> QED BY <3>1, <3>2
    <2> QED BY <1>3, <2>1, <2>2
  <1>8. WrittenOnce'
    BY <1>6, <1>7 DEF WrittenOnce
  <1>9. ASSUME NEW c \in Calls, Fresh(c), \A i \in 1..Len(fs) : fs[i].owner # c
        PROVE  Fresh(c)'
    BY <1>3, <1>9 DEF Fresh
  <1> QED BY <1>8, <1>9

\* A step that writes frames and puts their waiters in flight behind q.
LEMMA WriteStep ==
    ASSUME BaseInv, OnceInv, UNCHANGED <<replies, execs>>,
           NEW q \in Seq(Waiters), Distinct(q),
           \A c \in Calls : Awaits(q, c) => Awaits(inflight, c),
           NEW sk \in Socks, NEW ws \in Seq(Waiters), NEW fs \in Seq(Frames), Len(ws) = Len(fs),
           \A i \in 1..Len(fs) : ws[i].owner = fs[i].owner /\ ~ws[i].settled,
           inflight' = q \o ws, sent' = [sent EXCEPT ![sk] = @ \o fs],
           offlineQueue' \in {offlineQueue, <<>>},
           Distinct(ws),
           \A c \in Calls : Awaits(ws, c) =>
              outcome'[c] = "pending" /\ Fresh(c) /\ ~Awaits(q, c) /\ ~Awaits(offlineQueue', c),
           \A c \in Calls : outcome'[c] # outcome[c] => outcome[c] = "idle" /\ outcome'[c] = "pending"
    PROVE  OnceInv'
  <1> USE DEF OnceInv
  <1>1. DOMAIN ws = 1..Len(fs)
    BY LenProperties
  <1>2. \A i \in 1..Len(fs) : Awaits(ws, fs[i].owner)
    BY <1>1 DEF Awaits
  <1>3. \A i \in 1..Len(fs) : fs[i].owner \in Calls => Fresh(fs[i].owner)
    BY <1>2
  <1>4. \A i, j \in 1..Len(fs) : fs[i].owner = fs[j].owner /\ fs[i].owner \in Calls => i = j
    BY <1>1 DEF Distinct
  <1>5. /\ WrittenOnce'
        /\ \A c \in Calls : Fresh(c) /\ (\A i \in 1..Len(fs) : fs[i].owner # c) => Fresh(c)'
    BY <1>3, <1>4, WriteOnce
  <1>6. \A c \in Calls : Fresh(c) /\ ~Awaits(ws, c) => Fresh(c)'
    BY <1>2, <1>5
  <1>7. Distinct(inflight') /\ \A o : Awaits(inflight', o) => Awaits(q, o) \/ Awaits(ws, o)
    BY ConcatOnce
  <1>8. WaitersOK(inflight)'
    BY <1>7 DEF WaitersOK
  <1>9. QueueOK(inflight)'
    BY <1>6, <1>7, QueueShape DEF QueueOK
  <1>10. TurnedAway' /\ AtMostOnce'
    BY <1>6 DEF TurnedAway, AtMostOnce
  <1> QED BY <1>5, <1>8, <1>9, <1>10

-----------------------------------------------------------------------------
\* A call that is made is written, queued or refused.
LEMMA SendOnce ==
    ASSUME BaseInv, OnceInv, NEW c \in Calls, outcome[c] = "idle",
           NEW f \in Frames, f # None, f.owner = c, Send(c, f), UNCHANGED <<replies, execs>>
    PROVE  OnceInv'
  <1>0. /\ outcome \in [Calls -> Outcomes] /\ offlineQueue \in Seq(Waiters)
        /\ inflight \in Seq(Waiters)
    BY DEF BaseInv, TypeOK
  <1>1. Fresh(c) /\ ~Awaits(inflight, c) /\ ~Awaits(offlineQueue, c) /\ Distinct(inflight)
    BY DEF OnceInv, TurnedAway, WaitersOK, QueueOK
  <1>2. CASE /\ outcome' = [outcome EXCEPT ![c] = "refused"]
             /\ UNCHANGED <<queueVars, sent>>
    BY <1>0, <1>1, <1>2, SettleStep DEF queueVars
  <1>3. CASE /\ offlineQueue' = Append(offlineQueue, Waiter(c, f))
             /\ outcome' = [outcome EXCEPT ![c] = "pending"]
             /\ UNCHANGED <<inflight, sent>>
    <2> DEFINE w == Waiter(c, f)
    <2>0. c \in Owners /\ f \in Frames \cup {None}
      BY DEF Owners
    <2>1. w \in Waiters /\ w.owner = c /\ ~w.settled /\ w.frame = f
      BY <2>0, WaiterTypes
    <2>2. Distinct(<<w>>) /\ (\A o : Awaits(<<w>>, o) <=> o = c) /\ <<w>> \in Seq(Waiters)
      BY <2>1, ShortOnce
    <2> HIDE DEF w
    <2>3. /\ offlineQueue' = offlineQueue \o <<w>>
          /\ DOMAIN offlineQueue = 1..Len(offlineQueue) /\ Len(offlineQueue) \in Nat
          /\ DOMAIN offlineQueue' = 1..Len(offlineQueue) + 1
          /\ \A i \in 1..Len(offlineQueue) : offlineQueue'[i] = offlineQueue[i]
          /\ offlineQueue'[Len(offlineQueue) + 1] = w
      BY <1>0, <1>3, <2>1, AppendIsConcat, AppendFacts, LenProperties DEF w
    <2>4. /\ Distinct(offlineQueue')
          /\ \A o : Awaits(offlineQueue', o) => Awaits(offlineQueue, o) \/ o = c
      BY <1>0, <1>1, <2>2, <2>3, ConcatOnce DEF OnceInv, QueueOK
    <2>5. \A i \in DOMAIN offlineQueue' :
            \/ i \in DOMAIN offlineQueue /\ offlineQueue'[i] = offlineQueue[i]
            \/ offlineQueue'[i] = w
      BY <2>3
    <2>6. \A i \in DOMAIN offlineQueue' :
            /\ ~offlineQueue'[i].settled /\ offlineQueue'[i].owner \in Calls
            /\ offlineQueue'[i].frame.owner = offlineQueue'[i].owner
      BY <2>1, <2>5 DEF OnceInv, QueueOK
    <2>7. outcome'[c] = "pending" /\ \A d \in Calls : d # c => outcome'[d] = outcome[d]
      BY <1>0, <1>3
    <2>8. UNCHANGED <<inflight, sent, replies, execs>>
      BY <1>3
    <2>9. \A d \in Calls : Fresh(d) => Fresh(d)'
      BY <2>8 DEF Fresh
    <2>10. WaitersOK(inflight)'
      BY <1>1, <2>7, <2>8 DEF OnceInv, WaitersOK
    <2>11. QueueOK(inflight)'
      BY <1>1, <2>4, <2>6, <2>7, <2>8, <2>9 DEF OnceInv, QueueOK
    <2>12. TurnedAway'
      BY <2>7, <2>9 DEF OnceInv, TurnedAway
    <2>13. WrittenOnce' /\ AtMostOnce'
      BY <2>8 DEF OnceInv, WrittenOnce, AtMostOnce
    <2> QED BY <2>10, <2>11, <2>12, <2>13 DEF OnceInv
  <1>4. CASE /\ socket # None
             /\ WriteInflight(socket, inflight, f)
             /\ outcome' = [outcome EXCEPT ![c] = "pending"]
             /\ UNCHANGED offlineQueue
    <2> DEFINE w == Waiter(c, None)
    <2>1. w \in Waiters /\ w.owner = c /\ ~w.settled
      BY WaiterTypes DEF Owners
    <2>2. Distinct(<<w>>) /\ (\A o : Awaits(<<w>>, o) <=> o = c)
      BY <2>1, ShortOnce
    <2>3. socket \in Socks /\ sent \in [Socks -> Seq(Frames)]
      BY <1>4 DEF BaseInv, TypeOK
    <2>4. /\ inflight' = inflight \o <<w>> /\ sent' = [sent EXCEPT ![socket] = @ \o <<f>>]
      BY <1>0, <1>4, <2>1, <2>3, AppendIsConcat, ZenonT(60) DEF WriteInflight
    <2> HIDE DEF w
    <2>5. /\ <<w>> \in Seq(Waiters) /\ <<f>> \in Seq(Frames) /\ Len(<<w>>) = Len(<<f>>)
          /\ \A i \in 1..Len(<<f>>) : <<w>>[i].owner = <<f>>[i].owner /\ ~<<w>>[i].settled
      BY <2>1
    <2>6. \A d \in Calls : outcome'[d] # outcome[d] => outcome[d] = "idle" /\ outcome'[d] = "pending"
      BY <1>0, <1>4
    <2>7. outcome'[c] = "pending"
      BY <1>0, <1>4
    <2>8. offlineQueue' \in {offlineQueue, <<>>}
      BY <1>4
    <2>9. \A d \in Calls : Awaits(<<w>>, d) =>
             /\ outcome'[d] = "pending" /\ Fresh(d) /\ ~Awaits(inflight, d)
             /\ ~Awaits(offlineQueue', d)
      BY <1>1, <1>4, <2>2, <2>7
    <2> QED BY <1>0, <1>1, <2>2, <2>3, <2>4, <2>5, <2>6, <2>8, <2>9, WriteStep
  <1> QED BY <1>2, <1>3, <1>4 DEF Send

\* A frame of a connection attempt is written, behind q.
LEMMA SockWriteOnce ==
    ASSUME BaseInv, OnceInv, NEW s \in Socks, NEW sk \in Socks,
           NEW f \in Frames, f.owner = s,
           NEW q \in Seq(Waiters), Distinct(q),
           \A c \in Calls : Awaits(q, c) => Awaits(inflight, c),
           WriteInflight(sk, q, f), UNCHANGED <<offlineQueue, outcome, replies, execs>>
    PROVE  OnceInv'
  <1> DEFINE w == Waiter(s, None)
  <1>1. w \in Waiters /\ w.owner = s /\ ~w.settled /\ s \notin Calls
    BY WaiterTypes, ConstantsAssumption DEF Owners
  <1>2. Distinct(<<w>>) /\ (\A o : Awaits(<<w>>, o) <=> o = s)
    BY <1>1, ShortOnce
  <1>3. sent \in [Socks -> Seq(Frames)]
    BY DEF BaseInv, TypeOK
  <1>4. inflight' = q \o <<w>> /\ sent' = [sent EXCEPT ![sk] = @ \o <<f>>]
    BY <1>1, <1>3, AppendIsConcat DEF WriteInflight
  <1> HIDE DEF w
  <1>5. /\ <<w>> \in Seq(Waiters) /\ <<f>> \in Seq(Frames) /\ Len(<<w>>) = Len(<<f>>)
        /\ \A i \in 1..Len(<<f>>) : <<w>>[i].owner = <<f>>[i].owner /\ ~<<w>>[i].settled
    BY <1>1
  <1>6. \A d \in Calls : ~Awaits(<<w>>, d)
    BY <1>1, <1>2
  <1> QED BY <1>2, <1>4, <1>5, <1>6, WriteStep

\* A flush writes what was queued, and only that.
LEMMA FlushOnce ==
    ASSUME BaseInv, OnceInv, NEW sk \in Socks,
           NEW q \in Seq(Waiters), Distinct(q),
           \A c \in Calls : Awaits(q, c) => Awaits(inflight, c),
           FlushOfflineQueue(sk, q), UNCHANGED <<replies, execs>>
    PROVE  OnceInv'
  <1>1. PICK ws \in Seq(Waiters), fs \in Seq(Frames) :
             /\ Len(ws) = Len(offlineQueue) /\ Len(fs) = Len(offlineQueue)
             /\ \A i \in 1..Len(offlineQueue) :
                  /\ ws[i].frame = None /\ ws[i].owner = offlineQueue[i].owner
                  /\ ws[i].settled = offlineQueue[i].settled
                  /\ fs[i] = offlineQueue[i].frame
             /\ inflight' = q \o ws
             /\ sent' = [sent EXCEPT ![sk] = @ \o fs]
             /\ offlineQueue' = <<>>
             /\ outcome' = outcome
    BY FlushShape
  <1>2. /\ DOMAIN offlineQueue = 1..Len(offlineQueue) /\ DOMAIN ws = 1..Len(offlineQueue)
    BY <1>1, LenProperties DEF BaseInv, TypeOK
  <1>3. \A i \in 1..Len(fs) : ws[i].owner = fs[i].owner /\ ~ws[i].settled
    BY <1>1, <1>2 DEF OnceInv, QueueOK
  <1>4. Distinct(ws)
    BY <1>1, <1>2 DEF OnceInv, QueueOK, Distinct
  <1>5. \A c \in Calls : Awaits(ws, c) => Awaits(offlineQueue, c)
    BY <1>1, <1>2 DEF Awaits
  <1>6. \A c \in Calls : ~Awaits(offlineQueue', c)
    BY <1>1, ShortOnce
  <1>7. \A c \in Calls : Awaits(ws, c) =>
           outcome'[c] = "pending" /\ Fresh(c) /\ ~Awaits(q, c) /\ ~Awaits(offlineQueue', c)
    BY <1>1, <1>5, <1>6 DEF OnceInv, QueueOK
  <1>8. Len(ws) = Len(fs) /\ offlineQueue' \in {offlineQueue, <<>>}
    BY <1>1
  <1> QED BY <1>1, <1>3, <1>4, <1>7, <1>8, WriteStep

\* What doConnect() does from the re-registration of watches on.
LEMMA ReregisterOnce ==
    ASSUME BaseInv, OnceInv, NEW s \in Socks, NEW sk \in Socks \cup {None},
           NEW q \in Seq(Waiters), Distinct(q),
           \A c \in Calls : Awaits(q, c) => Awaits(inflight, c), NEW p,
           Reregister(s, sk, q, p), UNCHANGED <<replies, execs>>
    PROVE  OnceInv' /\ outcome' = outcome
  <1>1. CASE /\ sk # None
             /\ \E k \in RemainingWatches(p) : WriteInflight(sk, q, Frame(s, "watch", k))
             /\ UNCHANGED <<offlineQueue, outcome>>
    <2>1. PICK k \in Keys : WriteInflight(sk, q, Frame(s, "watch", k))
      BY <1>1 DEF RemainingWatches
    <2>2. Frame(s, "watch", k) \in Frames /\ Frame(s, "watch", k).owner = s
      BY FrameTypes DEF Owners
    <2> QED BY <1>1, <2>1, <2>2, SockWriteOnce
  <1>2. CASE sk # None /\ FlushOfflineQueue(sk, q)
    <2>1. outcome' = outcome
      BY <1>2, FlushShape
    <2> QED BY <1>2, <2>1, FlushOnce
  <1>3. CASE inflight' = q /\ UNCHANGED <<offlineQueue, sent, outcome>>
    BY <1>3, SettleStep
  <1> QED BY <1>1, <1>2, <1>3 DEF Reregister

\* The step settles pending calls only: as unknown, or as refused if they
\* have not been executed.
Fails ==
    \A c \in Calls : outcome'[c] # outcome[c] =>
        /\ outcome[c] = "pending"
        /\ outcome'[c] = "unknown" \/ (outcome'[c] = "refused" /\ execs[c] = 0)

\* Losing a connection or an attempt settles what was in flight, and the queue
\* if no reconnect will flush it.
LEMMA DropOnce ==
    ASSUME BaseInv, OnceInv, NEW q \in Seq(Waiters), Unframed(q), NEW plan,
           DropWaiters(q, plan), inflight' \in {inflight, <<>>},
           \A c \in Calls : Awaits(q, c) => Awaits(inflight, c) /\ inflight' = <<>>,
           UNCHANGED <<sent, replies, execs>>
    PROVE  OnceInv' /\ Fails
  <1>1. Requeued(q) = <<>>
    BY DEF Requeued, Unframed
  <1>2. Requeued(q) \o offlineQueue = offlineQueue
    BY <1>1, ConcatEmptySeq DEF BaseInv, TypeOK
  <1>3. offlineQueue' = IF plan = "reject" THEN <<>> ELSE offlineQueue
    BY <1>2 DEF DropWaiters
  <1>4. \A c \in Calls : Lost(q, c) <=> Awaits(q, c)
    BY DEF Lost, Awaits, Unframed
  <1>5. \A c \in Calls : outcome'[c] =
           IF Awaits(q, c) THEN "unknown"
           ELSE IF plan = "reject" /\ Awaits(offlineQueue, c) THEN "refused" ELSE outcome[c]
    BY <1>2, <1>4 DEF DropWaiters
  <1>6. Distinct(inflight') /\ \A c \in Calls : Awaits(inflight', c) => Awaits(inflight, c)
    BY ShortOnce DEF OnceInv, WaitersOK
  <1>7. \A c \in Calls : Awaits(inflight, c) => outcome[c] = "pending" /\ ~Awaits(offlineQueue, c)
    BY DEF OnceInv, WaitersOK, QueueOK
  <1>8. \A c \in Calls : Awaits(offlineQueue, c) =>
           outcome[c] = "pending" /\ Fresh(c) /\ ~Awaits(inflight, c)
    BY DEF OnceInv, QueueOK
  <1>9. \A c \in Calls : outcome'[c] # outcome[c] =>
              /\ ~Awaits(inflight', c) /\ ~Awaits(offlineQueue', c)
              /\ outcome'[c] \in {"idle", "refused", "skipped"} => Fresh(c)
    BY <1>3, <1>5, <1>6, <1>7, <1>8, ShortOnce
  <1>10. OnceInv'
    BY <1>3, <1>6, <1>9, SettleStep
  <1>11. Fails
    BY <1>5, <1>7, <1>8 DEF Fails, Fresh
  <1> QED BY <1>10, <1>11

\* close() settles the queue.
LEMMA ShutdownOnce ==
    ASSUME OnceInv, Shutdown, UNCHANGED <<sent, replies, execs>>,
           Distinct(inflight'), \A c \in Calls : Awaits(inflight', c) => Awaits(inflight, c)
    PROVE  OnceInv' /\ Fails
  <1>1. offlineQueue' = <<>>
    BY DEF Shutdown
  <1>2. \A c \in Calls : outcome'[c] = IF Awaits(offlineQueue, c) THEN "refused" ELSE outcome[c]
    BY DEF Shutdown, RejectCalls
  <1>3. \A c \in Calls : Awaits(offlineQueue, c) =>
           outcome[c] = "pending" /\ Fresh(c) /\ ~Awaits(inflight, c)
    BY DEF OnceInv, QueueOK
  <1>4. OnceInv'
    BY <1>1, <1>2, <1>3, ShortOnce, SettleStep
  <1>5. Fails
    BY <1>2, <1>3 DEF Fails, Fresh
  <1> QED BY <1>4, <1>5

\* One waiter is told that its outcome is unknown, and waits no more.
LEMMA RejectOnce ==
    ASSUME BaseInv, OnceInv, NEW w \in Waiters,
           outcome' = RejectCalls(<<w>>, "unknown"),
           w.owner \in Calls /\ ~w.settled => Awaits(inflight, w.owner) /\ ~Awaits(inflight', w.owner),
           Distinct(inflight'), \A c \in Calls : Awaits(inflight', c) => Awaits(inflight, c),
           UNCHANGED <<offlineQueue, sent, replies, execs>>
    PROVE  OnceInv' /\ Fails
  <1>1. \A c \in Calls : outcome'[c] =
           IF w.owner = c /\ ~w.settled THEN "unknown" ELSE outcome[c]
    BY ShortOnce DEF RejectCalls
  <1>2. \A c \in Calls : Awaits(inflight, c) => outcome[c] = "pending" /\ ~Awaits(offlineQueue, c)
    BY DEF OnceInv, WaitersOK, QueueOK
  <1>3. OnceInv'
    BY <1>1, <1>2, SettleStep
  <1>4. Fails
    BY <1>1, <1>2 DEF Fails
  <1> QED BY <1>3, <1>4

\* The server executes the call whose frame is the next, and no other.
LEMMA ServeOnce ==
    ASSUME BaseInv, OnceInv, NEW s \in Socks, Serve(s)
    PROVE  OnceInv'
  <1> DEFINE n == Len(replies[s])
             f == sent[s][n + 1]
  <1>1. /\ n \in Nat /\ n + 1 \in DOMAIN sent[s] /\ Len(sent[s]) \in Nat
        /\ DOMAIN sent[s] = 1..Len(sent[s]) /\ sent[s] \in Seq(Frames)
    BY SentLengths, LenProperties DEF Serve, BaseInv, TypeOK
  <1>2. ASSUME NEW t \in Socks, NEW i \in DOMAIN sent[t]
        PROVE  i \in Nat
    <2>1. DOMAIN sent[t] = 1..Len(sent[t]) /\ Len(sent[t]) \in Nat
      BY LenProperties DEF BaseInv, TypeOK
    <2> QED BY <1>2, <2>1
  <1>3. /\ UNCHANGED <<inflight, offlineQueue, outcome, sent>>
        /\ execs' = [c \in Calls |-> IF c = f.owner THEN execs[c] + 1 ELSE execs[c]]
    BY DEF Serve, queueVars, callVars, wireVars
  <1>4. Len(replies'[s]) = n + 1 /\ \A t \in Socks : t # s => replies'[t] = replies[t]
    <2>1. PICK v \in Verdicts : replies' = [replies EXCEPT ![s] = Append(@, v)]
      BY DEF Serve
    <2>2. replies \in [Socks -> Seq(Verdicts)]
      BY DEF BaseInv, TypeOK
    <2> QED BY <2>1, <2>2, AppendFacts
  <1>5. f.owner \in Calls => execs[f.owner] = 0
    BY <1>1 DEF OnceInv, WrittenOnce
  <1>6. \A c \in Calls : Fresh(c) => Fresh(c)'
    BY <1>1, <1>3 DEF Fresh
  <1>7. ASSUME NEW t \in Socks, NEW i \in DOMAIN sent'[t], sent'[t][i].owner \in Calls
        PROVE  execs'[sent'[t][i].owner] = (IF i <= Len(replies'[t]) THEN 1 ELSE 0)
    <2>1. CASE sent[t][i].owner = f.owner
      <3>1. t = s /\ i = n + 1
        BY <1>1, <1>3, <1>7, <2>1 DEF OnceInv, WrittenOnce
      <3> QED BY <1>1, <1>3, <1>4, <1>5, <1>7, <3>1
    <2>2. CASE sent[t][i].owner # f.owner
      <3>1. execs'[sent'[t][i].owner] = (IF i <= Len(replies[t]) THEN 1 ELSE 0)
        BY <1>3, <1>7, <2>2 DEF OnceInv, WrittenOnce
      <3>2. CASE t = s
        <4>1. i # n + 1 /\ i \in Nat
          BY <1>2, <1>3, <1>7, <2>2, <3>2
        <4> QED BY <1>1, <1>4, <3>1, <3>2, <4>1
      <3>3. CASE t # s
        BY <1>4, <3>1, <3>3
      <3> QED BY <3>2, <3>3
    <2> QED BY <2>1, <2>2
  <1>8. WrittenOnce'
    BY <1>3, <1>7 DEF OnceInv, WrittenOnce
  <1>9. AtMostOnce'
    BY <1>3, <1>5 DEF OnceInv, AtMostOnce
  <1> HIDE DEF f, n
  <1>10. WaitersOK(inflight)' /\ TurnedAway' /\ QueueOK(inflight)'
    BY <1>3, <1>6 DEF OnceInv, WaitersOK, TurnedAway, QueueOK
  <1> QED BY <1>8, <1>9, <1>10 DEF OnceInv

\* Forgetting a connection forgets frames, and repeats none.
LEMMA ForgetOnce ==
    ASSUME BaseInv, OnceInv, NEW s \in Socks, ServerForgets(s)
    PROVE  OnceInv'
  <1>1. UNCHANGED <<inflight, offlineQueue, outcome, execs>>
    BY DEF ServerForgets, queueVars, callVars
  <1>2. /\ DOMAIN sent'[s] = {}
        /\ \A t \in Socks : t # s => sent'[t] = sent[t] /\ replies'[t] = replies[t]
    BY EmptyFacts DEF ServerForgets, BaseInv, TypeOK
  <1>3. \A c \in Calls : Fresh(c) => Fresh(c)'
    BY <1>1, <1>2 DEF Fresh
  <1>4. WrittenOnce' /\ AtMostOnce'
    BY <1>1, <1>2 DEF OnceInv, WrittenOnce, AtMostOnce
  <1>5. WaitersOK(inflight)' /\ TurnedAway' /\ QueueOK(inflight)'
    BY <1>1, <1>3 DEF OnceInv, WaitersOK, TurnedAway, QueueOK
  <1> QED BY <1>4, <1>5 DEF OnceInv

\* Initially nothing waits and nothing has been written.
LEMMA OnceInvInit == Init => OnceInv
  <1> SUFFICES ASSUME Init
               PROVE  OnceInv
    OBVIOUS
  <1>1. \A c \in Calls : Fresh(c)
    BY EmptyFacts DEF Init, Fresh
  <1>2. WaitersOK(inflight) /\ QueueOK(inflight)
    BY ShortOnce, EmptyFacts DEF Init, WaitersOK, QueueOK
  <1>3. WrittenOnce /\ TurnedAway /\ AtMostOnce
    BY <1>1, EmptyFacts DEF Init, WrittenOnce, TurnedAway, AtMostOnce
  <1> QED BY <1>2, <1>3 DEF OnceInv

\* A call is made: it is pending or turned away.
Begins ==
    \E c \in Calls :
        /\ outcome[c] = "idle"
        /\ \E o \in {"pending", "refused", "skipped"} : outcome' = [outcome EXCEPT ![c] = o]

\* A reply settles the call it is taken for.
Settles ==
    \E c \in Calls, s \in Socks :
        /\ outcome[c] = "pending" /\ Expects(c)
        /\ outcome' = [outcome EXCEPT ![c] = Classified(Verdict(s))]
        /\ ReplyToCall(s)

\* Every step keeps the invariant, and changes outcomes in one of three ways.
LEMMA OnceNext ==
    ASSUME BaseInv, OnceInv, [Next]_vars
    PROVE  OnceInv' /\ (Begins \/ Settles \/ Fails)
  <1>0. /\ inflight \in Seq(Waiters) /\ Unframed(inflight) /\ Distinct(inflight)
        /\ outcome \in [Calls -> Outcomes]
        /\ \A c \in Calls : Awaits(inflight, c) => outcome[c] = "pending" /\ ~Awaits(offlineQueue, c)
    BY DEF BaseInv, TypeOK, FramesInPlace, Unframed, OnceInv, WaitersOK, QueueOK
  <1>a. ASSUME UNCHANGED <<inflight, offlineQueue, outcome, sent, replies, execs>>
        PROVE  OnceInv' /\ Fails
    BY <1>0, <1>a, SettleStep DEF Fails
  <1>b. ASSUME NEW c \in Calls, NEW f, Send(c, f), outcome[c] = "idle"
        PROVE  Begins
    BY <1>b DEF Begins, Send
  <1>c. inflight # <<>> =>
           /\ Tail(inflight) \in Seq(Waiters) /\ Distinct(Tail(inflight))
           /\ \A o : Awaits(Tail(inflight), o) => Awaits(inflight, o)
    BY <1>0, TailFacts, TailOnce
  <1>1. ASSUME NEW c \in Calls, Request(c)
        PROVE  OnceInv' /\ Begins
    <2>1. Frame(c, "data", None) \in Frames /\ Frame(c, "data", None) # None
          /\ Frame(c, "data", None).owner = c
      BY FrameTypes DEF Owners
    <2> QED BY <1>1, <1>b, <2>1, SendOnce DEF Request, serverVars
  <1>2. ASSUME NEW c \in Calls, NEW k \in Keys, Watch(c, k)
        PROVE  OnceInv' /\ Begins
    <2>1. Frame(c, "watch", k) \in Frames /\ Frame(c, "watch", k) # None
          /\ Frame(c, "watch", k).owner = c
      BY FrameTypes DEF Owners
    <2> QED BY <1>2, <1>b, <2>1, SendOnce DEF Watch, serverVars
  <1>3. ASSUME NEW c \in Calls, NEW k \in Keys, Unwatch(c, k)
        PROVE  OnceInv' /\ Begins
    <2>1. Frame(c, "unwatch", k) \in Frames /\ Frame(c, "unwatch", k) # None
          /\ Frame(c, "unwatch", k).owner = c
      BY FrameTypes DEF Owners
    <2>2. CASE socket = None
      <3>1. /\ outcome[c] = "idle" /\ outcome' = [outcome EXCEPT ![c] = "skipped"]
            /\ UNCHANGED <<inflight, offlineQueue, sent, replies, execs>>
        BY <1>3, <2>2 DEF Unwatch, queueVars, serverVars
      <3>2. Fresh(c) /\ ~Awaits(inflight, c) /\ ~Awaits(offlineQueue, c)
        BY <3>1 DEF OnceInv, TurnedAway, WaitersOK, QueueOK
      <3>3. OnceInv'
        BY <1>0, <3>1, <3>2, SettleStep
      <3> QED BY <3>1, <3>3 DEF Begins
    <2>3. CASE socket # None
      BY <1>3, <1>b, <2>1, <2>3, SendOnce DEF Unwatch, serverVars
    <2> QED BY <2>2, <2>3
  <1>4. CASE Close
    BY <1>0, <1>4, ShutdownOnce DEF Close, serverVars
  <1>5. CASE Connect \/ ReconnectTimer
    BY <1>5, <1>a DEF Connect, ReconnectTimer, StartConnect, queueVars, callVars, serverVars, wireVars
  <1>6. ASSUME NEW s \in Socks, ConnectOk(s)
        PROVE  OnceInv' /\ Fails
    <2>0. UNCHANGED <<replies, execs>>
      BY <1>6 DEF ConnectOk, serverVars
    <2>1. CASE /\ WriteInflight(s, inflight, Frame(s, "auth", None))
               /\ UNCHANGED <<offlineQueue, outcome>>
      <3>1. Frame(s, "auth", None) \in Frames /\ Frame(s, "auth", None).owner = s
        BY FrameTypes DEF Owners
      <3> QED BY <1>0, <2>0, <2>1, <3>1, SockWriteOnce DEF Fails
    <2>2. CASE Reregister(s, s, inflight, 0)
      <3>1. s \in Socks \cup {None}
        OBVIOUS
      <3> QED BY <1>0, <2>0, <2>2, <3>1, ReregisterOnce DEF Fails
    <2> QED BY <1>6, <2>1, <2>2 DEF ConnectOk
  <1>7. ASSUME NEW s \in Socks, ConnectFail(s)
        PROVE  OnceInv' /\ Fails
    <2> DEFINE w == Waiter(s, None)
    <2>1. UNCHANGED <<sent, replies, execs>>
      BY <1>7 DEF ConnectFail, wireVars, serverVars
    <2>2. /\ w \in Waiters /\ w.frame = None /\ <<w>> \in Seq(Waiters) /\ Unframed(<<w>>)
          /\ w.owner = s
      BY LoneWaiter, WaiterTypes DEF Owners
    <2>3. \A c \in Calls : ~Awaits(<<w>>, c)
      BY <2>2, ShortOnce, ConstantsAssumption
    <2>4. /\ Append(inflight, w) \in Seq(Waiters) /\ Unframed(Append(inflight, w))
          /\ Append(inflight, w) = inflight \o <<w>>
      BY <1>0, <2>2, AppendFacts, AppendIsConcat, LenProperties DEF Unframed
    <2>5. \A c \in Calls : Awaits(Append(inflight, w), c) => Awaits(inflight, c)
      <3>1. Distinct(<<w>>)
        BY <2>2, ShortOnce
      <3> QED BY <1>0, <2>2, <2>3, <2>4, <3>1, ConcatOnce
    <2>6. CASE socket = None
      <3>1. inflight' = inflight
        BY <1>7, <2>6 DEF ConnectFail
      <3>2. \E plan : DropWaiters(<<w>>, plan)
        BY <1>7, <2>6 DEF ConnectFail
      <3> QED BY <2>1, <2>2, <2>3, <3>1, <3>2, DropOnce
    <2>7. CASE socket # None
      <3>1. inflight' = <<>>
        BY <1>7, <2>7 DEF ConnectFail
      <3>2. \E plan : DropWaiters(Append(inflight, w), plan)
        BY <1>7, <2>7 DEF ConnectFail
      <3> QED BY <2>1, <2>4, <2>5, <3>1, <3>2, DropOnce
    <2> QED BY <2>6, <2>7
  <1>8. ASSUME NEW s \in Socks, ReplyIgnored(s)
        PROVE  OnceInv' /\ Fails
    <2>1. /\ inflight' = IF inflight = <<>> THEN <<>> ELSE Tail(inflight)
          /\ UNCHANGED <<offlineQueue, outcome, sent, replies, execs>>
      BY <1>8 DEF ReplyIgnored, TakeReply, callVars, serverVars
    <2>2. Distinct(inflight') /\ \A c \in Calls : Awaits(inflight', c) => Awaits(inflight, c)
      BY <1>c, <2>1, ShortOnce
    <2> QED BY <2>1, <2>2, SettleStep DEF Fails
  <1>9. ASSUME NEW s \in Socks, ReplyToCall(s)
        PROVE  OnceInv' /\ Settles
    <2>1. PICK c \in Calls : /\ Expects(c)
                             /\ outcome' = [outcome EXCEPT ![c] = Classified(Verdict(s))]
      BY <1>9 DEF ReplyToCall
    <2>2. /\ inflight' = Tail(inflight) /\ inflight # <<>>
          /\ Head(inflight).owner = c /\ ~Head(inflight).settled
          /\ UNCHANGED <<offlineQueue, sent, replies, execs>>
      BY <1>9, <2>1 DEF ReplyToCall, TakeReply, Expects, serverVars
    <2>3. Awaits(inflight, c) /\ ~Awaits(inflight', c)
      <3>1. 1 \in DOMAIN inflight /\ Head(inflight) = inflight[1]
        BY <1>0, <2>2, TailFacts, LenProperties
      <3> QED BY <1>0, <2>2, <3>1, TailOnce DEF Awaits
    <2>4. Verdict(s) \in Verdicts
      BY <1>9, TakeReplyTypes DEF ReplyToCall
    <2>5. Classified(Verdict(s)) \in {"ok", "error", "unknown"}
      BY <2>4, ConstantsAssumption DEF Classified
    <2>6. \A d \in Calls : outcome'[d] = IF d = c THEN Classified(Verdict(s)) ELSE outcome[d]
      BY <1>0, <2>1
    <2>7. OnceInv'
      BY <1>0, <1>c, <2>2, <2>3, <2>5, <2>6, SettleStep
    <2> QED BY <1>0, <1>9, <2>1, <2>3, <2>7 DEF Settles
  <1>10. ASSUME NEW s \in Socks, NEW t \in Socks, ReplyToAuth(s, t) \/ ReplyToRereg(s, t)
         PROVE  OnceInv' /\ Fails
    <2>1. inflight # <<>> /\ UNCHANGED <<replies, execs>>
      BY <1>10 DEF ReplyToAuth, ReplyToRereg, Expects, TakeReply, serverVars
    <2>2. CASE inflight' = Tail(inflight) /\ UNCHANGED <<offlineQueue, outcome, sent>>
      BY <1>c, <2>1, <2>2, SettleStep DEF Fails
    <2>3. CASE \E p \in Nat : Reregister(t, socket, Tail(inflight), p)
      <3>1. PICK p \in Nat : Reregister(t, socket, Tail(inflight), p)
        BY <2>3
      <3>2. socket \in Socks \cup {None}
        BY DEF BaseInv, TypeOK
      <3> QED BY <1>c, <2>1, <3>1, <3>2, ReregisterOnce DEF Fails
    <2>4. CASE Shutdown /\ inflight' = Tail(inflight) /\ UNCHANGED sent
      BY <1>c, <2>1, <2>4, ShutdownOnce
    <2>5. cursor[t] \in Nat /\ 0 \in Nat
      BY DEF BaseInv, TypeOK
    <2> QED BY <1>10, <2>2, <2>3, <2>4, <2>5 DEF ReplyToAuth, ReplyToRereg
  <1>11. ASSUME NEW s \in Socks, ReceivePush(s)
         PROVE  OnceInv' /\ Fails
    BY <1>11, <1>a DEF ReceivePush, queueVars, callVars, serverVars
  <1>12. ASSUME NEW s \in Socks, ReceiveBadPush(s)
         PROVE  OnceInv' /\ Fails
    <2>1. UNCHANGED <<offlineQueue, sent, replies, execs>>
      BY <1>12 DEF ReceiveBadPush, serverVars
    <2>2. CASE inflight = <<>>
      BY <1>12, <1>a, <2>1, <2>2 DEF ReceiveBadPush
    <2>3. CASE inflight # <<>>
      <3>1. inflight' = Tail(inflight) /\ outcome' = RejectCalls(<<Head(inflight)>>, "unknown")
        BY <1>12, <2>3 DEF ReceiveBadPush
      <3>2. Head(inflight) \in Waiters /\ 1 \in DOMAIN inflight /\ Head(inflight) = inflight[1]
        BY <1>0, <2>3, TailFacts, LenProperties
      <3>3. Head(inflight).owner \in Calls /\ ~Head(inflight).settled =>
               Awaits(inflight, Head(inflight).owner) /\ ~Awaits(inflight', Head(inflight).owner)
        BY <1>0, <2>3, <3>1, <3>2, TailOnce DEF Awaits
      <3> QED BY <1>c, <2>1, <2>3, <3>1, <3>2, <3>3, RejectOnce
    <2> QED BY <2>2, <2>3
  <1>13. ASSUME NEW i \in DOMAIN inflight, RequestTimer(i)
         PROVE  OnceInv' /\ Fails
    <2>1. /\ ~inflight[i].settled /\ inflight' = [inflight EXCEPT ![i].settled = TRUE]
          /\ outcome' = RejectCalls(<<inflight[i]>>, "unknown")
          /\ UNCHANGED <<offlineQueue, sent, replies, execs>>
      BY <1>13 DEF RequestTimer, TimedOut, serverVars, wireVars
    <2>2. inflight[i] \in Waiters
      BY <1>0, ElementOfSeq, LenProperties
    <2>3. Awaits(inflight, inflight[i].owner)
      BY <2>1 DEF Awaits
    <2>4. /\ Distinct(inflight') /\ \A o : Awaits(inflight', o) => Awaits(inflight, o)
          /\ inflight[i].owner \in Calls => ~Awaits(inflight', inflight[i].owner)
      BY <1>0, <2>1, SettleOnce
    <2> QED BY <2>1, <2>2, <2>3, <2>4, RejectOnce
  <1>14. ASSUME NEW s \in Socks, SocketClosed(s)
         PROVE  OnceInv' /\ Fails
    <2>1. UNCHANGED <<sent, replies, execs>>
      BY <1>14 DEF SocketClosed, serverVars
    <2>2. CASE socket = None
      BY <1>14, <1>a, <2>1, <2>2 DEF SocketClosed
    <2>3. CASE socket # None
      <3>1. inflight' = <<>> /\ \E plan : DropWaiters(inflight, plan)
        BY <1>14, <2>3 DEF SocketClosed, InflightAfterLoss
      <3> QED BY <1>0, <2>1, <3>1, DropOnce
    <2> QED BY <2>2, <2>3
  <1>15. ASSUME NEW s \in Socks, Serve(s)
         PROVE  OnceInv' /\ Fails
    BY <1>15, ServeOnce DEF Serve, Fails, callVars
  <1>16. ASSUME NEW s \in Socks, ServerForgets(s)
         PROVE  OnceInv' /\ Fails
    BY <1>16, ForgetOnce DEF ServerForgets, Fails, callVars
  <1>17. ASSUME NEW s \in Socks, NEW k \in Keys, Push(s, k)
         PROVE  OnceInv' /\ Fails
    BY <1>17, <1>a DEF Push, queueVars, callVars, serverVars
  <1>18. CASE UNCHANGED vars
    BY <1>18, <1>a DEF vars, queueVars, callVars, serverVars, wireVars
  <1> QED
    BY <1>1, <1>2, <1>3, <1>4, <1>5, <1>6, <1>7, <1>8, <1>9, <1>10, <1>11, <1>12,
       <1>13, <1>14, <1>15, <1>16, <1>17, <1>18 DEF Next

\* No call is executed twice: whatever is flushed, repeated, lost or timed
\* out, and however connects overlap, its request is written at most once.
THEOREM ExecutedAtMostOnce == Spec => []AtMostOnce
  <1>1. OnceInv => AtMostOnce
    BY DEF OnceInv
  <1> QED
    BY <1>1, BaseInvInit, BaseInvNext, OnceInvInit, OnceNext, PTL DEF Spec

\* A call that was refused or skipped is not executed, then or later.
THEOREM RefusalIsFinal == Spec => []RefusedNeverExecuted
  <1>1. OnceInv => RefusedNeverExecuted
    BY DEF OnceInv, TurnedAway, Fresh, RefusedNeverExecuted
  <1> QED
    BY <1>1, BaseInvInit, BaseInvNext, OnceInvInit, OnceNext, PTL DEF Spec

\* A promise is settled once: of a reply, a timeout, a disconnect and close()
\* that race for the same call only the first counts.
THEOREM PromisesSettleOnce == Spec => SettledOnce
  <1>1. ASSUME BaseInv, OnceInv, [Next]_vars
        PROVE  [\A c \in Calls :
                  outcome[c] \notin {"idle", "pending"} => outcome'[c] = outcome[c]]_vars
    <2>0. outcome \in [Calls -> Outcomes]
      BY <1>1 DEF BaseInv, TypeOK
    <2>1. CASE Begins \/ Settles
      <3>1. PICK c \in Calls : /\ outcome[c] \in {"idle", "pending"}
                              /\ \E o : outcome' = [outcome EXCEPT ![c] = o]
        BY <2>1 DEF Begins, Settles
      <3> QED BY <2>0, <3>1
    <2>2. CASE Fails
      BY <2>2 DEF Fails
    <2> QED BY <1>1, <2>1, <2>2, OnceNext
  <1> QED
    BY <1>1, BaseInvInit, BaseInvNext, OnceInvInit, OnceNext, PTL DEF Spec, SettledOnce

-----------------------------------------------------------------------------
(* After close(), and before the authentication.                            *)

\* What close() has emptied and cancelled stays so.
LEMMA ClosedNext ==
    ASSUME BaseInv, ClosedForGood, [Next]_vars
    PROVE  ClosedForGood'
  <1>0. inflight \in Seq(Waiters) /\ Unframed(inflight) /\ destroyed \in BOOLEAN
    BY DEF BaseInv, TypeOK, FramesInPlace, Unframed
  <1>a. ASSUME destroyed' = destroyed, offlineQueue' \in {offlineQueue, <<>>},
               reconnectTimer' \in {reconnectTimer, FALSE}
        PROVE  ClosedForGood'
    BY <1>a DEF ClosedForGood
  <1>b. ASSUME destroyed' = destroyed, NEW q, NEW att, DropWaiters(q, RetryPlan(att))
        PROVE  ClosedForGood'
    <2>1. CASE destroyed
      BY <1>b, <2>1 DEF ClosedForGood, DropWaiters, RetryPlan
    <2>2. CASE ~destroyed
      BY <1>b, <2>2 DEF ClosedForGood
    <2> QED BY <2>1, <2>2
  <1>c. ASSUME Shutdown
        PROVE  ClosedForGood'
    BY <1>c DEF Shutdown, TimerAfterClose, ClosedForGood
  <1>d. ASSUME NEW c, NEW f, Send(c, f), UNCHANGED <<destroyed, reconnectTimer>>
        PROVE  ClosedForGood'
    BY <1>d DEF Send, ClosedForGood, queueVars
  <1>1. CASE \E c \in Calls : Request(c) \/ \E k \in Keys : Watch(c, k) \/ Unwatch(c, k)
    BY <1>1, <1>a, <1>d DEF Request, Watch, Unwatch, lifeVars, queueVars
  <1>2. CASE Close
    BY <1>2, <1>c DEF Close
  <1>3. CASE Connect \/ ReconnectTimer
    BY <1>3, <1>a DEF Connect, ReconnectTimer, StartConnect, queueVars
  <1>4. ASSUME NEW s \in Socks, ConnectOk(s)
        PROVE  ClosedForGood'
    <2>1. s \in Socks \cup {None} /\ 0 \in Nat
      OBVIOUS
    <2>2. offlineQueue' \in {offlineQueue, <<>>}
      BY <1>0, <1>4, <2>1, ReregisterTypes DEF ConnectOk
    <2> QED BY <1>4, <1>a, <2>2 DEF ConnectOk
  <1>5. ASSUME NEW s \in Socks, ConnectFail(s)
        PROVE  ClosedForGood'
    BY <1>5, <1>b DEF ConnectFail
  <1>6. ASSUME NEW s \in Socks, ReplyIgnored(s) \/ ReplyToCall(s)
        PROVE  ClosedForGood'
    BY <1>6, <1>a DEF ReplyIgnored, ReplyToCall
  <1>7. ASSUME NEW s \in Socks, NEW t \in Socks, ReplyToAuth(s, t) \/ ReplyToRereg(s, t)
        PROVE  ClosedForGood'
    <2>1. Tail(inflight) \in Seq(Waiters) /\ Unframed(Tail(inflight))
      BY <1>0, <1>7, TailFacts, LenProperties DEF ReplyToAuth, ReplyToRereg, Expects, Unframed
    <2>2. socket \in Socks \cup {None} /\ cursor[t] \in Nat /\ 0 \in Nat
      BY DEF BaseInv, TypeOK
    <2>3. ASSUME NEW p \in Nat, Reregister(t, socket, Tail(inflight), p),
                 UNCHANGED <<destroyed, reconnectTimer>>
          PROVE  ClosedForGood'
      BY <1>a, <2>1, <2>2, <2>3, ReregisterTypes
    <2> QED BY <1>7, <1>a, <1>c, <2>2, <2>3 DEF ReplyToAuth, ReplyToRereg
  <1>8. ASSUME NEW s \in Socks, ReceivePush(s) \/ ReceiveBadPush(s)
        PROVE  ClosedForGood'
    BY <1>8, <1>a DEF ReceivePush, ReceiveBadPush, lifeVars, queueVars
  <1>9. ASSUME NEW i \in DOMAIN inflight, RequestTimer(i)
        PROVE  ClosedForGood'
    BY <1>9, <1>a DEF RequestTimer, lifeVars
  <1>10. ASSUME NEW s \in Socks, SocketClosed(s)
         PROVE  ClosedForGood'
    BY <1>10, <1>a, <1>b DEF SocketClosed
  <1>11. ASSUME NEW s \in Socks, Serve(s) \/ ServerForgets(s) \/ \E k \in Keys : Push(s, k)
         PROVE  ClosedForGood'
    BY <1>11, <1>a DEF Serve, ServerForgets, Push, lifeVars, queueVars
  <1>12. CASE UNCHANGED vars
    BY <1>12, <1>a DEF vars, lifeVars, queueVars
  <1> QED
    BY <1>1, <1>2, <1>3, <1>4, <1>5, <1>6, <1>7, <1>8, <1>9, <1>10, <1>11, <1>12 DEF Next

\* After close() no reconnect is scheduled and nothing waits for one, even when
\* an attempt that close() did not stop connects or fails afterwards.
THEOREM CloseIsFinal == Spec => []ClosedForGood
  <1>1. Init => ClosedForGood
    BY DEF Init, ClosedForGood
  <1> QED
    BY <1>1, BaseInvInit, BaseInvNext, ClosedNext, PTL DEF Spec

\* A connection that has not been established carries nothing, and the one in
\* use has been opened with a frame of its own.
Opened ==
    /\ socket # None => link[socket] = "open" /\ sent[socket] # <<>>
    /\ \A s \in Socks : /\ link[s] = "none" => sent[s] = <<>>
                        /\ phase[s] = "connecting" => link[s] = "none"

\* Queued frames are those of API calls.
QueuedOps == \A i \in DOMAIN offlineQueue : offlineQueue[i].frame.op # "auth"

AuthInv == AuthToken => AuthFirst /\ Opened /\ QueuedOps

\* Frames that are no auth requests, behind others.
NoAuth(fs) == \A i \in 1..Len(fs) : fs[i].op # "auth"

\* Writing requests on the socket in use.
LEMMA WriteAuth ==
    ASSUME BaseInv, AuthFirst, NEW sk \in Socks, sent[sk] # <<>>,
           NEW fs \in Seq(Frames), NoAuth(fs), sent' = [sent EXCEPT ![sk] = @ \o fs]
    PROVE  /\ AuthFirst'
           /\ \A s \in Socks : /\ s # sk => sent'[s] = sent[s]
                               /\ sent[s] # <<>> => sent'[s] # <<>>
  <1> DEFINE n == Len(sent[sk])
  <1>0. sent \in [Socks -> Seq(Frames)] /\ sent[sk] \in Seq(Frames)
    BY DEF BaseInv, TypeOK
  <1>1. /\ n \in Nat /\ Len(fs) \in Nat /\ DOMAIN sent[sk] = 1..n
        /\ DOMAIN (sent[sk] \o fs) = 1..n + Len(fs)
        /\ \A i \in 1..n + Len(fs) :
             (sent[sk] \o fs)[i] = IF i <= n THEN sent[sk][i] ELSE fs[i - n]
    BY <1>0, ConcatProperties, LenProperties
  <1>2. /\ sent'[sk] = sent[sk] \o fs
        /\ \A s \in Socks : s # sk => sent'[s] = sent[s]
    BY <1>0
  <1>3. n # 0
    BY <1>0, EmptySeq
  <1>4. ASSUME AuthToken, NEW i \in DOMAIN sent'[sk]
        PROVE  (sent'[sk][i].op = "auth") <=> (i = 1)
    <2>1. i \in 1..n + Len(fs) /\ n # 0
      BY <1>1, <1>2, <1>3, <1>4
    <2>2. CASE i <= n
      <3>1. i \in DOMAIN sent[sk] /\ sent'[sk][i] = sent[sk][i]
        BY <1>1, <1>2, <2>1, <2>2
      <3> QED BY <1>4, <3>1 DEF AuthFirst
    <2>3. CASE ~(i <= n)
      <3>1. i - n \in 1..Len(fs) /\ i # 1
        BY <1>1, <2>1, <2>3
      <3> QED BY <1>1, <1>2, <2>1, <2>3, <3>1 DEF NoAuth
    <2> QED BY <2>2, <2>3
  <1>5. sent'[sk] # <<>>
    BY <1>1, <1>2, <1>3, EmptyFacts
  <1> HIDE DEF n
  <1>6. AuthFirst'
    BY <1>2, <1>4 DEF AuthFirst
  <1> QED BY <1>2, <1>5, <1>6

\* The first frame of a connection.
LEMMA FirstAuth ==
    ASSUME BaseInv, AuthFirst, NEW s \in Socks, sent[s] = <<>>,
           NEW f \in Frames, f.op = "auth", sent' = [sent EXCEPT ![s] = Append(@, f)]
    PROVE  /\ AuthFirst' /\ sent'[s] # <<>>
           /\ \A t \in Socks : t # s => sent'[t] = sent[t]
  <1>1. sent'[s] = <<f>> /\ \A t \in Socks : t # s => sent'[t] = sent[t]
    BY DEF BaseInv, TypeOK
  <1>2. DOMAIN sent'[s] = {1} /\ sent'[s][1] = f /\ sent'[s] # <<>>
    BY <1>1
  <1>3. AuthFirst'
    BY <1>1, <1>2 DEF AuthFirst
  <1> QED BY <1>1, <1>2, <1>3

\* A call is written on the socket in use, queued, or refused.
LEMMA SendAuth ==
    ASSUME BaseInv, AuthToken, AuthFirst, Opened, QueuedOps, NEW c \in Calls,
           NEW f \in Frames, f.op # "auth", Send(c, f), UNCHANGED <<socket, link, phase>>
    PROVE  AuthFirst' /\ Opened' /\ QueuedOps'
  <1>0. /\ sent \in [Socks -> Seq(Frames)] /\ offlineQueue \in Seq(Waiters)
        /\ socket \in Socks \cup {None}
    BY DEF BaseInv, TypeOK
  <1>1. CASE UNCHANGED <<queueVars, sent>>
    BY <1>1 DEF AuthFirst, Opened, QueuedOps, queueVars
  <1>2. CASE offlineQueue' = Append(offlineQueue, Waiter(c, f)) /\ UNCHANGED <<inflight, sent>>
    <2>0. c \in Owners /\ f \in Frames \cup {None}
      BY DEF Owners
    <2>1. Waiter(c, f) \in Waiters /\ Waiter(c, f).frame = f
      BY <2>0, WaiterTypes
    <2>2. \A i \in DOMAIN offlineQueue' :
             \/ i \in DOMAIN offlineQueue /\ offlineQueue'[i] = offlineQueue[i]
             \/ offlineQueue'[i] = Waiter(c, f)
      BY <1>0, <1>2, <2>1, AppendFacts, LenProperties
    <2>3. QueuedOps'
      BY <2>1, <2>2 DEF QueuedOps
    <2> QED BY <1>2, <2>3 DEF AuthFirst, Opened
  <1>3. CASE socket # None /\ WriteInflight(socket, inflight, f) /\ UNCHANGED offlineQueue
    <2>0. socket \in Socks /\ sent' = [sent EXCEPT ![socket] = Append(@, f)]
      BY <1>0, <1>3 DEF WriteInflight
    <2>1. sent' = [sent EXCEPT ![socket] = @ \o <<f>>] /\ socket \in Socks
      BY <1>0, <2>0, AppendIsConcat
    <2>2. <<f>> \in Seq(Frames) /\ NoAuth(<<f>>) /\ sent[socket] # <<>>
      BY <1>3 DEF NoAuth, Opened
    <2>3. /\ AuthFirst'
          /\ \A s \in Socks : /\ s # socket => sent'[s] = sent[s]
                              /\ sent[s] # <<>> => sent'[s] # <<>>
      BY <2>1, <2>2, WriteAuth
    <2>4. Opened' /\ QueuedOps'
      BY <1>3, <2>1, <2>3 DEF Opened, QueuedOps
    <2> QED BY <2>3, <2>4
  <1> QED BY <1>1, <1>2, <1>3 DEF Send

\* What doConnect() writes after the authentication.
LEMMA ReregisterAuth ==
    ASSUME BaseInv, AuthFirst, Opened, QueuedOps, NEW s \in Socks, phase[s] # "connecting",
           NEW q, NEW p, Reregister(s, socket, q, p), UNCHANGED <<socket, link>>
    PROVE  AuthFirst' /\ Opened' /\ QueuedOps'
  <1>0. /\ sent \in [Socks -> Seq(Frames)] /\ offlineQueue \in Seq(Waiters)
        /\ socket \in Socks \cup {None} /\ phase \in [Socks -> Phases]
    BY DEF BaseInv, TypeOK
  <1>1. \A t \in Socks : phase'[t] = "connecting" => phase[t] = "connecting"
    BY <1>0 DEF Reregister
  <1>2. CASE sent' = sent /\ offlineQueue' = offlineQueue
    BY <1>1, <1>2 DEF AuthFirst, Opened, QueuedOps
  <1>3. ASSUME socket # None, NEW fs \in Seq(Frames), NoAuth(fs),
               sent' = [sent EXCEPT ![socket] = @ \o fs]
        PROVE  AuthFirst' /\ Opened'
    <2>1. sent[socket] # <<>> /\ socket \in Socks /\ link[socket] = "open"
      BY <1>0, <1>3 DEF Opened
    <2>2. /\ AuthFirst'
          /\ \A t \in Socks : /\ t # socket => sent'[t] = sent[t]
                              /\ sent[t] # <<>> => sent'[t] # <<>>
      BY <1>3, <2>1, WriteAuth
    <2>3. Opened'
      BY <1>1, <2>1, <2>2 DEF Opened
    <2> QED BY <2>2, <2>3
  <1>4. CASE /\ socket # None
             /\ \E k \in RemainingWatches(p) : WriteInflight(socket, q, Frame(s, "watch", k))
             /\ UNCHANGED <<offlineQueue, outcome>>
    <2>1. PICK k \in Keys : WriteInflight(socket, q, Frame(s, "watch", k))
      BY <1>4 DEF RemainingWatches
    <2> DEFINE f == Frame(s, "watch", k)
    <2>2. f \in Frames /\ f.op = "watch"
      BY FrameTypes DEF Owners
    <2>3. sent' = [sent EXCEPT ![socket] = Append(@, f)]
      BY <2>1 DEF WriteInflight
    <2> HIDE DEF f
    <2>4. sent' = [sent EXCEPT ![socket] = @ \o <<f>>]
      BY <1>0, <1>4, <2>2, <2>3, AppendIsConcat
    <2>5. <<f>> \in Seq(Frames) /\ NoAuth(<<f>>)
      BY <2>2 DEF NoAuth
    <2> QED BY <1>3, <1>4, <2>4, <2>5 DEF QueuedOps
  <1>5. CASE socket # None /\ FlushOfflineQueue(socket, q)
    <2>1. PICK ws \in Seq(Waiters), fs \in Seq(Frames) :
             /\ Len(fs) = Len(offlineQueue)
             /\ \A i \in 1..Len(offlineQueue) : fs[i] = offlineQueue[i].frame
             /\ sent' = [sent EXCEPT ![socket] = @ \o fs]
             /\ offlineQueue' = <<>>
      BY <1>0, <1>5, FlushShape
    <2>2. NoAuth(fs)
      BY <1>0, <2>1, LenProperties DEF NoAuth, QueuedOps
    <2>3. QueuedOps'
      BY <2>1, EmptyFacts DEF QueuedOps
    <2> QED BY <1>3, <1>5, <2>1, <2>2, <2>3
  <1> QED BY <1>2, <1>4, <1>5 DEF Reregister

\* The queue is kept or dropped.
LEMMA QueuedOpsKept ==
    ASSUME QueuedOps, offlineQueue' \in {offlineQueue, <<>>}
    PROVE  QueuedOps'
  BY EmptyFacts DEF QueuedOps

\* Every step keeps the auth request of a connection first and alone.
LEMMA AuthNext ==
    ASSUME BaseInv, AuthInv, [Next]_vars
    PROVE  AuthInv'
  <1> SUFFICES ASSUME AuthToken
               PROVE  AuthFirst' /\ Opened' /\ QueuedOps'
    BY DEF AuthInv
  <1>0. /\ AuthFirst /\ Opened /\ QueuedOps
        /\ inflight \in Seq(Waiters) /\ Unframed(inflight)
        /\ socket \in Socks \cup {None} /\ None \notin Socks
        /\ phase \in [Socks -> Phases] /\ link \in [Socks -> Links]
        /\ sent \in [Socks -> Seq(Frames)]
    BY ConstantsAssumption DEF AuthInv, BaseInv, TypeOK, FramesInPlace, Unframed
  \* Nothing is written, no attempt starts, and the socket is kept or given up.
  <1>a. ASSUME offlineQueue' \in {offlineQueue, <<>>}, sent' = sent,
               \A s \in Socks : (link'[s] = "none") <=> (link[s] = "none"),
               \A s \in Socks : phase'[s] = "connecting" => phase[s] = "connecting",
               socket' = None \/ (socket' = socket /\ link' = link)
        PROVE  AuthFirst' /\ Opened' /\ QueuedOps'
    <2>1. AuthFirst' /\ QueuedOps'
      BY <1>0, <1>a, QueuedOpsKept DEF AuthFirst
    <2>2. Opened'
      BY <1>0, <1>a DEF Opened
    <2> QED BY <2>1, <2>2
  <1>b. ASSUME NEW q \in Seq(Waiters), Unframed(q), NEW plan, DropWaiters(q, plan)
        PROVE  /\ offlineQueue' \in {offlineQueue, <<>>}
               /\ \A s \in Socks : phase'[s] = "connecting" => phase[s] = "connecting"
    <2>1. offlineQueue' \in {offlineQueue, <<>>}
      BY <1>b, DropTypes
    <2>2. phase' = RejectPhases(q)
      BY <1>b DEF DropWaiters
    <2>3. \A s \in Socks : phase'[s] = IF Awaits(q, s) THEN "idle" ELSE phase[s]
      BY <2>2 DEF RejectPhases
    <2> QED BY <2>1, <2>3
  <1>c. ASSUME Shutdown, UNCHANGED sent,
               \A s \in Socks : phase'[s] = "connecting" => phase[s] = "connecting"
        PROVE  AuthFirst' /\ Opened' /\ QueuedOps'
    <2>1. \A s \in Socks : link'[s] = "none" <=> link[s] = "none"
      BY <1>0, <1>c DEF Shutdown, Opened
    <2> QED BY <1>a, <1>c, <2>1 DEF Shutdown
  <1>1. ASSUME NEW c \in Calls, Request(c)
        PROVE  AuthFirst' /\ Opened' /\ QueuedOps'
    <2>1. Frame(c, "data", None) \in Frames /\ Frame(c, "data", None).op = "data"
      BY FrameTypes DEF Owners
    <2> QED BY <1>0, <1>1, <2>1, SendAuth DEF Request, dialVars
  <1>2. ASSUME NEW c \in Calls, NEW k \in Keys, Watch(c, k)
        PROVE  AuthFirst' /\ Opened' /\ QueuedOps'
    <2>1. Frame(c, "watch", k) \in Frames /\ Frame(c, "watch", k).op = "watch"
      BY FrameTypes DEF Owners
    <2> QED BY <1>0, <1>2, <2>1, SendAuth DEF Watch, dialVars
  <1>3. ASSUME NEW c \in Calls, NEW k \in Keys, Unwatch(c, k)
        PROVE  AuthFirst' /\ Opened' /\ QueuedOps'
    <2>1. Frame(c, "unwatch", k) \in Frames /\ Frame(c, "unwatch", k).op = "unwatch"
      BY FrameTypes DEF Owners
    <2>2. CASE socket = None
      BY <1>3, <1>a, <2>2 DEF Unwatch, dialVars, queueVars
    <2>3. CASE socket # None
      BY <1>0, <1>3, <2>1, <2>3, SendAuth DEF Unwatch, dialVars
    <2> QED BY <2>2, <2>3
  <1>4. CASE Close
    BY <1>4, <1>c DEF Close, dialVars
  <1>5. CASE Connect \/ ReconnectTimer
    <2>1. PICK s \in Socks : link[s] = "none" /\ phase' = [phase EXCEPT ![s] = "connecting"]
      BY <1>5 DEF Connect, ReconnectTimer, StartConnect
    <2>2. UNCHANGED <<offlineQueue, sent, link, socket>>
      BY <1>5 DEF Connect, ReconnectTimer, StartConnect, queueVars, wireVars
    <2> QED BY <1>0, <2>1, <2>2 DEF AuthFirst, Opened, QueuedOps
  <1>6. ASSUME NEW s \in Socks, ConnectOk(s)
        PROVE  AuthFirst' /\ Opened' /\ QueuedOps'
    <2> DEFINE f == Frame(s, "auth", None)
    <2>1. /\ phase[s] = "connecting" /\ socket' = s /\ link' = [link EXCEPT ![s] = "open"]
          /\ sent' = [sent EXCEPT ![s] = Append(@, f)]
          /\ phase' = [phase EXCEPT ![s] = "auth"] /\ offlineQueue' = offlineQueue
      BY <1>6 DEF ConnectOk, MustAuthenticate, WriteInflight
    <2>2. f \in Frames /\ f.op = "auth"
      BY FrameTypes DEF Owners
    <2> HIDE DEF f
    <2>3. sent[s] = <<>>
      BY <1>0, <2>1 DEF Opened
    <2>4. AuthFirst' /\ sent'[s] # <<>> /\ \A t \in Socks : t # s => sent'[t] = sent[t]
      BY <1>0, <2>1, <2>2, <2>3, FirstAuth
    <2>5. Opened' /\ QueuedOps'
      BY <1>0, <2>1, <2>4 DEF Opened, QueuedOps
    <2> QED BY <2>4, <2>5
  <1>7. ASSUME NEW s \in Socks, ConnectFail(s)
        PROVE  AuthFirst' /\ Opened' /\ QueuedOps'
    <2>1. s \in Owners
      BY DEF Owners
    <2>2. /\ Waiter(s, None) \in Waiters /\ Waiter(s, None).frame = None
          /\ <<Waiter(s, None)>> \in Seq(Waiters) /\ Unframed(<<Waiter(s, None)>>)
      BY <2>1, LoneWaiter
    <2>3. /\ Append(inflight, Waiter(s, None)) \in Seq(Waiters)
          /\ Unframed(Append(inflight, Waiter(s, None)))
      BY <1>0, <2>2, AppendFacts, LenProperties DEF Unframed
    <2>4. UNCHANGED <<sent, link>> /\ socket' = None
      BY <1>7 DEF ConnectFail, wireVars
    <2>5. \E q \in Seq(Waiters) : Unframed(q) /\ \E plan : DropWaiters(q, plan)
      BY <1>7, <2>2, <2>3 DEF ConnectFail
    <2> QED BY <1>a, <1>b, <2>4, <2>5
  <1>8. ASSUME NEW s \in Socks, ReplyIgnored(s) \/ ReplyToCall(s)
        PROVE  AuthFirst' /\ Opened' /\ QueuedOps'
    BY <1>8, <1>a DEF ReplyIgnored, ReplyToCall, dialVars
  <1>9. ASSUME NEW s \in Socks, NEW t \in Socks, ReplyToAuth(s, t) \/ ReplyToRereg(s, t)
        PROVE  AuthFirst' /\ Opened' /\ QueuedOps'
    <2>1. phase[t] # "connecting"
      BY <1>9 DEF ReplyToAuth, ReplyToRereg
    <2>2. CASE /\ phase' = [phase EXCEPT ![t] = "idle"]
               /\ UNCHANGED <<socket, offlineQueue, link, sent>>
      <3>1. \A u \in Socks : phase'[u] = "connecting" => phase[u] = "connecting"
        BY <1>0, <2>2
      <3> QED BY <1>a, <2>2, <3>1
    <2>3. CASE /\ \E p : Reregister(t, socket, Tail(inflight), p)
               /\ UNCHANGED <<socket, link>>
      BY <1>0, <2>1, <2>3, ReregisterAuth
    <2>4. CASE Shutdown /\ phase' = [phase EXCEPT ![t] = "idle"] /\ UNCHANGED sent
      <3>1. \A u \in Socks : phase'[u] = "connecting" => phase[u] = "connecting"
        BY <1>0, <2>4
      <3> QED BY <1>c, <2>4, <3>1
    <2> QED BY <1>9, <2>2, <2>3, <2>4 DEF ReplyToAuth, ReplyToRereg
  <1>10. ASSUME NEW s \in Socks, ReceivePush(s)
         PROVE  AuthFirst' /\ Opened' /\ QueuedOps'
    BY <1>10, <1>a DEF ReceivePush, queueVars, dialVars
  <1>11. ASSUME NEW s \in Socks, ReceiveBadPush(s)
         PROVE  AuthFirst' /\ Opened' /\ QueuedOps'
    <2>1. \A u \in Socks : phase'[u] = "connecting" => phase[u] = "connecting"
      BY <1>11 DEF ReceiveBadPush, RejectPhases
    <2> QED BY <1>11, <1>a, <2>1 DEF ReceiveBadPush
  <1>12. ASSUME NEW i \in DOMAIN inflight, RequestTimer(i)
         PROVE  AuthFirst' /\ Opened' /\ QueuedOps'
    <2>1. \A u \in Socks : phase'[u] = "connecting" => phase[u] = "connecting"
      BY <1>12 DEF RequestTimer, RejectPhases
    <2> QED BY <1>12, <1>a, <2>1 DEF RequestTimer, wireVars
  <1>13. ASSUME NEW s \in Socks, SocketClosed(s)
         PROVE  AuthFirst' /\ Opened' /\ QueuedOps'
    <2>1. /\ sent' = sent /\ socket' = None
          /\ \A u \in Socks : link'[u] = "none" <=> link[u] = "none"
      BY <1>0, <1>13 DEF SocketClosed, Alive
    <2>2. /\ offlineQueue' \in {offlineQueue, <<>>}
          /\ \A u \in Socks : phase'[u] = "connecting" => phase[u] = "connecting"
      BY <1>0, <1>13, <1>b DEF SocketClosed
    <2> QED BY <1>a, <2>1, <2>2
  <1>14. ASSUME NEW s \in Socks, Serve(s) \/ \E k \in Keys : Push(s, k)
         PROVE  AuthFirst' /\ Opened' /\ QueuedOps'
    BY <1>14, <1>a DEF Serve, Push, queueVars, dialVars, wireVars
  <1>15. ASSUME NEW s \in Socks, ServerForgets(s)
         PROVE  AuthFirst' /\ Opened' /\ QueuedOps'
    <2>1. /\ link[s] = "dead" /\ link' = [link EXCEPT ![s] = "none"]
          /\ sent' = [sent EXCEPT ![s] = <<>>]
          /\ UNCHANGED <<offlineQueue, phase, socket>>
      BY <1>15 DEF ServerForgets, queueVars, dialVars
    <2>2. AuthFirst'
      BY <1>0, <2>1, EmptyFacts DEF AuthFirst
    <2>3. Opened' /\ QueuedOps'
      BY <1>0, <2>1 DEF Opened, QueuedOps
    <2> QED BY <2>2, <2>3
  <1>16. CASE UNCHANGED vars
    BY <1>16, <1>a DEF vars, queueVars, dialVars, wireVars
  <1> QED
    BY <1>1, <1>2, <1>3, <1>4, <1>5, <1>6, <1>7, <1>8, <1>9, <1>10, <1>11, <1>12,
       <1>13, <1>14, <1>15, <1>16 DEF Next

\* With a token, the first frame of every connection is its auth request and no
\* other frame is, even when attempts overlap or close() and a reconnect race.
THEOREM AuthComesFirst == Spec => []AuthFirst
  <1>1. Init => AuthInv
    BY EmptyFacts DEF Init, AuthInv, AuthFirst, Opened, QueuedOps
  <1>2. AuthInv => AuthFirst
    BY DEF AuthInv, AuthFirst
  <1> QED
    BY <1>1, <1>2, BaseInvInit, BaseInvNext, AuthNext, PTL DEF Spec

-----------------------------------------------------------------------------
(* The offline queue.                                                       *)

\* No waiter of a connection attempt is rejected while its connection lasts:
\* there are no request timeouts and every frame can be decoded.  Otherwise a
\* doConnect() gives up before the flush and leaves the queue behind.
Unhurried == ~RequestTimeout /\ ~MalformedPush /\ "bad" \notin Verdicts

\* Every step that ends the last attempt flushes or drops the queue.
LEMMA StrandedNext ==
    ASSUME Unhurried, BaseInv, NoStrandedQueue, [Next]_vars
    PROVE  NoStrandedQueue'
  <1>0. phase \in [Socks -> Phases] /\ cursor \in [Socks -> Nat]
        /\ socket \in Socks \cup {None}
    BY DEF BaseInv, TypeOK
  <1>a. ASSUME offlineQueue' \in {offlineQueue, <<>>}, UNCHANGED <<socket, phase>>
        PROVE  NoStrandedQueue'
    BY <1>a DEF NoStrandedQueue
  <1>b. ASSUME NEW c, NEW f, Send(c, f), UNCHANGED <<socket, phase>>
        PROVE  NoStrandedQueue'
    BY <1>b DEF Send, NoStrandedQueue, queueVars
  <1>c. ASSUME NEW s \in Socks, NEW q, NEW p, Reregister(s, socket, q, p), UNCHANGED socket
        PROVE  NoStrandedQueue'
    <2>1. CASE phase' = [phase EXCEPT ![s] = "rereg"]
      <3>1. phase'[s] # "idle"
        BY <1>0, <2>1
      <3> QED BY <3>1 DEF NoStrandedQueue
    <2>2. CASE socket = None \/ offlineQueue' = <<>>
      BY <1>c, <2>2 DEF NoStrandedQueue
    <2> QED BY <1>c, <2>1, <2>2 DEF Reregister, FlushOfflineQueue, QueueAfterFlush
  <1>1. CASE \E c \in Calls : Request(c) \/ \E k \in Keys : Watch(c, k) \/ Unwatch(c, k)
    BY <1>1, <1>a, <1>b DEF Request, Watch, Unwatch, dialVars, queueVars
  <1>2. CASE Close
    BY <1>2 DEF Close, Shutdown, NoStrandedQueue
  <1>3. CASE Connect \/ ReconnectTimer
    <2>1. PICK s \in Socks : phase' = [phase EXCEPT ![s] = "connecting"]
      BY <1>3 DEF Connect, ReconnectTimer, StartConnect
    <2>2. phase'[s] # "idle"
      BY <1>0, <2>1
    <2> QED BY <2>2 DEF NoStrandedQueue
  <1>4. ASSUME NEW s \in Socks, ConnectOk(s)
        PROVE  NoStrandedQueue'
    <2>1. CASE phase' = [phase EXCEPT ![s] = "auth"] \/ phase' = [phase EXCEPT ![s] = "rereg"]
      <3>1. phase'[s] # "idle"
        BY <1>0, <2>1
      <3> QED BY <3>1 DEF NoStrandedQueue
    <2>2. CASE offlineQueue' = <<>>
      BY <2>2 DEF NoStrandedQueue
    <2>3. s # None
      BY ConstantsAssumption
    <2> QED
      BY <1>4, <2>1, <2>2, <2>3 DEF ConnectOk, Reregister, FlushOfflineQueue, QueueAfterFlush
  <1>5. ASSUME NEW s \in Socks, ConnectFail(s) \/ SocketClosed(s)
        PROVE  NoStrandedQueue'
    BY <1>5 DEF ConnectFail, SocketClosed, NoStrandedQueue
  <1>6. ASSUME NEW s \in Socks, ReplyIgnored(s) \/ ReplyToCall(s)
        PROVE  NoStrandedQueue'
    BY <1>6, <1>a DEF ReplyIgnored, ReplyToCall, dialVars
  <1>7. ASSUME NEW s \in Socks, NEW t \in Socks, ReplyToAuth(s, t) \/ ReplyToRereg(s, t)
        PROVE  NoStrandedQueue'
    <2>1. Verdict(s) # "bad"
      BY <1>7, TakeReplyTypes DEF ReplyToAuth, ReplyToRereg, Unhurried
    <2>2. CASE Shutdown
      BY <2>2 DEF Shutdown, NoStrandedQueue
    <2> QED BY <1>7, <1>c, <2>1, <2>2 DEF ReplyToAuth, ReplyToRereg
  <1>8. ASSUME NEW s \in Socks, ReceivePush(s) \/ Serve(s) \/ ServerForgets(s)
                                \/ \E k \in Keys : Push(s, k)
        PROVE  NoStrandedQueue'
    BY <1>8, <1>a DEF ReceivePush, Serve, ServerForgets, Push, queueVars, dialVars
  <1>9. CASE UNCHANGED vars
    BY <1>9, <1>a DEF vars, queueVars, dialVars
  <1>10. (\A s \in Socks : ~ReceiveBadPush(s)) /\ \A i \in DOMAIN inflight : ~RequestTimer(i)
    BY DEF Unhurried, ReceiveBadPush, RequestTimer
  <1> QED
    BY <1>1, <1>2, <1>3, <1>4, <1>5, <1>6, <1>7, <1>8, <1>9, <1>10 DEF Next

\* Without request timeouts and undecodable frames no call is left behind in
\* the offline queue on a working connection: whoever ends the last connection
\* attempt flushes the queue, or drops it with the connection.
THEOREM QueueIsFlushed == Unhurried /\ Spec => []NoStrandedQueue
  <1> SUFFICES ASSUME Unhurried
               PROVE  Spec => []NoStrandedQueue
    OBVIOUS
  <1>1. Init => NoStrandedQueue
    BY DEF Init, NoStrandedQueue
  <1> QED
    BY <1>1, BaseInvInit, BaseInvNext, StrandedNext, PTL DEF Spec

=============================================================================
