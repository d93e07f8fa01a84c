------------------------ MODULE NodeTcpPairingProofs -------------------------
(***************************************************************************)
(* Proof that the Node client pairs every reply with the call it answers,  *)
(* provided attempts to connect do not overlap and pushed frames can be    *)
(* decoded.  The client matches replies to waiters by position, so the     *)
(* invariant says that the waiters in flight are, one by one, the owners   *)
(* of the frames still unanswered on the one connection that is alive.     *)
(* From it follow the refinement of CallService and, when the server does  *)
(* what it is asked, that watches survive reconnects.                      *)
(***************************************************************************)
EXTENDS NodeTcpClientProofs

-----------------------------------------------------------------------------
(* The inductive invariant.                                                 *)

\* The frames of sq after the first r belong, in order, to the waiters of q.
Matches(sq, r, q) ==
    /\ Len(sq) = r + Len(q)
    /\ \A i \in 1..Len(q) : sq[r + i].owner = q[i].owner

\* Whatever is alive is the current socket, or the one close() half closed.
SocketsOK ==
    /\ socket # None => link[socket] = "open"
    /\ \A s \in Socks :
         /\ link[s] = "open" => socket = s
         /\ link[s] = "closing" =>
              /\ destroyed /\ socket = None
              /\ \A t \in Socks : phase[t] # "connecting" /\ (link[t] = "closing" => t = s)
         /\ link[s] = "none" => sent[s] = <<>> /\ recvd[s] = 0
    /\ reconnectTimer => ~destroyed /\ socket = None

\* An attempt is alone, starts with nothing in flight, and while it waits for
\* a reply its waiter is in flight.
AttemptsOK ==
    /\ \A s \in Socks :
         /\ phase[s] = "connecting" =>
              /\ link[s] = "none" /\ socket = None /\ inflight = <<>> /\ ~reconnectTimer
              /\ \A t \in Socks : phase[t] = "connecting" => t = s
         /\ phase[s] \in {"auth", "rereg"} => Awaits(inflight, s)
    /\ socket = None /\ ~destroyed => inflight = <<>>

Aligned == \A s \in Socks : Alive(s) => Matches(sent[s], recvd[s], inflight)

\* A queued waiter waits for the reply to its own frame.
QueueOwners ==
    \A i \in 1..Len(offlineQueue) : offlineQueue[i].frame.owner = offlineQueue[i].owner

PairInv == SocketsOK /\ AttemptsOK /\ Aligned /\ QueueOwners /\ OwnReply

-----------------------------------------------------------------------------
(* Matching frames and waiters, and waiting, as the sequences change.       *)

\* A frame and its waiter are added.
LEMMA MatchesAppend ==
    ASSUME NEW sq \in Seq(Frames), NEW r \in Nat, NEW q \in Seq(Waiters), Matches(sq, r, q),
           NEW f \in Frames, NEW w \in Waiters, f.owner = w.owner
    PROVE  Matches(Append(sq, f), r, Append(q, w))
  <1>1. /\ Len(sq) \in Nat /\ Len(q) \in Nat /\ Len(sq) = r + Len(q)
        /\ \A i \in 1..Len(q) : sq[r + i].owner = q[i].owner
    BY LenProperties DEF Matches
  <1>2. /\ Len(Append(sq, f)) = Len(sq) + 1 /\ Append(sq, f)[Len(sq) + 1] = f
        /\ \A i \in 1..Len(sq) : Append(sq, f)[i] = sq[i]
        /\ Len(Append(q, w)) = Len(q) + 1 /\ Append(q, w)[Len(q) + 1] = w
        /\ \A i \in 1..Len(q) : Append(q, w)[i] = q[i]
    BY AppendFacts
  <1>3. ASSUME NEW i \in 1..Len(q) + 1
        PROVE  Append(sq, f)[r + i].owner = Append(q, w)[i].owner
    <2>1. CASE i = Len(q) + 1
      <3>1. r + i = Len(sq) + 1
        BY <1>1, <2>1
      <3> QED
        BY <1>2, <2>1, <3>1
    <2>2. CASE i # Len(q) + 1
      <3>1. i \in 1..Len(q) /\ r + i \in 1..Len(sq)
        BY <1>1, <2>2
      <3> QED
        BY <1>1, <1>2, <3>1
    <2> QED
      BY <2>1, <2>2
  <1>4. Len(Append(sq, f)) = r + Len(Append(q, w))
    BY <1>1, <1>2
  <1> QED
    BY <1>2, <1>3, <1>4 DEF Matches

\* A reply takes the oldest waiter.
LEMMA MatchesTail ==
    ASSUME NEW sq \in Seq(Frames), NEW r \in Nat, NEW q \in Seq(Waiters), Matches(sq, r, q),
           q # <<>>
    PROVE  Matches(sq, r + 1, Tail(q))
  <1>1. /\ Tail(q) \in Seq(Waiters) /\ Len(Tail(q)) = Len(q) - 1 /\ Len(q) \in Nat \ {0}
        /\ \A i \in 1..Len(q) - 1 : Tail(q)[i] = q[i + 1]
    BY TailFacts
  <1>2. Len(sq) = r + Len(q) /\ \A i \in 1..Len(q) : sq[r + i].owner = q[i].owner
    BY DEF Matches
  <1>3. ASSUME NEW i \in 1..Len(q) - 1
        PROVE  sq[r + 1 + i].owner = Tail(q)[i].owner
    <2>1. i + 1 \in 1..Len(q) /\ r + (i + 1) = r + 1 + i
      BY <1>1
    <2> QED
      BY <1>1, <1>2, <2>1
  <1> QED
    BY <1>1, <1>2, <1>3 DEF Matches

\* Frames written one batch after another.
LEMMA FramesConcat ==
    \A sq, fs \in Seq(Frames) :
        /\ Len(sq \o fs) = Len(sq) + Len(fs)
        /\ \A i \in 1..Len(sq) + Len(fs) :
             (sq \o fs)[i] = IF i <= Len(sq) THEN sq[i] ELSE fs[i - Len(sq)]
  BY ConcatProperties

\* A batch of frames and their waiters are added.
LEMMA MatchesConcat ==
    ASSUME NEW sq \in Seq(Frames), NEW r \in Nat, NEW q \in Seq(Waiters), Matches(sq, r, q),
           NEW fs \in Seq(Frames), NEW ws \in Seq(Waiters), Len(fs) = Len(ws),
           \A i \in 1..Len(ws) : fs[i].owner = ws[i].owner
    PROVE  Matches(sq \o fs, r, q \o ws)
  <1>1. /\ Len(sq) \in Nat /\ Len(q) \in Nat /\ Len(ws) \in Nat /\ Len(sq) = r + Len(q)
        /\ \A i \in 1..Len(q) : sq[r + i].owner = q[i].owner
    BY LenProperties DEF Matches
  <1>a. /\ Len(sq \o fs) = Len(sq) + Len(fs)
        /\ \A i \in 1..Len(sq) + Len(fs) :
             (sq \o fs)[i] = IF i <= Len(sq) THEN sq[i] ELSE fs[i - Len(sq)]
    BY FramesConcat, Zenon
  <1>2. /\ Len(sq \o fs) = Len(sq) + Len(ws)
        /\ \A i \in 1..Len(sq) + Len(ws) :
             (sq \o fs)[i] = IF i <= Len(sq) THEN sq[i] ELSE fs[i - Len(sq)]
    BY <1>a, Zenon
  <1>3. /\ Len(q \o ws) = Len(q) + Len(ws)
        /\ \A i \in 1..Len(q) + Len(ws) :
             (q \o ws)[i] = IF i <= Len(q) THEN q[i] ELSE ws[i - Len(q)]
    BY ConcatProperties
  <1>4. ASSUME NEW i \in 1..Len(q) + Len(ws)
        PROVE  (sq \o fs)[r + i].owner = (q \o ws)[i].owner
    <2>1. CASE i <= Len(q)
      <3>1. i \in 1..Len(q) /\ r + i \in 1..Len(sq) + Len(ws) /\ r + i <= Len(sq)
        BY <1>1, <2>1
      <3> QED
        BY <1>1, <1>2, <1>3, <2>1, <3>1
    <2>2. CASE i > Len(q)
      <3>1. /\ i - Len(q) \in 1..Len(ws) /\ r + i \in 1..Len(sq) + Len(ws)
            /\ ~(r + i <= Len(sq)) /\ ~(i <= Len(q)) /\ r + i - Len(sq) = i - Len(q)
        BY <1>1, <2>2
      <3>2. (sq \o fs)[r + i] = fs[i - Len(q)] /\ (q \o ws)[i] = ws[i - Len(q)]
        BY <1>2, <1>3, <3>1, SMTT(30)
      <3> QED
        BY <3>1, <3>2
    <2> QED
      BY <1>1, <2>1, <2>2, SMTT(30)
  <1>5. ASSUME NEW a \in Nat, NEW b \in Nat, a = r + b
        PROVE  a + Len(ws) = r + (b + Len(ws))
    BY <1>1, <1>5
  <1>6. Len(sq \o fs) = r + Len(q \o ws)
    <2>1. Len(sq) + Len(ws) = r + (Len(q) + Len(ws))
      BY <1>1, <1>5
    <2> QED
      BY <1>2, <1>3, <2>1, Zenon
  <1> QED
    BY <1>3, <1>4, <1>6 DEF Matches

\* A waiter is marked as settled.
LEMMA MatchesSettle ==
    ASSUME NEW sq \in Seq(Frames), NEW r \in Nat, NEW q \in Seq(Waiters), Matches(sq, r, q),
           NEW i \in 1..Len(q)
    PROVE  Matches(sq, r, [q EXCEPT ![i].settled = TRUE])
  <1> DEFINE w == [q[i] EXCEPT !.settled = TRUE]
             p == [q EXCEPT ![i] = w]
  <1>1. q[i] \in Waiters
    BY ElementOfSeq
  <1>2. w \in Waiters /\ w.owner = q[i].owner
    BY <1>1 DEF Waiters
  <1>3. Len(p) = Len(q) /\ \A j \in 1..Len(q) : p[j] = IF j = i THEN w ELSE q[j]
    BY <1>2, ExceptSeq
  <1>4. \A j \in 1..Len(q) : p[j].owner = q[j].owner
    BY <1>2, <1>3
  <1> QED
    BY <1>3, <1>4 DEF Matches

\* Waiting survives additions behind.
LEMMA AwaitsAppend ==
    ASSUME NEW q \in Seq(Waiters), NEW w \in Waiters, NEW o
    PROVE  /\ Awaits(q, o) => Awaits(Append(q, w), o)
           /\ w.owner = o /\ ~w.settled => Awaits(Append(q, w), o)
  <1>1. /\ DOMAIN q = 1..Len(q) /\ Len(q) \in Nat /\ DOMAIN Append(q, w) = 1..Len(q) + 1
        /\ \A i \in 1..Len(q) : Append(q, w)[i] = q[i]
        /\ Append(q, w)[Len(q) + 1] = w
    BY AppendFacts, LenProperties
  <1>2. \A i \in 1..Len(q) : i \in 1..Len(q) + 1
    BY <1>1
  <1>3. Len(q) + 1 \in 1..Len(q) + 1
    BY <1>1
  <1> QED
    BY <1>1, <1>2, <1>3 DEF Awaits

LEMMA AwaitsConcat ==
    ASSUME NEW q \in Seq(Waiters), NEW ws \in Seq(Waiters), NEW o, Awaits(q, o)
    PROVE  Awaits(q \o ws, o)
  <1>1. PICK i \in 1..Len(q) : q[i].owner = o /\ ~q[i].settled
    BY LenProperties DEF Awaits
  <1>2. /\ Len(q) \in Nat /\ Len(ws) \in Nat /\ q \o ws \in Seq(Waiters)
        /\ Len(q \o ws) = Len(q) + Len(ws)
        /\ \A j \in 1..Len(q) + Len(ws) :
             (q \o ws)[j] = IF j <= Len(q) THEN q[j] ELSE ws[j - Len(q)]
    BY ConcatProperties, LenProperties
  <1>3. i \in 1..Len(q) + Len(ws) /\ i <= Len(q) /\ DOMAIN (q \o ws) = 1..Len(q) + Len(ws)
    BY <1>2, LenProperties
  <1>4. (q \o ws)[i] = q[i]
    BY <1>2, <1>3
  <1> QED
    BY <1>1, <1>3, <1>4 DEF Awaits

\* Waiting survives the loss of a head that is someone else's or settled.
LEMMA AwaitsTail ==
    ASSUME NEW q \in Seq(Waiters), q # <<>>, NEW o, Awaits(q, o),
           Head(q).owner # o \/ Head(q).settled
    PROVE  Awaits(Tail(q), o)
  <1>1. PICK i \in 1..Len(q) : q[i].owner = o /\ ~q[i].settled
    BY LenProperties DEF Awaits
  <1>2. /\ Len(q) \in Nat \ {0} /\ Head(q) = q[1]
        /\ DOMAIN Tail(q) = 1..Len(q) - 1
        /\ \A j \in 1..Len(q) - 1 : Tail(q)[j] = q[j + 1]
    BY TailFacts
  <1>3. i # 1
    BY <1>1, <1>2
  <1>4. i - 1 \in 1..Len(q) - 1 /\ i - 1 + 1 = i
    BY <1>2, <1>3
  <1>5. Tail(q)[i - 1] = q[i]
    BY <1>2, <1>4
  <1> QED
    BY <1>1, <1>2, <1>4, <1>5 DEF Awaits

\* Waiting survives the timeout of someone else's waiter.
LEMMA AwaitsSettle ==
    ASSUME NEW q \in Seq(Waiters), NEW i \in 1..Len(q), NEW o, Awaits(q, o),
           q[i].owner # o
    PROVE  Awaits([q EXCEPT ![i].settled = TRUE], o)
  <1> DEFINE w == [q[i] EXCEPT !.settled = TRUE]
  <1>1. PICK j \in 1..Len(q) : q[j].owner = o /\ ~q[j].settled
    BY LenProperties DEF Awaits
  <1>2. DOMAIN [q EXCEPT ![i] = w] = 1..Len(q) /\ [q EXCEPT ![i] = w][j] = q[j]
    BY <1>1, LenProperties
  <1> QED
    BY <1>1, <1>2 DEF Awaits

\* Nobody waits in the empty list.
LEMMA AwaitsNothing == \A o : ~Awaits(<<>>, o)
  BY EmptyFacts DEF Awaits

-----------------------------------------------------------------------------
(* The parts actions are made of.                                           *)

\* Writing one frame.
LEMMA WritePairs ==
    ASSUME TypeOK, NEW sk \in Socks, NEW q \in Seq(Waiters), NEW r \in Nat,
           Matches(sent[sk], r, q), NEW f \in Frames, WriteInflight(sk, q, f)
    PROVE  /\ Matches(sent'[sk], r, inflight')
           /\ \A t \in Socks \ {sk} : sent'[t] = sent[t]
           /\ \A o : Awaits(q, o) => Awaits(inflight', o)
           /\ Awaits(inflight', f.owner)
  <1>1. sent[sk] \in Seq(Frames) /\ f.owner \in Owners /\ None \in Frames \cup {None}
    BY DEF TypeOK, Frames
  <1>2. /\ Waiter(f.owner, None) \in Waiters /\ Waiter(f.owner, None).owner = f.owner
        /\ Waiter(f.owner, None).settled = FALSE
    BY <1>1, WaiterTypes
  <1>3. /\ inflight' = Append(q, Waiter(f.owner, None))
        /\ sent'[sk] = Append(sent[sk], f)
        /\ \A t \in Socks \ {sk} : sent'[t] = sent[t]
    BY DEF WriteInflight, TypeOK
  <1>4. Matches(Append(sent[sk], f), r, Append(q, Waiter(f.owner, None)))
    BY <1>1, <1>2, MatchesAppend
  <1>5. /\ \A o : Awaits(q, o) => Awaits(Append(q, Waiter(f.owner, None)), o)
        /\ Awaits(Append(q, Waiter(f.owner, None)), f.owner)
    BY <1>2, AwaitsAppend
  <1> QED
    BY <1>3, <1>4, <1>5

\* Writing the whole queue.
LEMMA FlushPairs ==
    ASSUME BaseInv, QueueOwners, NEW sk \in Socks, NEW q \in Seq(Waiters), NEW r \in Nat,
           Matches(sent[sk], r, q), FlushOfflineQueue(sk, q)
    PROVE  /\ Matches(sent'[sk], r, inflight')
           /\ \A t \in Socks \ {sk} : sent'[t] = sent[t]
           /\ \A o : Awaits(q, o) => Awaits(inflight', o)
           /\ offlineQueue' = <<>>
  <1>1. PICK ws \in Seq(Waiters), fs \in Seq(Frames) :
             /\ Len(ws) = Len(offlineQueue) /\ Len(fs) = Len(offlineQueue)
             /\ \A i \in 1..Len(offlineQueue) :
                  /\ ws[i].frame = None /\ ws[i].owner = offlineQueue[i].owner
                  /\ ws[i].settled = offlineQueue[i].settled
                  /\ fs[i] = offlineQueue[i].frame
             /\ inflight' = q \o ws
             /\ sent' = [sent EXCEPT ![sk] = @ \o fs]
             /\ offlineQueue' = <<>>
             /\ outcome' = outcome
    BY FlushShape
  <1>2. Len(fs) = Len(ws) /\ \A i \in 1..Len(ws) : fs[i].owner = ws[i].owner
    BY <1>1 DEF QueueOwners
  <1>3. sent \in [Socks -> Seq(Frames)]
    BY DEF BaseInv, TypeOK
  <1>4. Matches(sent[sk] \o fs, r, q \o ws)
    BY <1>2, <1>3, MatchesConcat
  <1>5. /\ sent'[sk] = sent[sk] \o fs
        /\ \A t \in Socks \ {sk} : sent'[t] = sent[t]
    BY <1>1, <1>3
  <1>6. \A o : Awaits(q, o) => Awaits(q \o ws, o)
    BY AwaitsConcat
  <1> QED
    BY <1>1, <1>4, <1>5, <1>6

\* doConnect() number s from the re-registration of watches on.
LEMMA ReregisterPairs ==
    ASSUME BaseInv, QueueOwners, NEW s \in Socks, NEW sk \in Socks \cup {None},
           NEW q \in Seq(Waiters), NEW p \in Nat, NEW r \in Nat,
           sk # None => Matches(sent[sk], r, q), Reregister(s, sk, q, p)
    PROVE  /\ sk # None => Matches(sent'[sk], r, inflight')
           /\ sk = None => inflight' = q
           /\ \A t \in Socks : t # sk => sent'[t] = sent[t]
           /\ \A o : Awaits(q, o) => Awaits(inflight', o)
           /\ phase'[s] = "idle" \/ (phase'[s] = "rereg" /\ Awaits(inflight', s))
           /\ \A t \in Socks \ {s} : phase'[t] = phase[t]
           /\ offlineQueue' \in {offlineQueue, <<>>}
           /\ outcome' = outcome
  <1>0. phase \in [Socks -> Phases] /\ outcome \in [Calls -> Outcomes]
    BY DEF BaseInv, TypeOK
  <1>1. CASE /\ sk # None
             /\ \E k \in RemainingWatches(p) : WriteInflight(sk, q, Frame(s, "watch", k))
             /\ phase' = [phase EXCEPT ![s] = "rereg"]
             /\ UNCHANGED <<offlineQueue, outcome>>
    <2>1. PICK k \in Keys : WriteInflight(sk, q, Frame(s, "watch", k))
      BY <1>1 DEF RemainingWatches
    <2>2. Frame(s, "watch", k) \in Frames /\ Frame(s, "watch", k).owner = s
      BY FrameTypes DEF Owners
    <2>3. /\ Matches(sent'[sk], r, inflight')
          /\ \A t \in Socks \ {sk} : sent'[t] = sent[t]
          /\ \A o : Awaits(q, o) => Awaits(inflight', o)
          /\ Awaits(inflight', s)
      BY <1>1, <2>1, <2>2, WritePairs DEF BaseInv
    <2>4. phase'[s] = "rereg" /\ \A t \in Socks \ {s} : phase'[t] = phase[t]
      BY <1>0, <1>1
    <2> QED
      BY <1>1, <2>3, <2>4
  <1>2. CASE /\ sk # None
             /\ FlushOfflineQueue(sk, q)
             /\ phase' = [phase EXCEPT ![s] = "idle"]
    <2>1. outcome' = outcome
      BY <1>2, FlushShape
    <2> QED
      BY <1>0, <1>2, <2>1, FlushPairs
  <1>3. CASE /\ sk = None /\ inflight' = q
             /\ phase' = [phase EXCEPT ![s] = "idle"]
             /\ UNCHANGED <<offlineQueue, sent, outcome>>
    BY <1>0, <1>3
  <1> QED
    BY <1>1, <1>2, <1>3 DEF Reregister

-----------------------------------------------------------------------------
(* The invariant holds initially and is kept by every step.                 *)

LEMMA PairInvInit == Init => PairInv
  <1> SUFFICES ASSUME Init
               PROVE  PairInv
    OBVIOUS
  <1>1. SocketsOK /\ AttemptsOK /\ OwnReply
    BY DEF Init, SocketsOK, AttemptsOK, OwnReply
  <1>2. Aligned
    BY DEF Init, Aligned, Alive
  <1>3. QueueOwners
    BY EmptyFacts DEF Init, QueueOwners
  <1> QED
    BY <1>1, <1>2, <1>3 DEF PairInv

\* Only the current socket is alive, or else the half-closed one.
LEMMA AliveIsCurrent ==
    ASSUME TypeOK, SocketsOK, NEW s \in Socks, Alive(s)
    PROVE  /\ socket \in {s, None}
           /\ \A t \in Socks : Alive(t) => t = s
           /\ \A t \in Socks : phase[t] = "connecting" /\ AttemptsOK => FALSE
  BY ConstantsAssumption DEF TypeOK, SocketsOK, Alive, AttemptsOK

\* send() keeps the invariant: the frame is refused, queued, or written on the
\* current socket behind everything in flight.
LEMMA SendPairs ==
    ASSUME BaseInv, PairInv, NEW c \in Calls, NEW f \in Frames, f.owner = c,
           outcome[c] = "idle", Send(c, f),
           UNCHANGED <<lifeVars, phase, socket, reply, link, recvd>>
    PROVE  PairInv'
  <1> USE DEF PairInv
  <1>0. TypeOK /\ inflight \in Seq(Waiters) /\ offlineQueue \in Seq(Waiters)
    BY DEF BaseInv, TypeOK
  <1>1. OwnReply'
    BY <1>0 DEF OwnReply, Send, TypeOK
  <1>2. CASE UNCHANGED <<inflight, offlineQueue, sent>>
    BY <1>1, <1>2 DEF SocketsOK, AttemptsOK, Aligned, Alive, QueueOwners, lifeVars
  <1>3. CASE /\ offlineQueue' = Append(offlineQueue, Waiter(c, f))
             /\ UNCHANGED <<inflight, sent>>
    <2>0. c \in Owners /\ f \in Frames \cup {None}
      BY DEF Owners
    <2>1. /\ Waiter(c, f) \in Waiters /\ Waiter(c, f).frame = f /\ Waiter(c, f).owner = c
      BY <2>0, WaiterTypes
    <2>2. QueueOwners'
      BY <1>0, <1>3, <2>1, AppendFacts DEF QueueOwners
    <2> QED
      BY <1>1, <1>3, <2>2 DEF SocketsOK, AttemptsOK, Aligned, Alive, lifeVars
  <1>4. CASE /\ socket # None
             /\ WriteInflight(socket, inflight, f)
             /\ UNCHANGED offlineQueue
    <2>1. socket \in Socks /\ Alive(socket) /\ recvd[socket] \in Nat
      BY <1>0, <1>4 DEF TypeOK, SocketsOK, Alive
    <2>2. /\ Matches(sent'[socket], recvd[socket], inflight')
          /\ \A t \in Socks \ {socket} : sent'[t] = sent[t]
          /\ \A o : Awaits(inflight, o) => Awaits(inflight', o)
      BY <1>0, <1>4, <2>1, WritePairs DEF Aligned
    <2>3. Aligned'
      <3>1. \A t \in Socks : Alive(t)' => t = socket
        BY <1>0, <2>1, AliveIsCurrent DEF Alive
      <3> QED
        BY <2>2, <3>1 DEF Aligned
    <2>4. SocketsOK'
      BY <1>4, <2>1, <2>2 DEF SocketsOK, lifeVars, Alive
    <2>5. AttemptsOK'
      BY <1>4, <2>2 DEF AttemptsOK, lifeVars
    <2>6. QueueOwners'
      BY <1>4 DEF QueueOwners
    <2> QED
      BY <1>1, <2>3, <2>4, <2>5, <2>6
  <1> QED
    BY <1>2, <1>3, <1>4 DEF Send, queueVars

\* Rejecting promises gives no call a reply.
LEMMA RejectionKeepsOwnReply ==
    ASSUME OwnReply, UNCHANGED reply,
           \A c \in Calls : outcome'[c] \in {"unknown", "refused", outcome[c]}
    PROVE  OwnReply'
  BY DEF OwnReply

\* The queue is left alone or emptied.
LEMMA QueueOwnersKept ==
    ASSUME QueueOwners, offlineQueue' \in {offlineQueue, <<>>}
    PROVE  QueueOwners'
  BY EmptyFacts DEF QueueOwners

\* A loss with q in flight ends the attempts that wait in q and rejects calls.
LEMMA DropPairs ==
    ASSUME BaseInv, NEW q \in Seq(Waiters), Unframed(q), NEW plan, DropWaiters(q, plan)
    PROVE  /\ \A c \in Calls : outcome'[c] \in {"unknown", "refused", outcome[c]}
           /\ offlineQueue' \in {offlineQueue, <<>>}
           /\ \A t \in Socks : phase'[t] = IF Awaits(q, t) THEN "idle" ELSE phase[t]
           /\ reconnectTimer' = (reconnectTimer \/ plan = "arm")
  <1>1. offlineQueue' \in {offlineQueue, <<>>}
    BY DropTypes
  <1>2. \A c \in Calls : outcome'[c] \in {"unknown", "refused", outcome[c]}
    BY DEF DropWaiters
  <1> QED
    BY <1>1, <1>2 DEF DropWaiters, RejectPhases

\* The timer is armed only by a client that is not destroyed.
LEMMA ArmedAlive ==
    \A att : RetryPlan(att) = "arm" => ~destroyed
  BY DEF RetryPlan

\* A reply comes to the waiter of the request it answers.
LEMMA TakePairs ==
    ASSUME BaseInv, PairInv, NEW s \in Socks, TakeReply(s)
    PROVE  /\ inflight # <<>> /\ Tail(inflight) \in Seq(Waiters)
           /\ recvd'[s] \in Nat /\ \A t \in Socks \ {s} : recvd'[t] = recvd[t]
           /\ Matches(sent[s], recvd'[s], Tail(inflight))
           /\ Answered(s).owner = Head(inflight).owner
           /\ \A o : Awaits(inflight, o) /\ (Head(inflight).owner # o \/ Head(inflight).settled)
                     => Awaits(Tail(inflight), o)
           /\ socket = None => destroyed
  <1>0. /\ inflight \in Seq(Waiters) /\ recvd[s] \in Nat /\ sent[s] \in Seq(Frames)
        /\ recvd'[s] = recvd[s] + 1 /\ \A t \in Socks \ {s} : recvd'[t] = recvd[t]
    BY DEF BaseInv, TypeOK, TakeReply
  <1>1. Len(sent[s]) \in Nat /\ Len(replies[s]) \in Nat /\ recvd[s] < Len(sent[s])
    BY <1>0, SentLengths DEF BaseInv, WireOK, TakeReply
  <1>2. Matches(sent[s], recvd[s], inflight)
    BY DEF PairInv, Aligned, TakeReply
  <1>3. Len(inflight) # 0
    BY <1>0, <1>1, <1>2 DEF Matches
  <1>4. inflight # <<>>
    BY <1>3, EmptyFacts
  <1>5. Matches(sent[s], recvd'[s], Tail(inflight))
    BY <1>0, <1>2, <1>4, MatchesTail
  <1>6. Head(inflight) = inflight[1] /\ Tail(inflight) \in Seq(Waiters) /\ Len(inflight) \in Nat \ {0}
    BY <1>0, <1>4, TailFacts
  <1>7. 1 \in 1..Len(inflight)
    BY <1>6
  <1>8. Answered(s).owner = Head(inflight).owner
    BY <1>2, <1>6, <1>7 DEF Matches, Answered
  <1>9. \A o : Awaits(inflight, o) /\ (Head(inflight).owner # o \/ Head(inflight).settled)
             => Awaits(Tail(inflight), o)
    BY <1>0, <1>4, AwaitsTail
  <1>10. socket = None => destroyed
    BY <1>4 DEF PairInv, AttemptsOK
  <1> QED
    BY <1>0, <1>4, <1>5, <1>6, <1>8, <1>9, <1>10

\* What is left to show when a reply has been taken on s and only the attempt
\* t, whose waiter it was, has moved on.
LEMMA ReplyKeeps ==
    ASSUME BaseInv, PairInv, NEW s \in Socks, NEW t \in Socks, TakeReply(s),
           Matches(sent'[s], recvd'[s], inflight'),
           \A u \in Socks \ {s} : link[u] = "none" => sent'[u] = sent[u],
           \A u \in Socks \ {t} : phase'[u] = phase[u],
           \A u \in Socks \ {t} : Awaits(inflight, u) => Awaits(inflight', u),
           \/ phase'[t] = "idle"
           \/ phase'[t] \in {"auth", "rereg"} /\ Awaits(inflight', t),
           offlineQueue' \in {offlineQueue, <<>>},
           \A c \in Calls : outcome'[c] \in {"unknown", "refused", outcome[c]},
           UNCHANGED <<socket, destroyed, reconnectTimer, link, reply>>
    PROVE  PairInv'
  <1> USE DEF PairInv
  <1>1. /\ socket \in {s, None}
        /\ \A u \in Socks : Alive(u) => u = s
        /\ \A u \in Socks : phase[u] # "connecting"
    BY AliveIsCurrent DEF BaseInv, TakeReply
  <1>2. link[s] # "none" /\ Alive(s)
    BY DEF TakeReply, Alive
  <1>3. SocketsOK'
    BY <1>1, <1>2, TakePairs DEF SocketsOK
  <1>4. AttemptsOK'
    BY <1>1, TakePairs DEF AttemptsOK
  <1>5. Aligned'
    BY <1>1 DEF Aligned, Alive
  <1> QED
    BY <1>3, <1>4, <1>5, QueueOwnersKept, RejectionKeepsOwnReply

\* The application's attempts do not overlap and every push can be decoded.
Discipline == ~OverlappingConnects /\ ~MalformedPush

\* close() half closes the current socket, which stays the only one alive.
LEMMA ShutdownPairs ==
    ASSUME BaseInv, PairInv, Shutdown,
           UNCHANGED <<reply, sent>>
    PROVE  /\ \A s \in Socks : (Alive(s)' <=> Alive(s)) /\ (link'[s] = "none" <=> link[s] = "none")
           /\ \A s \in Socks : link'[s] # "open"
           /\ \A s \in Socks : link'[s] = "closing" =>
                /\ \A t \in Socks : phase[t] # "connecting"
                /\ \A t \in Socks : link'[t] = "closing" => t = s
           /\ socket' = None /\ destroyed' /\ ~reconnectTimer'
           /\ QueueOwners' /\ OwnReply'
  <1> USE DEF PairInv
  <1>1. socket' = None /\ destroyed' /\ ~reconnectTimer'
    BY DEF Shutdown, TimerAfterClose
  <1>2. QueueOwners'
    BY QueueOwnersKept DEF Shutdown
  <1>3. OwnReply'
    BY RejectionKeepsOwnReply DEF Shutdown, RejectCalls
  <1>4. \A s \in Socks : link'[s] = IF s = socket THEN "closing" ELSE link[s]
    BY DEF Shutdown
  <1>5. \A s \in Socks : (Alive(s)' <=> Alive(s)) /\ (link'[s] = "none" <=> link[s] = "none")
    <2>1. ASSUME NEW s \in Socks
          PROVE  (Alive(s)' <=> Alive(s)) /\ (link'[s] = "none" <=> link[s] = "none")
      <3>1. CASE s = socket
        BY <1>4, <3>1, ConstantsAssumption DEF Alive, SocketsOK
      <3>2. CASE s # socket
        BY <1>4, <3>2 DEF Alive
      <3> QED
        BY <3>1, <3>2
    <2> QED
      BY <2>1
  <1>6. \A s \in Socks : link'[s] # "open"
    BY <1>4 DEF SocketsOK
  <1>7. \A s \in Socks : link'[s] = "closing" =>
           /\ \A t \in Socks : phase[t] # "connecting"
           /\ \A t \in Socks : link'[t] = "closing" => t = s
    BY <1>4, ConstantsAssumption DEF SocketsOK, AttemptsOK
  <1> QED
    BY <1>1, <1>2, <1>3, <1>5, <1>6, <1>7

\* A new attempt, when there is none, no socket and nothing in flight.
LEMMA StartConnectPairs ==
    ASSUME BaseInv, PairInv, StartConnect, socket = None, ~destroyed, ~reconnectTimer',
           \A s \in Socks : phase[s] # "connecting"
    PROVE  PairInv'
  <1> USE DEF PairInv
  <1>1. PICK s \in Socks : /\ link[s] = "none"
                           /\ phase' = [phase EXCEPT ![s] = "connecting"]
    BY DEF StartConnect
  <1>2. UNCHANGED <<inflight, offlineQueue, outcome, reply, link, sent, recvd, socket, destroyed>>
    BY DEF StartConnect, queueVars, callVars, wireVars
  <1>3. SocketsOK'
    BY <1>1, <1>2 DEF SocketsOK
  <1>4. AttemptsOK'
    BY <1>1, <1>2 DEF AttemptsOK, BaseInv, TypeOK
  <1> QED
    BY <1>2, <1>3, <1>4 DEF Aligned, Alive, QueueOwners, OwnReply

LEMMA PairInvNext ==
    ASSUME Discipline, BaseInv, PairInv, [Next]_vars
    PROVE  PairInv'
  <1> USE DEF PairInv
  <1>0. /\ inflight \in Seq(Waiters) /\ Unframed(inflight) /\ TypeOK
        /\ offlineQueue \in Seq(Waiters)
    BY DEF BaseInv, TypeOK, FramesInPlace, Unframed
  <1>1. ASSUME NEW c \in Calls, Request(c)
        PROVE  PairInv'
    <2>1. Frame(c, "data", None) \in Frames /\ Frame(c, "data", None).owner = c
      BY FrameTypes DEF Owners
    <2> QED
      BY <1>1, <2>1, SendPairs DEF Request, dialVars
  <1>2. ASSUME NEW c \in Calls, NEW k \in Keys, Watch(c, k)
        PROVE  PairInv'
    <2>1. Frame(c, "watch", k) \in Frames /\ Frame(c, "watch", k).owner = c
      BY FrameTypes DEF Owners
    <2> QED
      BY <1>2, <2>1, SendPairs DEF Watch, dialVars
  <1>3. ASSUME NEW c \in Calls, NEW k \in Keys, Unwatch(c, k)
        PROVE  PairInv'
    <2>1. Frame(c, "unwatch", k) \in Frames /\ Frame(c, "unwatch", k).owner = c
      BY FrameTypes DEF Owners
    <2>2. CASE socket # None
      BY <1>3, <2>1, <2>2, SendPairs DEF Unwatch, dialVars
    <2>3. CASE socket = None
      <3>1. /\ outcome' = [outcome EXCEPT ![c] = "skipped"]
            /\ UNCHANGED <<inflight, offlineQueue, sent, destroyed, reconnectTimer, phase,
                           socket, reply, link, recvd>>
        BY <1>3, <2>3 DEF Unwatch, queueVars, dialVars, lifeVars
      <3>2. OwnReply'
        BY <1>0, <3>1 DEF OwnReply, TypeOK
      <3> QED
        BY <3>1, <3>2 DEF SocketsOK, AttemptsOK, Aligned, Alive, QueueOwners
    <2> QED
      BY <2>2, <2>3
  <1>4. ASSUME Close
        PROVE  PairInv'
    <2>1. Shutdown /\ UNCHANGED <<reply, sent, recvd, inflight, phase>>
      BY <1>4 DEF Close, dialVars
    <2>2. SocketsOK'
      BY <2>1, ShutdownPairs DEF SocketsOK
    <2>3. AttemptsOK'
      BY <2>1, ShutdownPairs DEF AttemptsOK
    <2>4. Aligned'
      BY <2>1, ShutdownPairs DEF Aligned
    <2> QED
      BY <2>1, <2>2, <2>3, <2>4, ShutdownPairs
  <1>5. ASSUME Connect
        PROVE  PairInv'
    <2>1. /\ StartConnect /\ socket = None /\ ~destroyed /\ ~reconnectTimer'
          /\ \A s \in Socks : phase[s] # "connecting"
      BY <1>5 DEF Connect, MayConnect, Discipline
    <2> QED
      BY <2>1, StartConnectPairs
  <1>6. ASSUME ReconnectTimer
        PROVE  PairInv'
    <2>1. /\ StartConnect /\ socket = None /\ ~destroyed /\ ~reconnectTimer'
          /\ \A s \in Socks : phase[s] # "connecting"
      BY <1>6 DEF ReconnectTimer, SocketsOK, AttemptsOK
    <2> QED
      BY <2>1, StartConnectPairs
  <1>7. ASSUME NEW s \in Socks, ConnectOk(s)
        PROVE  PairInv'
    <2>1. /\ phase[s] = "connecting" /\ link[s] = "none" /\ socket = None
          /\ inflight = <<>> /\ ~reconnectTimer /\ sent[s] = <<>> /\ recvd[s] = 0
          /\ \A t \in Socks : phase[t] = "connecting" => t = s
          /\ \A t \in Socks : ~Alive(t)
      BY <1>7, ConstantsAssumption DEF ConnectOk, SocketsOK, AttemptsOK, Alive
    <2>2. /\ socket' = s /\ link'[s] = "open" /\ \A t \in Socks \ {s} : link'[t] = link[t]
          /\ UNCHANGED <<destroyed, reconnectTimer, reply, recvd>>
      BY <1>0, <1>7 DEF ConnectOk, TypeOK
    <2>3. Matches(sent[s], 0, inflight)
      BY <2>1, EmptyFacts DEF Matches
    <2>4. /\ Matches(sent'[s], 0, inflight')
          /\ \A t \in Socks \ {s} : sent'[t] = sent[t] /\ phase'[t] = phase[t]
          /\ phase'[s] = "idle" \/ (phase'[s] \in {"auth", "rereg"} /\ Awaits(inflight', s))
          /\ offlineQueue' \in {offlineQueue, <<>>} /\ outcome' = outcome
      <3>1. CASE /\ WriteInflight(s, inflight, Frame(s, "auth", None))
                 /\ phase' = [phase EXCEPT ![s] = "auth"]
                 /\ UNCHANGED <<offlineQueue, outcome>>
        <4>1. Frame(s, "auth", None) \in Frames /\ Frame(s, "auth", None).owner = s
          BY FrameTypes DEF Owners
        <4>2. /\ Matches(sent'[s], 0, inflight') /\ Awaits(inflight', s)
              /\ \A t \in Socks \ {s} : sent'[t] = sent[t]
          BY <1>0, <2>3, <3>1, <4>1, WritePairs
        <4>3. phase'[s] = "auth" /\ \A t \in Socks \ {s} : phase'[t] = phase[t]
          BY <1>0, <3>1 DEF TypeOK
        <4> QED
          BY <3>1, <4>2, <4>3
      <3>2. CASE Reregister(s, s, inflight, 0)
        BY <1>0, <2>3, <3>2, ConstantsAssumption, ReregisterPairs
      <3> QED
        BY <1>7, <3>1, <3>2 DEF ConnectOk
    <2>5. SocketsOK'
      BY <2>1, <2>2, <2>4 DEF SocketsOK, Alive
    <2>6. \A t \in Socks \ {s} : phase'[t] \notin {"connecting", "auth", "rereg"}
      BY <2>1, <2>4, AwaitsNothing DEF AttemptsOK
    <2>7. AttemptsOK'
      BY <2>1, <2>2, <2>4, <2>6, ConstantsAssumption DEF AttemptsOK
    <2>8. Aligned'
      BY <2>1, <2>2, <2>4 DEF Aligned, Alive
    <2> QED
      BY <2>2, <2>4, <2>5, <2>7, <2>8, QueueOwnersKept, RejectionKeepsOwnReply
  <1>8. ASSUME NEW s \in Socks, ConnectFail(s)
        PROVE  PairInv'
    <2>1. /\ phase[s] = "connecting" /\ socket = None /\ inflight = <<>>
          /\ \A t \in Socks : phase[t] = "connecting" => t = s
      BY <1>8 DEF ConnectFail, AttemptsOK
    <2>2. PICK att : DropWaiters(<<Waiter(s, None)>>, RetryPlan(att))
      BY <1>8, <2>1 DEF ConnectFail
    <2>3. UNCHANGED <<inflight, link, sent, recvd, destroyed, reply, socket>>
      BY <1>8, <2>1 DEF ConnectFail, wireVars
    <2>4. /\ <<Waiter(s, None)>> \in Seq(Waiters) /\ Unframed(<<Waiter(s, None)>>)
          /\ Awaits(<<Waiter(s, None)>>, s)
      BY LoneWaiter DEF Owners, Awaits, Waiter
    <2>5. /\ \A c \in Calls : outcome'[c] \in {"unknown", "refused", outcome[c]}
          /\ offlineQueue' \in {offlineQueue, <<>>}
          /\ \A t \in Socks : phase'[t] \in {"idle", phase[t]}
          /\ phase'[s] = "idle"
          /\ reconnectTimer' = (reconnectTimer \/ RetryPlan(att) = "arm")
      BY <2>2, <2>4, DropPairs
    <2>a. reconnectTimer' => ~destroyed
      BY <2>5, ArmedAlive DEF SocketsOK
    <2>6. \A t \in Socks : phase'[t] # "connecting"
      BY <2>1, <2>5
    <2>7. SocketsOK'
      BY <2>1, <2>3, <2>5, <2>6, <2>a DEF SocketsOK
    <2>8. AttemptsOK'
      BY <2>1, <2>3, <2>5, <2>6 DEF AttemptsOK
    <2>9. Aligned'
      BY <2>3 DEF Aligned, Alive
    <2> QED
      BY <2>3, <2>5, <2>7, <2>8, <2>9, QueueOwnersKept, RejectionKeepsOwnReply
  <1>9. ASSUME NEW s \in Socks, ReplyIgnored(s)
        PROVE  PairInv'
    <2>1. /\ TakeReply(s) /\ inflight # <<>> /\ Head(inflight).settled
          /\ inflight' = Tail(inflight)
          /\ UNCHANGED <<phase, outcome, reply, socket, destroyed, reconnectTimer,
                         offlineQueue, link, sent>>
      BY <1>9, TakePairs DEF ReplyIgnored, dialVars, callVars
    <2>2. /\ Matches(sent'[s], recvd'[s], inflight')
          /\ \A o : Awaits(inflight, o) => Awaits(inflight', o)
      BY <2>1, TakePairs
    <2>3. \/ phase'[s] = "idle"
          \/ phase'[s] \in {"auth", "rereg"} /\ Awaits(inflight', s)
      <3>1. phase[s] \in Phases /\ phase[s] # "connecting"
        BY <1>0, <2>1, AliveIsCurrent DEF TypeOK, TakeReply
      <3> QED
        BY <2>1, <2>2, <3>1 DEF Phases, AttemptsOK
    <2> QED
      BY <2>1, <2>2, <2>3, ReplyKeeps
  <1>10. ASSUME NEW s \in Socks, ReplyToCall(s)
         PROVE  PairInv'
    <2>1. PICK c \in Calls :
            /\ Expects(c)
            /\ outcome' = [outcome EXCEPT ![c] = Classified(Verdict(s))]
            /\ reply' = IF Verdict(s) = "bad" THEN reply
                        ELSE [reply EXCEPT ![c] = Answered(s).owner]
      BY <1>10 DEF ReplyToCall
    <2>2. /\ TakeReply(s) /\ inflight' = Tail(inflight)
          /\ UNCHANGED <<phase, socket, destroyed, reconnectTimer, offlineQueue, link, sent>>
      BY <1>10 DEF ReplyToCall, dialVars
    <2>3. /\ Matches(sent'[s], recvd'[s], inflight')
          /\ \A t \in Socks \ {s} : recvd'[t] = recvd[t]
          /\ \A t \in Socks : Awaits(inflight, t) => Awaits(inflight', t)
          /\ Answered(s).owner = c
          /\ socket = None => destroyed
      BY <2>1, <2>2, TakePairs, ConstantsAssumption DEF Expects
    <2>4. OwnReply'
      <3>1. Verdict(s) \in {"ok", "err", "bad"}
        BY <2>2, TakeReplyTypes, ConstantsAssumption
      <3>2. Verdict(s) = "bad" => outcome'[c] = "unknown"
        BY <1>0, <2>1 DEF Classified, TypeOK
      <3>3. Verdict(s) # "bad" => reply'[c] = c
        BY <1>0, <2>1, <2>3 DEF TypeOK
      <3>4. \A d \in Calls \ {c} : outcome'[d] = outcome[d] /\ reply'[d] = reply[d]
        BY <1>0, <2>1 DEF TypeOK
      <3> QED
        BY <3>2, <3>3, <3>4 DEF OwnReply
    <2>5. /\ \A u \in Socks : Alive(u) => u = s
          /\ \A u \in Socks : phase[u] # "connecting"
          /\ link[s] # "none"
      BY <1>0, <2>2, AliveIsCurrent DEF TakeReply, Alive
    <2>6. SocketsOK'
      BY <2>2, <2>3, <2>5 DEF SocketsOK
    <2>7. AttemptsOK'
      BY <2>2, <2>3, <2>5 DEF AttemptsOK
    <2>8. Aligned'
      BY <2>2, <2>3, <2>5 DEF Aligned, Alive
    <2> QED
      BY <2>2, <2>4, <2>6, <2>7, <2>8 DEF QueueOwners
  <1>11. ASSUME NEW s \in Socks, NEW t \in Socks, TakeReply(s), Expects(t),
                NEW p \in Nat, Reregister(t, socket, Tail(inflight), p),
                UNCHANGED <<socket, destroyed, reconnectTimer, link, reply>>
         PROVE  PairInv'
    <2>1. /\ socket \in {s, None} /\ socket \in Socks \cup {None}
      BY <1>0, <1>11, AliveIsCurrent DEF TakeReply, TypeOK
    <2>r. recvd'[s] = recvd[s] + 1 /\ recvd[s] + 1 \in Nat
      <3>1. recvd \in [Socks -> Nat]
        BY <1>0 DEF TypeOK
      <3>2. recvd' = [recvd EXCEPT ![s] = @ + 1]
        BY <1>11 DEF TakeReply
      <3> QED
        BY <3>1, <3>2
    <2>2. /\ Tail(inflight) \in Seq(Waiters)
          /\ Matches(sent[s], recvd[s] + 1, Tail(inflight))
          /\ \A u \in Socks \ {t} : Awaits(inflight, u) => Awaits(Tail(inflight), u)
      BY <1>11, <2>r, TakePairs DEF Expects
    <2>m. socket # None => Matches(sent[socket], recvd[s] + 1, Tail(inflight))
      BY <2>1, <2>2
    <2>3. /\ socket # None => Matches(sent'[socket], recvd[s] + 1, inflight')
          /\ socket = None => inflight' = Tail(inflight)
          /\ \A u \in Socks : u # socket => sent'[u] = sent[u]
          /\ \A o : Awaits(Tail(inflight), o) => Awaits(inflight', o)
          /\ phase'[t] = "idle" \/ (phase'[t] = "rereg" /\ Awaits(inflight', t))
          /\ \A u \in Socks \ {t} : phase'[u] = phase[u]
          /\ offlineQueue' \in {offlineQueue, <<>>}
          /\ outcome' = outcome
      BY <1>11, <2>r, <2>1, <2>2, <2>m, ReregisterPairs
    <2>4. Matches(sent'[s], recvd'[s], inflight')
      BY <2>r, <2>1, <2>2, <2>3, ConstantsAssumption
    <2>5. /\ \A u \in Socks \ {s} : sent'[u] = sent[u]
          /\ \A u \in Socks \ {t} : Awaits(inflight, u) => Awaits(inflight', u)
      BY <2>1, <2>2, <2>3, ConstantsAssumption
    <2> QED
      BY <1>11, <2>3, <2>4, <2>5, ReplyKeeps
  <1>12. ASSUME NEW s \in Socks, NEW t \in Socks, TakeReply(s), Expects(t),
                inflight' = Tail(inflight), phase' = [phase EXCEPT ![t] = "idle"],
                UNCHANGED <<socket, destroyed, reconnectTimer, link, reply, offlineQueue,
                            outcome, sent>>
         PROVE  PairInv'
    <2>1. /\ Matches(sent'[s], recvd'[s], inflight')
          /\ \A u \in Socks \ {t} : Awaits(inflight, u) => Awaits(inflight', u)
      BY <1>12, TakePairs DEF Expects
    <2>2. phase'[t] = "idle" /\ \A u \in Socks \ {t} : phase'[u] = phase[u]
      BY <1>0, <1>12 DEF TypeOK
    <2> QED
      BY <1>12, <2>1, <2>2, ReplyKeeps
  <1>13. ASSUME NEW s \in Socks, NEW t \in Socks, ReplyToAuth(s, t)
         PROVE  PairInv'
    <2>1. TakeReply(s) /\ Expects(t) /\ reply' = reply
      BY <1>13 DEF ReplyToAuth
    <2>2. CASE /\ inflight' = Tail(inflight)
               /\ phase' = [phase EXCEPT ![t] = "idle"]
               /\ UNCHANGED <<socket, destroyed, reconnectTimer, offlineQueue, outcome, link, sent>>
      BY <1>12, <2>1, <2>2
    <2>3. CASE /\ Reregister(t, socket, Tail(inflight), 0)
               /\ UNCHANGED <<socket, destroyed, reconnectTimer, link>>
      BY <1>11, <2>1, <2>3
    <2>4. CASE /\ Shutdown
               /\ inflight' = Tail(inflight)
               /\ phase' = [phase EXCEPT ![t] = "idle"]
               /\ UNCHANGED sent
      <3>1. /\ phase'[t] = "idle" /\ \A u \in Socks \ {t} : phase'[u] = phase[u]
        BY <1>0, <2>4 DEF TypeOK
      <3>2. /\ Matches(sent'[s], recvd'[s], inflight')
            /\ \A u \in Socks \ {s} : recvd'[u] = recvd[u]
            /\ \A u \in Socks \ {t} : Awaits(inflight, u) => Awaits(inflight', u)
        BY <2>1, <2>4, TakePairs DEF Expects
      <3>3. /\ \A u \in Socks : Alive(u) => u = s
            /\ \A u \in Socks : phase[u] # "connecting"
            /\ link[s] # "none"
        BY <1>0, <2>1, AliveIsCurrent DEF TakeReply, Alive
      <3>4. SocketsOK'
        BY <2>1, <2>4, <3>1, <3>2, <3>3, ShutdownPairs DEF SocketsOK
      <3>5. AttemptsOK'
        BY <2>1, <2>4, <3>1, <3>2, <3>3, ShutdownPairs DEF AttemptsOK
      <3>6. Aligned'
        BY <2>1, <2>4, <3>2, <3>3, ShutdownPairs DEF Aligned
      <3> QED
        BY <2>1, <2>4, <3>4, <3>5, <3>6, ShutdownPairs
    <2> QED
      BY <1>13, <2>2, <2>3, <2>4 DEF ReplyToAuth
  <1>14. ASSUME NEW s \in Socks, NEW t \in Socks, ReplyToRereg(s, t)
         PROVE  PairInv'
    <2>1. /\ TakeReply(s) /\ Expects(t) /\ cursor[t] \in Nat
          /\ UNCHANGED <<socket, destroyed, reconnectTimer, reply, link>>
      BY <1>0, <1>14 DEF ReplyToRereg, TypeOK
    <2>2. CASE /\ inflight' = Tail(inflight)
               /\ phase' = [phase EXCEPT ![t] = "idle"]
               /\ UNCHANGED <<offlineQueue, outcome, sent>>
      BY <1>12, <2>1, <2>2
    <2>3. CASE Reregister(t, socket, Tail(inflight), cursor[t])
      BY <1>11, <2>1, <2>3
    <2> QED
      BY <1>14, <2>2, <2>3 DEF ReplyToRereg
  <1>15. ASSUME NEW i \in DOMAIN inflight, RequestTimer(i)
         PROVE  PairInv'
    <2>1. /\ i \in 1..Len(inflight) /\ inflight[i] \in Waiters
          /\ inflight' = [inflight EXCEPT ![i].settled = TRUE]
          /\ ~inflight[i].settled
          /\ outcome' = RejectCalls(<<inflight[i]>>, "unknown")
          /\ phase' = RejectPhases(<<inflight[i]>>)
          /\ UNCHANGED <<destroyed, reconnectTimer, link, sent, recvd, socket, offlineQueue, reply>>
      BY <1>0, <1>15, LenProperties, ElementOfSeq DEF RequestTimer, TimedOut, lifeVars, wireVars
    <2>2. \A t \in Socks : IF inflight[i].owner = t THEN phase'[t] = "idle"
                           ELSE /\ phase'[t] = phase[t]
                                /\ Awaits(inflight, t) => Awaits(inflight', t)
      <3>1. \A o : Awaits(<<inflight[i]>>, o) <=> inflight[i].owner = o
        BY <2>1 DEF Awaits
      <3>2. \A o : inflight[i].owner # o /\ Awaits(inflight, o) => Awaits(inflight', o)
        BY <1>0, <2>1, AwaitsSettle
      <3> QED
        BY <2>1, <3>1, <3>2 DEF RejectPhases
    <2>3. \A s \in Socks : Alive(s) => Matches(sent[s], recvd[s], inflight')
      BY <1>0, <2>1, MatchesSettle DEF Aligned, TypeOK
    <2>4. inflight # <<>>
      BY <2>1, EmptyFacts
    <2>5. SocketsOK'
      BY <2>1, <2>2 DEF SocketsOK
    <2>6. AttemptsOK'
      BY <2>1, <2>2, <2>4 DEF AttemptsOK
    <2>7. Aligned'
      BY <2>1, <2>3 DEF Aligned, Alive
    <2>8. OwnReply'
      BY <2>1, RejectionKeepsOwnReply DEF RejectCalls
    <2> QED
      BY <2>1, <2>5, <2>6, <2>7, <2>8, QueueOwnersKept
  <1>16. ASSUME NEW s \in Socks, SocketClosed(s)
         PROVE  PairInv'
    <2>1. /\ Alive(s) /\ link'[s] = "dead" /\ \A t \in Socks \ {s} : link'[t] = link[t]
          /\ socket' = None
          /\ UNCHANGED <<destroyed, reply, sent, recvd>>
      BY <1>0, <1>16 DEF SocketClosed, TypeOK
    <2>2. /\ socket \in {s, None}
          /\ \A t \in Socks : Alive(t) => t = s
          /\ \A t \in Socks : phase[t] # "connecting"
      BY <1>0, <2>1, AliveIsCurrent
    <2>3. \A t \in Socks : ~Alive(t)'
      BY <2>1, <2>2 DEF Alive
    <2>4. CASE socket = None
      <3>1. UNCHANGED <<inflight, offlineQueue, reconnectTimer, phase, outcome>>
        BY <1>16, <2>4, ConstantsAssumption DEF SocketClosed
      <3>2. destroyed
        BY <2>1, <2>4, ConstantsAssumption DEF Alive, SocketsOK
      <3>3. SocketsOK'
        BY <2>1, <2>2, <2>3, <3>1, <2>4 DEF SocketsOK, Alive
      <3>4. AttemptsOK'
        BY <2>1, <2>2, <2>4, <3>1, <3>2 DEF AttemptsOK
      <3> QED
        BY <2>1, <2>3, <3>1, <3>3, <3>4 DEF Aligned, QueueOwners, OwnReply
    <2>5. CASE socket # None
      <3>1. /\ DropWaiters(inflight, RetryPlan(reconnectAttempts)) /\ inflight' = <<>>
        BY <1>16, <2>5 DEF SocketClosed, InflightAfterLoss
      <3>2. /\ \A c \in Calls : outcome'[c] \in {"unknown", "refused", outcome[c]}
            /\ offlineQueue' \in {offlineQueue, <<>>}
            /\ \A t \in Socks : phase'[t] = IF Awaits(inflight, t) THEN "idle" ELSE phase[t]
            /\ reconnectTimer' = (reconnectTimer \/ RetryPlan(reconnectAttempts) = "arm")
        BY <1>0, <3>1, DropPairs
      <3>a. reconnectTimer' => ~destroyed
        BY <3>2, ArmedAlive DEF SocketsOK
      <3>3. \A t \in Socks : phase'[t] \notin {"connecting", "auth", "rereg"}
        BY <2>2, <3>2 DEF AttemptsOK
      <3>4. SocketsOK'
        BY <2>1, <2>3, <3>a, <3>3 DEF SocketsOK, Alive
      <3>5. AttemptsOK'
        BY <2>1, <3>1, <3>3 DEF AttemptsOK
      <3> QED
        BY <2>1, <2>3, <3>2, <3>4, <3>5, QueueOwnersKept, RejectionKeepsOwnReply DEF Aligned
    <2> QED
      BY <2>4, <2>5
  <1>17. ASSUME NEW s \in Socks, ServerForgets(s)
         PROVE  PairInv'
    <2>1. /\ link[s] = "dead" /\ link'[s] = "none" /\ sent'[s] = <<>> /\ recvd'[s] = 0
          /\ \A t \in Socks \ {s} :
               link'[t] = link[t] /\ sent'[t] = sent[t] /\ recvd'[t] = recvd[t]
          /\ UNCHANGED <<destroyed, reconnectTimer, inflight, offlineQueue, phase, outcome,
                         reply, socket>>
      BY <1>0, <1>17 DEF ServerForgets, TypeOK, lifeVars, queueVars, dialVars, callVars
    <2>2. SocketsOK'
      BY <1>0, <2>1, ZenonT(60) DEF SocketsOK, TypeOK
    <2>3. AttemptsOK'
      BY <2>1 DEF AttemptsOK
    <2>4. Aligned'
      BY <2>1 DEF Aligned, Alive
    <2> QED
      BY <2>1, <2>2, <2>3, <2>4 DEF QueueOwners, OwnReply
  <1>18. ASSUME UNCHANGED <<destroyed, reconnectTimer, inflight, offlineQueue, phase, outcome,
                            reply, socket, link, sent, recvd>>
         PROVE  PairInv'
    BY <1>18 DEF SocketsOK, AttemptsOK, Aligned, Alive, QueueOwners, OwnReply
  <1>19. ASSUME NEW s \in Socks, ReceivePush(s) \/ Serve(s) \/ \E k \in Keys : Push(s, k)
         PROVE  PairInv'
    BY <1>18, <1>19 DEF ReceivePush, Serve, Push, lifeVars, queueVars, dialVars, callVars, wireVars
  <1>20. ASSUME NEW s \in Socks, ReceiveBadPush(s)
         PROVE  FALSE
    BY <1>20 DEF ReceiveBadPush, Discipline
  <1>21. ASSUME UNCHANGED vars
         PROVE  PairInv'
    BY <1>18, <1>21 DEF vars, lifeVars, queueVars, dialVars, callVars, wireVars
  <1> QED
    BY <1>1, <1>2, <1>3, <1>4, <1>5, <1>6, <1>7, <1>8, <1>9, <1>10, <1>13, <1>14, <1>15,
       <1>16, <1>17, <1>19, <1>20, <1>21 DEF Next

-----------------------------------------------------------------------------
(* Theorems.                                                                *)

\* A call that resolves got the reply to its own request, whatever times out,
\* is lost, closed or reconnected on the way.  onData pairs by position, so
\* this is the correctness of the in-flight list; it needs an application that
\* awaits one connect() before the next and pushes that can be decoded.
THEOREM RepliesPaired == Discipline /\ Spec => []OwnReply
  <1> SUFFICES ASSUME Discipline
               PROVE  Spec => []OwnReply
    OBVIOUS
  <1>1. PairInv => OwnReply
    BY DEF PairInv
  <1>2. BaseInv /\ PairInv /\ [Next]_vars => (BaseInv /\ PairInv)'
    BY BaseInvNext, PairInvNext
  <1>3. Init => BaseInv /\ PairInv
    BY BaseInvInit, PairInvInit
  <1> QED
    BY <1>1, <1>2, <1>3, PTL DEF Spec

\* The client never has two connections or attempts at once: connect(), the
\* reconnect timer, close() and disconnects never start one beside another.
THEOREM ConnectionIsUnique == Discipline /\ Spec => []OneConnection
  <1> SUFFICES ASSUME Discipline
               PROVE  Spec => []OneConnection
    OBVIOUS
  <1>1. BaseInv /\ PairInv => OneConnection
    BY ConstantsAssumption DEF BaseInv, TypeOK, PairInv, SocketsOK, AttemptsOK, OneConnection, Alive
  <1>2. BaseInv /\ PairInv /\ [Next]_vars => (BaseInv /\ PairInv)'
    BY BaseInvNext, PairInvNext
  <1>3. Init => BaseInv /\ PairInv
    BY BaseInvInit, PairInvInit
  <1> QED
    BY <1>1, <1>2, <1>3, PTL DEF Spec

-----------------------------------------------------------------------------
(* The client implements CallService.                                       *)

\* A call that resolved has been executed.
Resolved == \A c \in Calls : outcome[c] \in {"ok", "error"} => execs[c] > 0

RefInv == BaseInv /\ PairInv /\ OnceInv /\ Resolved

\* Only the server executes calls and only a reply to a call records one.
LEMMA WhoWrites ==
    ASSUME [Next]_vars
    PROVE  \/ \E s \in Socks : Serve(s)
           \/ \E s \in Socks : ReplyToCall(s)
           \/ UNCHANGED <<reply, execs>>
  <1>1. CASE \E c \in Calls : Request(c) \/ \E k \in Keys : Watch(c, k) \/ Unwatch(c, k)
    BY <1>1 DEF Request, Watch, Unwatch, serverVars
  <1>2. CASE Connect \/ Close \/ ReconnectTimer \/ \E i \in DOMAIN inflight : RequestTimer(i)
    BY <1>2 DEF Connect, Close, ReconnectTimer, RequestTimer, StartConnect, callVars, serverVars
  <1>3. CASE \E s \in Socks : ConnectOk(s) \/ ConnectFail(s) \/ SocketClosed(s)
    BY <1>3 DEF ConnectOk, ConnectFail, SocketClosed, serverVars
  <1>4. CASE \E s \in Socks : \/ ReplyIgnored(s)
                               \/ \E t \in Socks : ReplyToAuth(s, t) \/ ReplyToRereg(s, t)
    BY <1>4 DEF ReplyIgnored, ReplyToAuth, ReplyToRereg, TakeReply, callVars, serverVars
  <1>5. CASE \E s \in Socks : ReceivePush(s) \/ ReceiveBadPush(s) \/ ServerForgets(s)
                               \/ \E k \in Keys : Push(s, k)
    BY <1>5 DEF ReceivePush, ReceiveBadPush, ServerForgets, Push, callVars, serverVars
  <1>6. CASE UNCHANGED vars
    BY <1>6 DEF vars, callVars, serverVars
  <1> QED BY <1>1, <1>2, <1>3, <1>4, <1>5, <1>6 DEF Next

\* The reply a call gets is the one to its own request, which the server has
\* therefore executed.
LEMMA AnsweredCall ==
    ASSUME RefInv, NEW s \in Socks, ReplyToCall(s)
    PROVE  \E c \in Calls :
             /\ outcome[c] = "pending" /\ execs[c] = 1
             /\ Answered(s).owner = c
             /\ outcome' = [outcome EXCEPT ![c] = Classified(Verdict(s))]
             /\ reply' = IF Verdict(s) = "bad" THEN reply ELSE [reply EXCEPT ![c] = c]
             /\ execs' = execs
             /\ Verdict(s) \in {"ok", "err", "bad"}
  <1>1. PICK c \in Calls :
          /\ Expects(c)
          /\ outcome' = [outcome EXCEPT ![c] = Classified(Verdict(s))]
          /\ reply' = IF Verdict(s) = "bad" THEN reply
                      ELSE [reply EXCEPT ![c] = Answered(s).owner]
    BY DEF ReplyToCall
  <1>2. /\ inflight \in Seq(Waiters) /\ inflight # <<>> /\ Head(inflight).owner = c
        /\ ~Head(inflight).settled /\ Alive(s) /\ recvd[s] < Len(replies[s]) /\ execs' = execs
    BY <1>1 DEF Expects, ReplyToCall, TakeReply, serverVars, RefInv, BaseInv, TypeOK
  <1>3. 1 \in 1..Len(inflight) /\ Head(inflight) = inflight[1] /\ DOMAIN inflight = 1..Len(inflight)
    BY <1>2, TailFacts, LenProperties
  <1>4. sent[s][recvd[s] + 1].owner = c
    BY <1>2, <1>3 DEF RefInv, PairInv, Aligned, Matches
  <1>5. /\ recvd[s] \in Nat /\ Len(replies[s]) \in Nat /\ Len(sent[s]) \in Nat
        /\ Len(replies[s]) <= Len(sent[s]) /\ DOMAIN sent[s] = 1..Len(sent[s])
    BY SentLengths, LenProperties DEF RefInv, BaseInv, TypeOK, WireOK
  <1>6. recvd[s] + 1 \in DOMAIN sent[s] /\ recvd[s] + 1 <= Len(replies[s])
    BY <1>2, <1>5
  <1>7. execs[c] = 1
    BY <1>4, <1>6 DEF RefInv, OnceInv, WrittenOnce
  <1>8. Awaits(inflight, c)
    BY <1>2, <1>3 DEF Awaits
  <1>9. outcome[c] = "pending"
    BY <1>8 DEF RefInv, OnceInv, WaitersOK
  <1>10. Verdict(s) \in {"ok", "err", "bad"}
    BY TakeReplyTypes, ConstantsAssumption DEF ReplyToCall, RefInv
  <1> QED BY <1>1, <1>2, <1>4, <1>7, <1>9, <1>10 DEF Answered

\* The server executes a call that is not settled, or one whose outcome the
\* caller does not know.
LEMMA ServedCall ==
    ASSUME RefInv, NEW s \in Socks, Serve(s)
    PROVE  \/ UNCHANGED <<outcome, reply, execs>>
           \/ \E c \in Calls : CS!Execute(c)
  <1> DEFINE n == Len(replies[s])
             f == sent[s][n + 1]
  <1>1. /\ n \in Nat /\ n + 1 \in DOMAIN sent[s] /\ ~(n + 1 <= n)
    BY SentLengths, LenProperties DEF Serve, RefInv, BaseInv, TypeOK
  <1>2. /\ execs' = [c \in Calls |-> IF c = f.owner THEN execs[c] + 1 ELSE execs[c]]
        /\ UNCHANGED <<outcome, reply>>
    BY DEF Serve, callVars
  <1>3. execs \in [Calls -> Nat] /\ outcome \in [Calls -> Outcomes]
    BY DEF RefInv, BaseInv, TypeOK
  <1>4. CASE f.owner \notin Calls
    BY <1>2, <1>3, <1>4
  <1>5. CASE f.owner \in Calls
    <2>1. execs[f.owner] = 0
      BY <1>1, <1>5 DEF RefInv, OnceInv, WrittenOnce
    <2>2. outcome[f.owner] \notin {"idle", "refused", "skipped"}
      BY <1>1, <1>5 DEF RefInv, OnceInv, TurnedAway, Fresh
    <2>3. outcome[f.owner] \notin {"ok", "error"}
      BY <1>5, <2>1 DEF RefInv, Resolved
    <2>4. outcome[f.owner] \in {"pending", "unknown"}
      BY <1>3, <1>5, <2>2, <2>3 DEF Outcomes
    <2> HIDE DEF f
    <2>5. execs' = [execs EXCEPT ![f.owner] = @ + 1]
      BY <1>2, <1>3, <1>5
    <2> QED BY <1>2, <1>5, <2>1, <2>4, <2>5 DEF CS!Execute
  <1> QED BY <1>4, <1>5

\* A call resolves on the reply to its own frame, which was served.
LEMMA ResolvedNext ==
    ASSUME RefInv, [Next]_vars
    PROVE  Resolved'
  <1>0. execs \in [Calls -> Nat] /\ outcome \in [Calls -> Outcomes] /\ Resolved
    BY DEF RefInv, BaseInv, TypeOK
  <1>1. CASE \E s \in Socks : ReplyToCall(s)
    <2>1. PICK s \in Socks, c \in Calls :
             /\ execs[c] = 1 /\ execs' = execs
             /\ outcome' = [outcome EXCEPT ![c] = Classified(Verdict(s))]
      BY <1>1, AnsweredCall
    <2> QED BY <1>0, <2>1 DEF Resolved
  <1>2. CASE \E s \in Socks : Serve(s)
    BY <1>0, <1>2 DEF Serve, callVars, Resolved
  <1>3. CASE UNCHANGED <<reply, execs>> /\ ~\E s \in Socks : ReplyToCall(s)
    <2>1. Begins \/ Fails
      BY <1>3, OnceNext DEF RefInv, Settles
    <2> QED BY <1>0, <1>3, <2>1 DEF Begins, Fails, Resolved
  <1> QED BY <1>1, <1>2, <1>3, WhoWrites

\* Every step of the client, the network and the server is a step of
\* CallService, or one that it cannot see.
LEMMA StepRefines ==
    ASSUME RefInv, [Next]_vars
    PROVE  [CS!Next]_<<outcome, reply, execs>>
  <1>0. outcome \in [Calls -> Outcomes] /\ outcome' \in [Calls -> Outcomes]
        /\ reply \in [Calls -> Owners \cup {None}]
    BY BaseInvNext DEF RefInv, BaseInv, TypeOK
  <1>1. CASE \E s \in Socks : Serve(s)
    BY <1>1, ServedCall DEF CS!Next
  <1>2. CASE \E s \in Socks : ReplyToCall(s)
    <2>1. PICK s \in Socks, c \in Calls :
             /\ outcome[c] = "pending" /\ execs[c] = 1
             /\ outcome' = [outcome EXCEPT ![c] = Classified(Verdict(s))]
             /\ reply' = IF Verdict(s) = "bad" THEN reply ELSE [reply EXCEPT ![c] = c]
             /\ execs' = execs
             /\ Verdict(s) \in {"ok", "err", "bad"}
      BY <1>2, AnsweredCall
    <2>2. CASE Verdict(s) = "bad"
      <3>1. outcome' = [outcome EXCEPT ![c] = "unknown"] /\ UNCHANGED <<reply, execs>>
        BY <2>1, <2>2 DEF Classified
      <3>2. outcome' = [d \in Calls |-> IF d \in {c} THEN "unknown"
                                        ELSE IF d \in {} THEN "refused" ELSE outcome[d]]
        BY <1>0, <3>1
      <3>3. CS!Fail({c}, {})
        <4>1. {c} \cap {} = {} /\ (\A d \in {c} \cup {} : outcome[d] = "pending")
          BY <2>1
        <4>2. \A d \in {} : execs[d] = 0
          OBVIOUS
        <4> QED BY <3>1, <3>2, <4>1, <4>2 DEF CS!Fail
      <3>4. {c} \in SUBSET Calls /\ {} \in SUBSET Calls
        OBVIOUS
      <3> QED BY <3>3, <3>4 DEF CS!Next
    <2>3. CASE Verdict(s) # "bad"
      <3>1. \E o \in {"ok", "error"} : outcome' = [outcome EXCEPT ![c] = o]
        BY <2>1, <2>3 DEF Classified
      <3>2. /\ reply' = [reply EXCEPT ![c] = c] /\ UNCHANGED execs
            /\ outcome[c] = "pending" /\ execs[c] > 0
        BY <2>1, <2>3
      <3>3. CS!Resolve(c)
        BY <3>1, <3>2 DEF CS!Resolve
      <3> QED BY <3>3 DEF CS!Next
    <2> QED BY <2>2, <2>3
  <1>3. CASE UNCHANGED <<reply, execs>> /\ ~\E s \in Socks : ReplyToCall(s)
    <2>1. Begins \/ Fails
      BY <1>3, OnceNext DEF RefInv, Settles
    <2>2. CASE Begins
      BY <1>3, <2>2 DEF Begins, CS!Begin, CS!Next
    <2>3. CASE Fails
      <3> DEFINE U == {c \in Calls : outcome'[c] # outcome[c] /\ outcome'[c] = "unknown"}
                 R == {c \in Calls : outcome'[c] # outcome[c] /\ outcome'[c] = "refused"}
      <3>1. U \in SUBSET Calls /\ R \in SUBSET Calls /\ U \cap R = {}
        OBVIOUS
      <3>2. /\ \A c \in U \cup R : outcome[c] = "pending"
            /\ \A c \in R : execs[c] = 0
        BY <2>3 DEF Fails
      <3>3. \A c \in Calls : outcome'[c] = IF c \in U THEN "unknown"
                                          ELSE IF c \in R THEN "refused" ELSE outcome[c]
        BY <2>3 DEF Fails
      <3> HIDE DEF U, R
      <3>4. outcome' = [c \in Calls |-> IF c \in U THEN "unknown"
                                        ELSE IF c \in R THEN "refused" ELSE outcome[c]]
        BY <1>0, <3>3
      <3>5. CS!Fail(U, R)
        BY <1>3, <3>1, <3>2, <3>4 DEF CS!Fail
      <3> QED BY <3>1, <3>5 DEF CS!Next
    <2> QED BY <2>1, <2>2, <2>3
  <1> QED BY <1>1, <1>2, <1>3, WhoWrites

\* The Node.js client implements CallService without repeating a call: a call
\* settles once, with the reply to its own request or with a failure that tells
\* the truth about whether the server may have executed it.
THEOREM NodeImplementsCallService == Discipline /\ Spec => ImplementsCallService
  <1> SUFFICES ASSUME Discipline
               PROVE  Spec => ImplementsCallService
    OBVIOUS
  <1>1. Init => RefInv
    <2>1. Init => Resolved
      BY DEF Init, Resolved
    <2> QED BY <2>1, BaseInvInit, PairInvInit, OnceInvInit DEF RefInv
  <1>2. RefInv /\ [Next]_vars => RefInv'
    BY BaseInvNext, PairInvNext, OnceNext, ResolvedNext DEF RefInv
  <1>3. RefInv /\ [Next]_vars => [CS!Next]_<<outcome, reply, execs>>
    BY StepRefines
  <1>4. Init => CS!Init
    BY DEF Init, CS!Init
  <1> QED
    BY <1>1, <1>2, <1>3, <1>4, PTL DEF Spec, ImplementsCallService, CS!Spec, CS!cvars

-----------------------------------------------------------------------------
(* Watches survive reconnects.                                              *)

\* The server does what it is asked, and no request times out.
Obliging == ~RequestTimeout /\ Verdicts \subseteq {"ok"}

Cancels(f, k) == f.op = "unwatch" /\ f.key = k

\* Of the frames sq the first n have been served, and left the keys S
\* subscribed: when all have been, k will be.
WillHold(sq, n, S, k) ==
    \/ k \in S /\ \A j \in DOMAIN sq : j > n => ~Cancels(sq[j], k)
    \/ \E i \in DOMAIN sq :
         /\ i > n /\ sq[i].op = "watch" /\ sq[i].key = k
         /\ \A j \in DOMAIN sq : j > i => ~Cancels(sq[j], k)

\* A doConnect() has yet to come to the registration at position p.
Ahead(p) ==
    \E t \in Socks : phase[t] = "auth" \/ (phase[t] = "rereg" /\ cursor[t] < p)

\* Every key with a callback will be subscribed on the current connection.
Covered ==
    socket # None /\ ~destroyed =>
        \A k \in Keys : watchCallbacks[k] > 0 =>
            \/ WillHold(sent[socket], Len(replies[socket]), subs[socket], k)
            \/ Ahead(watchCallbacks[k])

\* The Map keeps its keys in the order of their insertion.
Positions ==
    \A k \in Keys :
        /\ watchCallbacks[k] <= watchSeq
        /\ \A j \in Keys : watchCallbacks[j] = watchCallbacks[k] /\ watchCallbacks[k] > 0
                             => j = k

\* No unwatch waits for a reconnect.
NoUnwatchQueued ==
    \A i \in DOMAIN offlineQueue : offlineQueue[i].frame.op # "unwatch"

WatchInv == Covered /\ Positions /\ NoUnwatchQueued

\* More frames are written, none of which cancels k.
LEMMA HoldsConcat ==
    ASSUME NEW sq \in Seq(Frames), NEW fs \in Seq(Frames), NEW n \in Nat, NEW S, NEW k,
           \A i \in 1..Len(fs) : ~Cancels(fs[i], k), WillHold(sq, n, S, k)
    PROVE  WillHold(sq \o fs, n, S, k)
  <1>1. /\ Len(sq) \in Nat /\ Len(fs) \in Nat /\ DOMAIN sq = 1..Len(sq)
        /\ DOMAIN (sq \o fs) = 1..Len(sq) + Len(fs)
        /\ \A i \in 1..Len(sq) + Len(fs) :
             (sq \o fs)[i] = IF i <= Len(sq) THEN sq[i] ELSE fs[i - Len(sq)]
    BY ConcatProperties, LenProperties
  <1>2. \A i \in DOMAIN sq : i \in DOMAIN (sq \o fs) /\ (sq \o fs)[i] = sq[i]
    BY <1>1
  <1>3. ASSUME NEW j \in DOMAIN (sq \o fs)
        PROVE  \/ j \in DOMAIN sq /\ (sq \o fs)[j] = sq[j]
               \/ ~Cancels((sq \o fs)[j], k)
    <2>1. CASE j <= Len(sq)
      BY <1>1, <2>1
    <2>2. CASE ~(j <= Len(sq))
      <3>1. j - Len(sq) \in 1..Len(fs) /\ (sq \o fs)[j] = fs[j - Len(sq)]
        BY <1>1, <2>2
      <3> QED BY <3>1
    <2> QED BY <2>1, <2>2
  <1> QED BY <1>2, <1>3 DEF WillHold

\* A watch for k is written.
LEMMA HoldsWatch ==
    ASSUME NEW sq \in Seq(Frames), NEW f \in Frames, NEW n \in Nat, n <= Len(sq), NEW S, NEW k,
           f.op = "watch", f.key = k
    PROVE  WillHold(sq \o <<f>>, n, S, k)
  <1>1. Append(sq, f) = sq \o <<f>>
    BY AppendIsConcat
  <1>2. /\ Len(sq) \in Nat /\ DOMAIN Append(sq, f) = 1..Len(sq) + 1
        /\ Append(sq, f)[Len(sq) + 1] = f
    BY AppendFacts, LenProperties
  <1>3. Len(sq) + 1 > n /\ Len(sq) + 1 \in DOMAIN Append(sq, f)
        /\ \A j \in DOMAIN Append(sq, f) : ~(j > Len(sq) + 1)
    BY <1>2
  <1> QED BY <1>1, <1>2, <1>3 DEF WillHold

\* The next frame is served.
LEMMA HoldsServe ==
    ASSUME NEW sq \in Seq(Frames), NEW n \in Nat, n < Len(sq), NEW S, NEW T, NEW k,
           WillHold(sq, n, S, k),
           sq[n + 1].op = "watch" /\ sq[n + 1].key = k => k \in T,
           k \in S /\ ~Cancels(sq[n + 1], k) => k \in T
    PROVE  WillHold(sq, n + 1, T, k)
  <1>1. Len(sq) \in Nat /\ DOMAIN sq = 1..Len(sq) /\ n + 1 \in DOMAIN sq
    BY LenProperties
  <1>2. \A j \in DOMAIN sq : (j > n + 1 => j > n) /\ (j > n => j > n + 1 \/ j = n + 1)
    BY <1>1
  <1>3. n + 1 > n
    OBVIOUS
  <1> QED BY <1>1, <1>2, <1>3 DEF WillHold

\* What holds on the connection sk now.
Holding(sk, k) == WillHold(sent[sk], Len(replies[sk]), subs[sk], k)

\* Frames are written on sk.
LEMMA WriteCovers ==
    ASSUME BaseInv, NEW sk \in Socks, NEW fs \in Seq(Frames),
           sent' = [sent EXCEPT ![sk] = @ \o fs], UNCHANGED <<replies, subs>>, NEW k,
           \A i \in 1..Len(fs) : ~Cancels(fs[i], k), Holding(sk, k)
    PROVE  Holding(sk, k)'
  <1>1. sent[sk] \in Seq(Frames) /\ Len(replies[sk]) \in Nat /\ sent'[sk] = sent[sk] \o fs
    BY SentLengths DEF BaseInv, TypeOK
  <1> QED BY <1>1, HoldsConcat DEF Holding

\* A watch for k is written on sk.
LEMMA WatchCovers ==
    ASSUME BaseInv, NEW sk \in Socks, NEW f \in Frames, NEW k, f.op = "watch", f.key = k,
           sent' = [sent EXCEPT ![sk] = Append(@, f)], UNCHANGED <<replies, subs>>
    PROVE  Holding(sk, k)'
  <1>1. /\ sent[sk] \in Seq(Frames) /\ Len(replies[sk]) \in Nat /\ Len(replies[sk]) <= Len(sent[sk])
        /\ sent'[sk] = Append(sent[sk], f)
    BY SentLengths DEF BaseInv, TypeOK, WireOK
  <1>2. sent'[sk] = sent[sk] \o <<f>>
    BY <1>1, AppendIsConcat
  <1> QED BY <1>1, <1>2, HoldsWatch DEF Holding

\* An API call.
LEMMA SendCovers ==
    ASSUME BaseInv, NEW c \in Calls, NEW f \in Frames, Send(c, f), ~destroyed, socket # None,
           UNCHANGED <<replies, subs>>, NEW k \in Keys
    PROVE  /\ ~Cancels(f, k) /\ Holding(socket, k) =>
                WillHold(sent'[socket], Len(replies'[socket]), subs'[socket], k)
           /\ f.op = "watch" /\ f.key = k =>
                WillHold(sent'[socket], Len(replies'[socket]), subs'[socket], k)
  <1>1. socket \in Socks /\ sent' = [sent EXCEPT ![socket] = Append(@, f)]
        /\ sent \in [Socks -> Seq(Frames)]
    BY DEF Send, WriteInflight, BaseInv, TypeOK
  <1>2. PICK sk \in Socks : sk = socket
    BY <1>1
  <1>3. sent' = [sent EXCEPT ![sk] = @ \o <<f>>] /\ sent' = [sent EXCEPT ![sk] = Append(@, f)]
    BY <1>1, <1>2, AppendIsConcat
  <1>4. ASSUME ~Cancels(f, k), Holding(socket, k)
        PROVE  Holding(sk, k)'
    <2>1. <<f>> \in Seq(Frames) /\ \A i \in 1..Len(<<f>>) : ~Cancels(<<f>>[i], k)
      BY <1>4
    <2> QED BY <1>2, <1>3, <1>4, <2>1, WriteCovers
  <1>5. f.op = "watch" /\ f.key = k => Holding(sk, k)'
    BY <1>3, WatchCovers
  <1> QED BY <1>2, <1>4, <1>5 DEF Holding

\* What a doConnect() does from the re-registration of watches on, when every
\* key it has passed is in hand.
LEMMA ReregisterCovers ==
    ASSUME BaseInv, Positions, NoUnwatchQueued, NEW s \in Socks, NEW sk \in Socks,
           NEW q, NEW p \in Nat, Reregister(s, sk, q, p), UNCHANGED <<replies, subs, watchCallbacks>>,
           \A k \in Keys : watchCallbacks[k] > 0 =>
              \/ Holding(sk, k)
              \/ watchCallbacks[k] > p
              \/ \E t \in Socks \ {s} :
                    phase[t] = "auth" \/ (phase[t] = "rereg" /\ cursor[t] < watchCallbacks[k])
    PROVE  \A k \in Keys : watchCallbacks'[k] > 0 =>
              Holding(sk, k)' \/ Ahead(watchCallbacks[k])'
  <1>0. /\ phase \in [Socks -> Phases] /\ cursor \in [Socks -> Nat] /\ sk # None
        /\ watchCallbacks \in [Keys -> Nat] /\ sent \in [Socks -> Seq(Frames)]
        /\ offlineQueue \in Seq(Waiters)
    BY ConstantsAssumption DEF BaseInv, TypeOK
  <1> SUFFICES ASSUME NEW k \in Keys, watchCallbacks[k] > 0
               PROVE  Holding(sk, k)' \/ Ahead(watchCallbacks[k])'
    OBVIOUS
  <1>1. \A t \in Socks \ {s} : phase'[t] = phase[t] /\ cursor'[t] = cursor[t]
    BY <1>0 DEF Reregister
  <1>2. CASE \E t \in Socks \ {s} :
                phase[t] = "auth" \/ (phase[t] = "rereg" /\ cursor[t] < watchCallbacks[k])
    BY <1>1, <1>2 DEF Ahead
  <1>3. CASE ~\E t \in Socks \ {s} :
                phase[t] = "auth" \/ (phase[t] = "rereg" /\ cursor[t] < watchCallbacks[k])
    <2>0. Holding(sk, k) \/ watchCallbacks[k] > p
      BY <1>3
    <2>1. CASE /\ \E x \in RemainingWatches(p) :
                    /\ \A j \in RemainingWatches(p) : watchCallbacks[x] <= watchCallbacks[j]
                    /\ WriteInflight(sk, q, Frame(s, "watch", x))
                    /\ cursor' = [cursor EXCEPT ![s] = watchCallbacks[x]]
               /\ phase' = [phase EXCEPT ![s] = "rereg"]
      <3>1. PICK x \in RemainingWatches(p) :
               /\ \A j \in RemainingWatches(p) : watchCallbacks[x] <= watchCallbacks[j]
               /\ WriteInflight(sk, q, Frame(s, "watch", x))
               /\ cursor' = [cursor EXCEPT ![s] = watchCallbacks[x]]
        BY <2>1
      <3>0. x \in Keys /\ watchCallbacks[x] > p
        BY DEF RemainingWatches
      <3> DEFINE f == Frame(s, "watch", x)
      <3>2. f \in Frames /\ f.op = "watch" /\ f.key = x
        BY <3>0, FrameTypes DEF Owners, Frame
      <3>3. sent' = [sent EXCEPT ![sk] = Append(@, f)]
        BY <3>1 DEF WriteInflight
      <3> HIDE DEF f
      <3>4. sent' = [sent EXCEPT ![sk] = @ \o <<f>>]
        BY <1>0, <3>2, <3>3, AppendIsConcat, ZenonT(60)
      <3>5. <<f>> \in Seq(Frames) /\ \A i \in 1..Len(<<f>>) : ~Cancels(<<f>>[i], k)
        BY <3>2 DEF Cancels
      <3>6. CASE Holding(sk, k)
        BY <3>4, <3>5, <3>6, WriteCovers
      <3>7. CASE watchCallbacks[k] > p /\ k = x
        BY <3>2, <3>3, <3>7, WatchCovers
      <3>8. CASE watchCallbacks[k] > p /\ k # x
        <4>1. watchCallbacks[x] <= watchCallbacks[k]
          BY <3>1, <3>8 DEF RemainingWatches
        <4>2. watchCallbacks[x] # watchCallbacks[k]
          BY <3>0, <3>8 DEF Positions
        <4>3. watchCallbacks[x] < watchCallbacks[k]
          BY <1>0, <3>0, <4>1, <4>2
        <4>4. phase'[s] = "rereg" /\ cursor'[s] < watchCallbacks[k]
          BY <1>0, <2>1, <3>0, <3>1, <4>3
        <4> QED BY <4>4 DEF Ahead
      <3> QED BY <2>0, <3>6, <3>7, <3>8
    <2>2. CASE RemainingWatches(p) = {} /\ FlushOfflineQueue(sk, q)
      <3>1. Holding(sk, k)
        BY <2>0, <2>2 DEF RemainingWatches
      <3>2. PICK ws \in Seq(Waiters), fs \in Seq(Frames) :
               /\ Len(ws) = Len(offlineQueue) /\ Len(fs) = Len(offlineQueue)
               /\ \A i \in 1..Len(offlineQueue) :
                    /\ ws[i].frame = None /\ ws[i].owner = offlineQueue[i].owner
                    /\ ws[i].settled = offlineQueue[i].settled
                    /\ fs[i] = offlineQueue[i].frame
               /\ inflight' = q \o ws
               /\ sent' = [sent EXCEPT ![sk] = @ \o fs]
               /\ offlineQueue' = <<>>
               /\ outcome' = outcome
        BY <2>2, FlushShape, ZenonT(60)
      <3>3. \A i \in 1..Len(fs) : ~Cancels(fs[i], k)
        BY <1>0, <3>2, LenProperties, ZenonT(60) DEF NoUnwatchQueued, Cancels
      <3> QED BY <3>1, <3>2, <3>3, WriteCovers
    <2> QED BY <1>0, <2>1, <2>2 DEF Reregister
  <1> QED BY <1>2, <1>3

\* A step that keeps what holds on the current connection, or gives it up.
LEMMA CoveredKept ==
    ASSUME Covered, socket' \in {socket, None}, destroyed => destroyed',
           UNCHANGED <<watchCallbacks, phase, cursor>>,
           socket # None /\ socket' = socket /\ ~destroyed =>
              \A k \in Keys : Holding(socket, k) =>
                 WillHold(sent'[socket], Len(replies'[socket]), subs'[socket], k)
    PROVE  Covered'
  <1> SUFFICES ASSUME socket' # None, ~destroyed', NEW k \in Keys, watchCallbacks'[k] > 0
               PROVE  \/ WillHold(sent'[socket'], Len(replies'[socket']), subs'[socket'], k)
                      \/ Ahead(watchCallbacks[k])'
    BY DEF Covered
  <1>1. socket' = socket /\ ~destroyed
    OBVIOUS
  <1>2. Holding(socket, k) \/ Ahead(watchCallbacks[k])
    BY <1>1 DEF Covered, Holding
  <1>3. Ahead(watchCallbacks[k]) => Ahead(watchCallbacks[k])'
    BY DEF Ahead
  <1> QED BY <1>1, <1>2, <1>3

\* The same for a step that does not concern the frames of any connection.
LEMMA CoveredIdle ==
    ASSUME Covered, socket' \in {socket, None}, destroyed => destroyed',
           UNCHANGED <<watchCallbacks, phase, cursor, sent, replies, subs>>
    PROVE  Covered'
  BY CoveredKept DEF Holding

\* Without a connection, or after close(), nothing is promised.
LEMMA CoveredVacuous ==
    ASSUME socket' = None \/ destroyed'
    PROVE  Covered'
  BY DEF Covered

\* A step that leaves the queue alone or empties it.
LEMMA NoUnwatchKept ==
    ASSUME NoUnwatchQueued, offlineQueue' \in {offlineQueue, <<>>}
    PROVE  NoUnwatchQueued'
  BY EmptyFacts DEF NoUnwatchQueued

\* Only Watch and Unwatch touch the Map.
LEMMA PositionsKept ==
    ASSUME Positions, UNCHANGED watchVars
    PROVE  Positions'
  BY DEF Positions, watchVars

\* A call other than an unwatch may be queued; an unwatch never is.
LEMMA SendQueue ==
    ASSUME BaseInv, NoUnwatchQueued, NEW c \in Calls, NEW f \in Frames, Send(c, f),
           f.op = "unwatch" => socket # None
    PROVE  NoUnwatchQueued'
  <1>1. CASE offlineQueue' = offlineQueue
    BY <1>1 DEF NoUnwatchQueued
  <1>2. CASE socket = None /\ offlineQueue' = Append(offlineQueue, Waiter(c, f))
    <2>0. c \in Owners /\ f \in Frames \cup {None} /\ offlineQueue \in Seq(Waiters)
      BY DEF Owners, BaseInv, TypeOK
    <2>1. Waiter(c, f) \in Waiters /\ Waiter(c, f).frame = f
      BY <2>0, WaiterTypes
    <2>2. \A i \in DOMAIN offlineQueue' :
             \/ i \in DOMAIN offlineQueue /\ offlineQueue'[i] = offlineQueue[i]
             \/ offlineQueue'[i] = Waiter(c, f)
      BY <1>2, <2>0, <2>1, AppendFacts, LenProperties
    <2> QED BY <1>2, <2>1, <2>2 DEF NoUnwatchQueued
  <1> QED BY <1>1, <1>2 DEF Send, queueVars

\* The server subscribes and unsubscribes as it is told.
LEMMA ServeCovers ==
    ASSUME Obliging, BaseInv, Covered, NEW s \in Socks, Serve(s)
    PROVE  Covered'
  <1> DEFINE n == Len(replies[s])
             f == sent[s][n + 1]
  <1>1. /\ UNCHANGED <<socket, destroyed, watchCallbacks, phase, cursor, sent>>
        /\ n < Len(sent[s]) /\ n \in Nat /\ sent[s] \in Seq(Frames)
    BY SentLengths DEF Serve, BaseInv, TypeOK, watchVars, lifeVars, dialVars, wireVars
  <1>2. PICK v \in Verdicts :
          /\ replies' = [replies EXCEPT ![s] = Append(@, v)]
          /\ subs' = [subs EXCEPT ![s] =
                        IF f.op = "watch" /\ v # "err" THEN @ \cup {f.key}
                        ELSE IF f.op = "unwatch" /\ v # "err" THEN @ \ {f.key}
                        ELSE @]
    BY DEF Serve
  <1>3. v = "ok"
    BY DEF Obliging
  <1>4. replies \in [Socks -> Seq(Verdicts)] /\ subs \in [Socks -> SUBSET Keys]
    BY DEF BaseInv, TypeOK
  <1>5. /\ Len(replies'[s]) = n + 1
        /\ \A t \in Socks : t # s => replies'[t] = replies[t] /\ subs'[t] = subs[t]
    BY <1>2, <1>4, AppendFacts
  <1>6. subs'[s] = IF f.op = "watch" THEN subs[s] \cup {f.key}
                   ELSE IF f.op = "unwatch" THEN subs[s] \ {f.key} ELSE subs[s]
    BY <1>2, <1>3, <1>4
  <1>7. ASSUME NEW k \in Keys, Holding(s, k)
        PROVE  WillHold(sent'[s], Len(replies'[s]), subs'[s], k)
    <2>1. f.op = "watch" /\ f.key = k => k \in subs'[s]
      BY <1>6
    <2>2. k \in subs[s] /\ ~Cancels(f, k) => k \in subs'[s]
      BY <1>6 DEF Cancels
    <2> QED BY <1>1, <1>5, <1>7, <2>1, <2>2, HoldsServe DEF Holding
  <1>8. ASSUME NEW t \in Socks, t # s, NEW k \in Keys, Holding(t, k)
        PROVE  WillHold(sent'[t], Len(replies'[t]), subs'[t], k)
    BY <1>1, <1>5, <1>8 DEF Holding
  <1>9. socket # None => socket \in Socks
    BY DEF BaseInv, TypeOK
  <1>10. socket # None => \A k \in Keys : Holding(socket, k) =>
             WillHold(sent'[socket], Len(replies'[socket]), subs'[socket], k)
    BY <1>7, <1>8, <1>9
  <1> HIDE DEF n, f
  <1> QED BY <1>1, <1>10, CoveredKept

\* Every step keeps the watches covered.
LEMMA WatchInvNext ==
    ASSUME Discipline, Obliging, BaseInv, PairInv, WatchInv, [Next]_vars
    PROVE  WatchInv'
  <1> USE DEF WatchInv
  <1>0. /\ socket \in Socks \cup {None} /\ None \notin Socks
        /\ watchCallbacks \in [Keys -> Nat] /\ watchSeq \in Nat
        /\ phase \in [Socks -> Phases] /\ cursor \in [Socks -> Nat]
        /\ inflight \in Seq(Waiters) /\ Unframed(inflight)
    BY ConstantsAssumption DEF BaseInv, TypeOK, FramesInPlace, Unframed
  <1>a. ASSUME NEW q \in Seq(Waiters), Unframed(q), NEW plan, DropWaiters(q, plan)
        PROVE  NoUnwatchQueued'
    BY <1>a, DropTypes, NoUnwatchKept
  <1>1. ASSUME NEW c \in Calls, Request(c)
        PROVE  WatchInv'
    <2> DEFINE f == Frame(c, "data", None)
    <2>1. f \in Frames /\ f.op = "data"
      BY FrameTypes DEF Owners
    <2>2. /\ Send(c, f) /\ UNCHANGED watchVars
          /\ UNCHANGED <<socket, destroyed, watchCallbacks, phase, cursor, replies, subs>>
      BY <1>1 DEF Request, watchVars, lifeVars, dialVars, serverVars
    <2> HIDE DEF f
    <2>3. ASSUME socket # None, ~destroyed, NEW k \in Keys, Holding(socket, k)
          PROVE  WillHold(sent'[socket], Len(replies'[socket]), subs'[socket], k)
      <3>1. ~Cancels(f, k)
        BY <2>1 DEF Cancels
      <3> QED BY <2>1, <2>2, <2>3, <3>1, SendCovers
    <2>4. Covered'
      BY <2>2, <2>3, CoveredKept
    <2> QED BY <2>1, <2>2, <2>4, PositionsKept, SendQueue
  <1>2. ASSUME NEW c \in Calls, NEW x \in Keys, Watch(c, x)
        PROVE  WatchInv'
    <2> DEFINE f == Frame(c, "watch", x)
    <2>1. f \in Frames /\ f.op = "watch" /\ f.key = x
      BY FrameTypes DEF Owners, Frame
    <2>2. /\ Send(c, f)
          /\ UNCHANGED <<socket, destroyed, phase, cursor, replies, subs>>
      BY <1>2 DEF Watch, lifeVars, dialVars, serverVars
    <2> HIDE DEF f
    <2>3. /\ \A k \in Keys : k # x => watchCallbacks'[k] = watchCallbacks[k]
          /\ Positions'
      <3>1. CASE watchCallbacks[x] = 0
        <4>1. watchSeq' = watchSeq + 1 /\ watchCallbacks' = [watchCallbacks EXCEPT ![x] = watchSeq + 1]
          BY <1>2, <3>1 DEF Watch
        <4> QED BY <1>0, <4>1 DEF Positions
      <3>2. CASE watchCallbacks[x] # 0
        BY <1>2, <3>2, PositionsKept DEF Watch, watchVars
      <3> QED BY <3>1, <3>2
    <2>4. ASSUME socket # None, ~destroyed, NEW k \in Keys, watchCallbacks'[k] > 0
          PROVE  \/ WillHold(sent'[socket], Len(replies'[socket]), subs'[socket], k)
                 \/ Ahead(watchCallbacks[k])'
      <3>1. CASE k = x
        BY <2>1, <2>2, <2>4, <3>1, SendCovers
      <3>2. CASE k # x
        <4>1. watchCallbacks'[k] = watchCallbacks[k]
          BY <2>3, <3>2
        <4>2. Holding(socket, k) \/ Ahead(watchCallbacks[k])
          BY <2>4, <4>1 DEF Covered, Holding
        <4>3. Ahead(watchCallbacks[k]) => Ahead(watchCallbacks[k])'
          BY <2>2, <4>1 DEF Ahead
        <4>4. ~Cancels(f, k)
          BY <2>1 DEF Cancels
        <4> QED BY <2>1, <2>2, <2>4, <4>2, <4>3, <4>4, SendCovers
      <3> QED BY <3>1, <3>2
    <2>5. Covered'
      BY <2>2, <2>4 DEF Covered
    <2> QED BY <2>1, <2>2, <2>3, <2>5, SendQueue
  <1>3. ASSUME NEW c \in Calls, NEW x \in Keys, Unwatch(c, x)
        PROVE  WatchInv'
    <2> DEFINE f == Frame(c, "unwatch", x)
    <2>1. f \in Frames /\ f.op = "unwatch" /\ f.key = x
      BY FrameTypes DEF Owners, Frame
    <2>2. /\ watchCallbacks' = [watchCallbacks EXCEPT ![x] = 0]
          /\ IF socket = None THEN UNCHANGED <<queueVars, sent>> ELSE Send(c, f)
          /\ UNCHANGED <<socket, destroyed, watchSeq, phase, cursor, replies, subs>>
      BY <1>3 DEF Unwatch, lifeVars, dialVars, serverVars
    <2> HIDE DEF f
    <2>3. Positions'
      BY <1>0, <2>2 DEF Positions
    <2>4. ASSUME socket # None, ~destroyed, NEW k \in Keys, watchCallbacks'[k] > 0
          PROVE  \/ WillHold(sent'[socket], Len(replies'[socket]), subs'[socket], k)
                 \/ Ahead(watchCallbacks[k])'
      <3>1. k # x /\ watchCallbacks'[k] = watchCallbacks[k]
        BY <1>0, <2>2, <2>4
      <3>2. Holding(socket, k) \/ Ahead(watchCallbacks[k])
        BY <2>4, <3>1 DEF Covered, Holding
      <3>3. Ahead(watchCallbacks[k]) => Ahead(watchCallbacks[k])'
        BY <2>2, <3>1 DEF Ahead
      <3>4. ~Cancels(f, k)
        BY <2>1, <3>1 DEF Cancels
      <3> QED BY <2>1, <2>2, <2>4, <3>2, <3>3, <3>4, SendCovers
    <2>5. Covered'
      BY <2>2, <2>4 DEF Covered
    <2>6. NoUnwatchQueued'
      <3>1. CASE socket = None
        BY <2>2, <3>1 DEF NoUnwatchQueued, queueVars
      <3>2. CASE socket # None
        BY <2>1, <2>2, <3>2, SendQueue
      <3> QED BY <3>1, <3>2
    <2> QED BY <2>3, <2>5, <2>6
  <1>4. CASE Close
    BY <1>4, CoveredVacuous, NoUnwatchKept, PositionsKept DEF Close, Shutdown
  <1>5. CASE Connect \/ ReconnectTimer
    <2>1. /\ UNCHANGED watchVars /\ UNCHANGED <<offlineQueue, socket>>
      BY <1>5 DEF Connect, ReconnectTimer, StartConnect, queueVars
    <2>2. socket = None
      BY <1>5 DEF Connect, MayConnect, ReconnectTimer, PairInv, SocketsOK
    <2> QED BY <2>1, <2>2, CoveredVacuous, NoUnwatchKept, PositionsKept
  <1>6. ASSUME NEW s \in Socks, ConnectOk(s)
        PROVE  WatchInv'
    <2>1. /\ UNCHANGED <<replies, subs, watchCallbacks>> /\ UNCHANGED watchVars /\ socket' = s
      BY <1>6 DEF ConnectOk, watchVars, serverVars
    <2>2. CASE phase' = [phase EXCEPT ![s] = "auth"] /\ offlineQueue' = offlineQueue
      <3>1. phase'[s] = "auth"
        BY <1>0, <2>2
      <3>2. Covered'
        BY <3>1 DEF Covered, Ahead
      <3> QED BY <2>1, <2>2, <3>2, NoUnwatchKept, PositionsKept
    <2>3. CASE Reregister(s, s, inflight, 0)
      <3>1. 0 \in Nat /\ s \in Socks \cup {None}
        OBVIOUS
      <3>2. \A k \in Keys : watchCallbacks'[k] > 0 => Holding(s, k)' \/ Ahead(watchCallbacks[k])'
        BY <2>1, <2>3, <3>1, ReregisterCovers
      <3>3. Covered'
        BY <2>1, <3>2 DEF Covered, Holding
      <3>4. offlineQueue' \in {offlineQueue, <<>>}
        BY <1>0, <2>3, <3>1, ReregisterTypes
      <3> QED BY <2>1, <3>3, <3>4, NoUnwatchKept, PositionsKept
    <2> QED BY <1>6, <2>2, <2>3 DEF ConnectOk
  <1>7. ASSUME NEW s \in Socks, ConnectFail(s)
        PROVE  WatchInv'
    <2>1. s \in Owners
      BY DEF Owners
    <2>2. /\ Waiter(s, None) \in Waiters /\ Waiter(s, None).frame = None
          /\ <<Waiter(s, None)>> \in Seq(Waiters) /\ Unframed(<<Waiter(s, None)>>)
      BY <2>1, LoneWaiter
    <2>3. /\ Append(inflight, Waiter(s, None)) \in Seq(Waiters)
          /\ Unframed(Append(inflight, Waiter(s, None)))
      BY <1>0, <2>2, AppendFacts, LenProperties DEF Unframed
    <2>4. socket' = None /\ UNCHANGED watchVars
      BY <1>7 DEF ConnectFail
    <2>5. NoUnwatchQueued'
      BY <1>7, <1>a, <2>2, <2>3 DEF ConnectFail
    <2> QED BY <2>4, <2>5, CoveredVacuous, PositionsKept
  <1>8. ASSUME NEW s \in Socks, ReplyIgnored(s) \/ ReplyToCall(s)
        PROVE  WatchInv'
    <2>1. /\ UNCHANGED watchVars
          /\ UNCHANGED <<socket, destroyed, watchCallbacks, phase, cursor>>
          /\ UNCHANGED <<sent, replies, subs, offlineQueue>>
      BY <1>8 DEF ReplyIgnored, ReplyToCall, TakeReply, watchVars, serverVars, dialVars
    <2> QED BY <2>1, CoveredIdle, NoUnwatchKept, PositionsKept
  <1>9. ASSUME NEW s \in Socks, NEW t \in Socks, ReplyToAuth(s, t) \/ ReplyToRereg(s, t)
        PROVE  WatchInv'
    <2>1. /\ UNCHANGED <<replies, subs, watchCallbacks>> /\ UNCHANGED watchVars
          /\ inflight # <<>> /\ TakeReply(s)
      BY <1>9 DEF ReplyToAuth, ReplyToRereg, TakeReply, Expects, watchVars, serverVars
    <2>2. Verdict(s) = "ok"
      BY <2>1, TakeReplyTypes DEF Obliging
    <2>3. Tail(inflight) \in Seq(Waiters) /\ Unframed(Tail(inflight))
      BY <1>0, <2>1, TailFacts, LenProperties DEF Unframed
    <2>4. CASE Shutdown
      BY <2>1, <2>4, CoveredVacuous, NoUnwatchKept, PositionsKept DEF Shutdown
    <2>5. ASSUME NEW p \in Nat, Reregister(t, socket, Tail(inflight), p),
                 UNCHANGED <<socket, destroyed>>,
                 \/ phase[t] = "auth" /\ p = 0
                 \/ phase[t] = "rereg" /\ p = cursor[t]
          PROVE  WatchInv'
      <3>1. offlineQueue' \in {offlineQueue, <<>>}
        BY <1>0, <2>3, <2>5, ReregisterTypes
      <3>2. CASE socket = None \/ destroyed
        BY <2>1, <2>5, <3>1, <3>2, CoveredVacuous, NoUnwatchKept, PositionsKept
      <3>3. CASE socket # None /\ ~destroyed
        <4>1. PICK sk \in Socks : sk = socket
          BY <1>0, <3>3
        <4>2. ASSUME NEW k \in Keys, watchCallbacks[k] > 0
              PROVE  \/ Holding(sk, k)
                     \/ watchCallbacks[k] > p
                     \/ \E u \in Socks \ {t} :
                           phase[u] = "auth" \/ (phase[u] = "rereg" /\ cursor[u] < watchCallbacks[k])
          <5>1. Holding(sk, k) \/ Ahead(watchCallbacks[k])
            BY <3>3, <4>1, <4>2 DEF Covered, Holding
          <5>2. CASE \E u \in Socks \ {t} :
                        phase[u] = "auth" \/ (phase[u] = "rereg" /\ cursor[u] < watchCallbacks[k])
            BY <5>2
          <5>3. CASE phase[t] = "auth" \/ (phase[t] = "rereg" /\ cursor[t] < watchCallbacks[k])
            BY <1>0, <2>5, <4>2, <5>3
          <5> QED BY <5>1, <5>2, <5>3 DEF Ahead
        <4>3. Reregister(t, sk, Tail(inflight), p)
          BY <2>5, <4>1
        <4>4. \A k \in Keys : watchCallbacks'[k] > 0 => Holding(sk, k)' \/ Ahead(watchCallbacks[k])'
          BY <2>1, <4>2, <4>3, ReregisterCovers
        <4>5. Covered'
          BY <2>5, <4>1, <4>4 DEF Covered, Holding
        <4> QED BY <2>1, <3>1, <4>5, NoUnwatchKept, PositionsKept
      <3> QED BY <3>2, <3>3
    <2>6. cursor[t] \in Nat /\ 0 \in Nat
      BY <1>0
    <2> QED BY <1>9, <2>2, <2>4, <2>5, <2>6 DEF ReplyToAuth, ReplyToRereg
  <1>10. ASSUME NEW s \in Socks, ReceivePush(s) \/ \E k \in Keys : Push(s, k)
         PROVE  WatchInv'
    <2>1. /\ UNCHANGED watchVars
          /\ UNCHANGED <<socket, destroyed, watchCallbacks, phase, cursor>>
          /\ UNCHANGED <<sent, replies, subs, offlineQueue>>
      BY <1>10 DEF ReceivePush, Push, watchVars, lifeVars, queueVars, dialVars, serverVars
    <2> QED BY <2>1, CoveredIdle, NoUnwatchKept, PositionsKept
  <1>11. ASSUME NEW s \in Socks, SocketClosed(s)
         PROVE  WatchInv'
    <2>1. socket' = None /\ UNCHANGED watchVars
      BY <1>11 DEF SocketClosed
    <2>2. NoUnwatchQueued'
      BY <1>0, <1>11, <1>a, NoUnwatchKept DEF SocketClosed
    <2> QED BY <2>1, <2>2, CoveredVacuous, PositionsKept
  <1>12. ASSUME NEW s \in Socks, Serve(s)
         PROVE  WatchInv'
    <2>1. UNCHANGED watchVars /\ UNCHANGED offlineQueue
      BY <1>12 DEF Serve, queueVars
    <2> QED BY <1>12, <2>1, ServeCovers, NoUnwatchKept, PositionsKept
  <1>13. ASSUME NEW s \in Socks, ServerForgets(s)
         PROVE  WatchInv'
    <2>1. /\ UNCHANGED watchVars
          /\ UNCHANGED <<socket, destroyed, watchCallbacks, phase, cursor, offlineQueue>>
          /\ link[s] = "dead"
      BY <1>13 DEF ServerForgets, watchVars, lifeVars, queueVars, dialVars
    <2>2. socket # None => socket # s /\ socket \in Socks
      BY <1>0, <2>1 DEF PairInv, SocketsOK
    <2>3. socket # None => /\ sent'[socket] = sent[socket] /\ replies'[socket] = replies[socket]
                           /\ subs'[socket] = subs[socket]
      BY <1>13, <2>2 DEF ServerForgets, BaseInv, TypeOK
    <2>4. Covered'
      BY <2>1, <2>3, CoveredKept DEF Holding
    <2> QED BY <2>1, <2>4, NoUnwatchKept, PositionsKept
  <1>14. CASE UNCHANGED vars
    <2>1. /\ UNCHANGED watchVars
          /\ UNCHANGED <<socket, destroyed, watchCallbacks, phase, cursor>>
          /\ UNCHANGED <<sent, replies, subs, offlineQueue>>
      BY <1>14 DEF vars, watchVars, lifeVars, queueVars, dialVars, serverVars, wireVars
    <2> QED BY <2>1, CoveredIdle, NoUnwatchKept, PositionsKept
  <1>15. (\A s \in Socks : ~ReceiveBadPush(s)) /\ \A i \in DOMAIN inflight : ~RequestTimer(i)
    BY DEF Discipline, Obliging, ReceiveBadPush, RequestTimer
  <1> QED
    BY <1>1, <1>2, <1>3, <1>4, <1>5, <1>6, <1>7, <1>8, <1>9, <1>10, <1>11, <1>12, <1>13,
       <1>14, <1>15 DEF Next

\* When all is quiet on a connection, every frame on it has been served.
LEMMA QuietServed ==
    ASSUME BaseInv, PairInv, WatchInv
    PROVE  CallbacksSubscribed
  <1> SUFFICES ASSUME NEW s \in Socks, Quiet(s), NEW k \in Keys, watchCallbacks[k] > 0
               PROVE  k \in subs[s]
    BY DEF CallbacksSubscribed
  <1>1. /\ socket = s /\ s # None /\ ~destroyed /\ inflight = <<>>
        /\ \A t \in Socks : phase[t] = "idle"
    BY ConstantsAssumption DEF Quiet
  <1>2. WillHold(sent[s], Len(replies[s]), subs[s], k)
    BY <1>1 DEF WatchInv, Covered, Ahead
  <1>3. Alive(s)
    BY <1>1 DEF PairInv, SocketsOK, Alive
  <1>4. Len(sent[s]) = recvd[s] + 0
    BY <1>1, <1>3, EmptyFacts DEF PairInv, Aligned, Matches
  <1>5. /\ DOMAIN sent[s] = 1..Len(sent[s]) /\ Len(sent[s]) \in Nat /\ Len(replies[s]) \in Nat
        /\ recvd[s] \in Nat /\ recvd[s] <= Len(replies[s])
    BY SentLengths, LenProperties DEF BaseInv, TypeOK, WireOK
  <1>6. \A i \in DOMAIN sent[s] : ~(i > Len(replies[s]))
    BY <1>4, <1>5
  <1> QED BY <1>2, <1>6 DEF WillHold

\* Once a connection has settled, every key with a callback is subscribed on it
\* at the server, whatever was watched, unwatched, lost and reconnected before:
\* reRegisterWatches() misses no key, not even one that is added, removed or
\* added again while it runs, and no frame undoes what another has asked for.
THEOREM WatchesSurvive == Discipline /\ Obliging /\ Spec => []CallbacksSubscribed
  <1> SUFFICES ASSUME Discipline, Obliging
               PROVE  Spec => []CallbacksSubscribed
    OBVIOUS
  <1>1. Init => WatchInv
    BY EmptyFacts DEF Init, WatchInv, Covered, Positions, NoUnwatchQueued
  <1>2. BaseInv /\ PairInv /\ WatchInv => CallbacksSubscribed
    BY QuietServed
  <1>3. BaseInv /\ PairInv /\ WatchInv /\ [Next]_vars => (BaseInv /\ PairInv /\ WatchInv)'
    BY BaseInvNext, PairInvNext, WatchInvNext
  <1>4. Init => BaseInv /\ PairInv /\ WatchInv
    BY <1>1, BaseInvInit, PairInvInit
  <1> QED
    BY <1>2, <1>3, <1>4, PTL DEF Spec

=============================================================================
