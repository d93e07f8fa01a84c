-------------------------- MODULE HttpClientProofs ---------------------------
(***************************************************************************)
(* HttpClient for any calls, any number of retries and any breaker: its    *)
(* type invariant, the count of the circuit breaker, and that it           *)
(* implements CallService.                                                 *)
(*                                                                         *)
(* TypeOK bounds execs and stale by MaxRetries + 1 without being able to   *)
(* preserve that.  What is preserved is the account that Accounted keeps   *)
(* of each call: every request of it was handled by the server, or may     *)
(* still be, or is lost, and there are no more of them than attempts.      *)
(***************************************************************************)
EXTENDS HttpClient, TLAPS

Accounted(c) ==
    /\ phase[c] = "idle" => outcome[c] = "idle"
    /\ phase[c] = "done" => outcome[c] \in {"ok", "error", "refused", "unknown"}
    /\ outcome[c] \in {"idle", "refused"} => attempt[c] = 0 /\ execs[c] + stale[c] = 0
    /\ attempt[c] > 0 => Method(c) \in RetryMethods
    /\ phase[c] \in {"sent", "backoff"} => execs[c] + stale[c] <= attempt[c]
    /\ execs[c] + stale[c] <= attempt[c] + 1
    /\ phase[c] = "answered" => execs[c] > 0
    /\ stale[c] > 0 /\ attempt[c] = 0 => outcome[c] = "unknown"

AllAccounted == \A c \in Calls : Accounted(c)

IInv == TypeOK /\ FailuresCounted /\ AllAccounted

-----------------------------------------------------------------------------
(* The breaker.                                                             *)

\* FailuresCounted of a given circuit and streak
Counted(b, n) ==
    BreakerEnabled =>
        IF b.state = "closed" THEN b.failures = n /\ n < Threshold
        ELSE b.failures = Threshold

\* What beforeRequest(), recordFailure() and recordSuccess() make of a circuit
\* that counts right is a circuit that counts right.
LEMMA BreakerSteps ==
    ASSUME circuit \in Circuits, streak \in 0..Threshold, Counted(circuit, streak)
    PROVE  /\ AfterAdmission \in Circuits /\ Counted(AfterAdmission, streak)
           /\ AfterFailure \in Circuits /\ Counted(AfterFailure, UpTo(streak + 1))
           /\ AfterSuccess \in Circuits /\ Counted(AfterSuccess, 0)
           /\ UpTo(streak + 1) \in 0..Threshold
  <1> USE ConstantsAssumption DEF ConstantsAssumption
  <1>0. /\ 0 \in 0..(HalfOpenMax - 1) /\ 0 \in 0..Threshold /\ 0 < Threshold
        /\ circuit.successes + 1 < HalfOpenMax =>
             circuit.successes + 1 \in 0..(HalfOpenMax - 1)
    BY DEF Circuits
  <1>1. AfterAdmission \in Circuits /\ Counted(AfterAdmission, streak)
    <2>1. CASE BreakerEnabled /\ circuit.state = "open"
      <3>1. AfterAdmission = [circuit EXCEPT !.state = "half-open", !.successes = 0]
        BY <2>1 DEF AfterAdmission
      <3> QED BY <2>1, <3>1, <1>0 DEF Circuits, Counted
    <2>2. CASE ~(BreakerEnabled /\ circuit.state = "open")
      BY <2>2 DEF AfterAdmission
    <2> QED BY <2>1, <2>2
  <1>2. AfterFailure \in Circuits /\ Counted(AfterFailure, UpTo(streak + 1))
    BY DEF AfterFailure, Circuits, Counted, UpTo
  <1>3. AfterSuccess \in Circuits /\ Counted(AfterSuccess, 0)
    <2>1. CASE ~BreakerEnabled
      BY <2>1 DEF AfterSuccess, Counted
    <2>2. CASE BreakerEnabled /\ circuit.state = "half-open"
      <3>1. CASE circuit.successes + 1 >= HalfOpenMax
        <4>1. AfterSuccess =
                [circuit EXCEPT !.state = "closed", !.failures = 0, !.successes = 0]
          BY <2>2, <3>1 DEF AfterSuccess
        <4> QED BY <2>2, <4>1, <1>0 DEF Circuits, Counted
      <3>2. CASE ~(circuit.successes + 1 >= HalfOpenMax)
        <4>1. AfterSuccess = [circuit EXCEPT !.successes = circuit.successes + 1]
          BY <2>2, <3>2 DEF AfterSuccess
        <4>2. circuit.successes + 1 < HalfOpenMax
          BY <3>2 DEF Circuits
        <4> QED BY <2>2, <4>1, <4>2, <1>0 DEF Circuits, Counted
      <3> QED BY <3>1, <3>2
    <2>3. CASE BreakerEnabled /\ circuit.state # "half-open"
      <3>1. AfterSuccess = [circuit EXCEPT !.state = "closed", !.failures = 0]
        BY <2>3 DEF AfterSuccess
      <3> QED BY <2>3, <3>1, <1>0 DEF Circuits, Counted
    <2> QED BY <2>1, <2>2, <2>3
  <1>4. UpTo(streak + 1) \in 0..Threshold
    BY DEF UpTo
  <1> QED BY <1>1, <1>2, <1>3, <1>4

\* Every step leaves a well-formed circuit that counts right.
LEMMA CircuitStep ==
    ASSUME TypeOK, FailuresCounted, [Next]_vars
    PROVE  circuit' \in Circuits /\ streak' \in 0..Threshold /\ FailuresCounted'
  <1>1. /\ circuit \in Circuits /\ streak \in 0..Threshold
        /\ Counted(circuit, streak)
    BY DEF TypeOK, FailuresCounted, Counted
  <1>2. CASE UNCHANGED <<circuit, streak>>
    BY <1>1, <1>2 DEF FailuresCounted, Counted
  <1>3. CASE circuit' = AfterAdmission /\ UNCHANGED streak
    BY <1>1, <1>3, BreakerSteps DEF FailuresCounted, Counted
  <1>4. CASE RecordFailure
    BY <1>1, <1>4, BreakerSteps DEF RecordFailure, FailuresCounted, Counted
  <1>5. CASE RecordSuccess
    <2>1. 0 \in 0..Threshold
      BY ConstantsAssumption DEF ConstantsAssumption
    <2> QED BY <1>1, <1>5, <2>1, BreakerSteps DEF RecordSuccess, FailuresCounted, Counted
  <1>6. CASE Cool
    BY <1>1, <1>6 DEF Cool, Circuits, FailuresCounted, Counted
  <1> QED
    BY <1>2, <1>3, <1>4, <1>5, <1>6
    DEF Next, vars, Request, RequestRefused, Respond, FetchFailed, Backoff, Wake,
        Renew, Handle, HandleStale, GoUp, GoDown

-----------------------------------------------------------------------------
(* The calls.                                                               *)

\* What TypeOK says of the calls and the server
CallTypes ==
    /\ phase \in [Calls -> {"idle", "sent", "answered", "backoff", "done"}]
    /\ attempt \in [Calls -> 0..MaxRetries]
    /\ status \in [Calls -> Statuses \cup {None}]
    /\ outcome \in [Calls -> {"idle", "pending", "ok", "error", "refused", "unknown"}]
    /\ result \in [Calls -> {"none", "existed", "notFound"}]
    /\ stale \in [Calls -> 0..(MaxRetries + 1)]
    /\ execs \in [Calls -> 0..(MaxRetries + 1)]
    /\ removed \in [Calls -> BOOLEAN]
    /\ present \in BOOLEAN /\ up \in BOOLEAN
    /\ \A c \in Calls : /\ (status[c] # None) <=> (phase[c] = "answered")
                        /\ (outcome[c] = "pending")
                             <=> (phase[c] \in {"sent", "answered", "backoff"})

CallInv == CallTypes /\ AllAccounted

\* Sending a request, or being refused, preserves the account.
LEMMA RequestStep ==
    ASSUME CallInv, NEW c \in Calls, Request(c) \/ RequestRefused(c) \/ Wake(c)
    PROVE  CallInv'
  <1> USE ConstantsAssumption DEF ConstantsAssumption, CallInv, CallTypes, Statuses, serverVars
  <1>1. CallTypes'
    <2>1. CASE Request(c)
      BY <2>1 DEF Request
    <2>2. CASE RequestRefused(c)
      BY <2>2 DEF RequestRefused
    <2>3. CASE Wake(c)
      BY <2>3 DEF Wake
    <2> QED BY <2>1, <2>2, <2>3
  <1>2. AllAccounted'
    <2> SUFFICES ASSUME NEW d \in Calls PROVE Accounted(d)'
      BY DEF AllAccounted
    <2>1. Accounted(d)
      BY DEF AllAccounted
    <2> QED BY <2>1 DEF Request, RequestRefused, Wake, Accounted
  <1> QED BY <1>1, <1>2

\* A response, or the failure of a fetch, preserves the account.
LEMMA SettleStep ==
    ASSUME CallInv, NEW c \in Calls, Respond(c) \/ FetchFailed(c)
    PROVE  CallInv'
  <1> USE ConstantsAssumption DEF ConstantsAssumption, CallInv, CallTypes, Statuses, serverVars
  <1>1. CASE Respond(c)
    <2>1. CallTypes'
      <3>1. /\ Outcome(c) \in {"ok", "error"}
            /\ Returned(c) \in {"none", "existed", "notFound"}
        BY DEF Outcome, Returned
      <3>2. /\ status' = [status EXCEPT ![c] = None]
            /\ UNCHANGED <<stale, execs, removed, present, up>>
            /\ result' \in {result, [result EXCEPT ![c] = Returned(c)]}
            /\ phase[c] = "answered"
            /\ \/ /\ attempt[c] < MaxRetries
                  /\ phase' = [phase EXCEPT ![c] = "backoff"]
                  /\ attempt' = [attempt EXCEPT ![c] = @ + 1]
                  /\ UNCHANGED outcome
               \/ /\ phase' = [phase EXCEPT ![c] = "done"]
                  /\ outcome' = [outcome EXCEPT ![c] = Outcome(c)]
                  /\ UNCHANGED attempt
        BY <1>1 DEF Respond, Backoff, Settle, MayRetry
      <3> QED BY <3>1, <3>2
    <2>2. AllAccounted'
      <3> SUFFICES ASSUME NEW d \in Calls PROVE Accounted(d)'
        BY DEF AllAccounted
      <3>1. Accounted(d)
        BY DEF AllAccounted
      <3> QED BY <1>1, <3>1 DEF Respond, Backoff, Settle, Outcome, MayRetry, Accounted
    <2> QED BY <2>1, <2>2
  <1>2. CASE FetchFailed(c)
    <2>1. CallTypes'
      <3>1. stale' \in [Calls -> 0..(MaxRetries + 1)]
        <4>1. phase[c] = "sent" => stale[c] + 1 \in 0..(MaxRetries + 1)
          BY DEF AllAccounted, Accounted
        <4> QED BY <1>2, <4>1 DEF FetchFailed
      <3>2. /\ status' = [status EXCEPT ![c] = None]
            /\ UNCHANGED <<execs, removed, present, up, result>>
            /\ phase[c] \in {"sent", "answered"}
            /\ \/ /\ attempt[c] < MaxRetries
                  /\ phase' = [phase EXCEPT ![c] = "backoff"]
                  /\ attempt' = [attempt EXCEPT ![c] = @ + 1]
                  /\ UNCHANGED outcome
               \/ /\ phase' = [phase EXCEPT ![c] = "done"]
                  /\ outcome' = [outcome EXCEPT ![c] = "unknown"]
                  /\ UNCHANGED attempt
        BY <1>2 DEF FetchFailed, Backoff, Settle, MayRetry
      <3> QED BY <3>1, <3>2
    <2>2. AllAccounted'
      <3> SUFFICES ASSUME NEW d \in Calls PROVE Accounted(d)'
        BY DEF AllAccounted
      <3>1. Accounted(d)
        BY DEF AllAccounted
      <3> QED BY <1>2, <3>1 DEF FetchFailed, Backoff, Settle, MayRetry, Accounted
    <2> QED BY <2>1, <2>2
  <1> QED BY <1>1, <1>2

\* Making a settled call again opens a new account.
LEMMA RenewStep ==
    ASSUME CallInv, NEW c \in Calls, Renew(c)
    PROVE  CallInv'
  <1> USE ConstantsAssumption DEF ConstantsAssumption, CallInv, CallTypes, Statuses
  <1>1. CallTypes'
    BY DEF Renew
  <1>2. AllAccounted'
    <2> SUFFICES ASSUME NEW d \in Calls PROVE Accounted(d)'
      BY DEF AllAccounted
    <2>1. Accounted(d)
      BY DEF AllAccounted
    <2> QED BY <2>1 DEF Renew, Accounted
  <1> QED BY <1>1, <1>2

\* The server's part preserves the account: it handles what was sent.
LEMMA ServerStep ==
    ASSUME CallInv, NEW c \in Calls, Handle(c) \/ HandleStale(c)
    PROVE  CallInv'
  <1> USE ConstantsAssumption DEF ConstantsAssumption, CallInv, CallTypes, Statuses, serverVars
  <1>1. ASSUME NEW s, Handled(c, s)
        PROVE  removed' \in [Calls -> BOOLEAN] /\ present' \in BOOLEAN
    BY <1>1 DEF Handled
  <1>2. CASE Handle(c)
    <2>1. CallTypes'
      <3>1. PICK s \in Statuses : Handled(c, s) /\ status' = [status EXCEPT ![c] = s]
        BY <1>2 DEF Handle
      <3>2. execs[c] + 1 \in 0..(MaxRetries + 1) /\ phase[c] = "sent"
        BY <1>2 DEF Handle, AllAccounted, Accounted
      <3>3. execs' \in [Calls -> 0..(MaxRetries + 1)]
        BY <3>1, <3>2 DEF Handled
      <3>4. removed' \in [Calls -> BOOLEAN] /\ present' \in BOOLEAN
        BY <1>1, <3>1
      <3> QED BY <1>2, <3>1, <3>2, <3>3, <3>4 DEF Handle
    <2>2. AllAccounted'
      <3> SUFFICES ASSUME NEW d \in Calls PROVE Accounted(d)'
        BY DEF AllAccounted
      <3>1. Accounted(d)
        BY DEF AllAccounted
      <3> QED BY <1>2, <3>1 DEF Handle, Handled, Accounted
    <2> QED BY <2>1, <2>2
  <1>3. CASE HandleStale(c)
    <2>1. CallTypes'
      <3>1. execs[c] + 1 \in 0..(MaxRetries + 1) /\ stale[c] - 1 \in 0..(MaxRetries + 1)
        BY <1>3 DEF HandleStale, AllAccounted, Accounted
      <3>2. execs' \in [Calls -> 0..(MaxRetries + 1)]
        <4>1. execs' = execs \/ execs' = [execs EXCEPT ![c] = @ + 1]
          BY <1>3 DEF HandleStale, Handled
        <4> QED BY <3>1, <4>1
      <3>3. removed' \in [Calls -> BOOLEAN] /\ present' \in BOOLEAN
        BY <1>1, <1>3 DEF HandleStale
      <3> QED BY <1>3, <3>1, <3>2, <3>3 DEF HandleStale, callVars
    <2>2. AllAccounted'
      <3> SUFFICES ASSUME NEW d \in Calls PROVE Accounted(d)'
        BY DEF AllAccounted
      <3>1. Accounted(d)
        BY DEF AllAccounted
      <3>2. /\ execs' = execs \/ execs' = [execs EXCEPT ![c] = @ + 1]
            /\ stale[c] > 0 /\ stale' = [stale EXCEPT ![c] = @ - 1]
            /\ UNCHANGED <<phase, attempt, outcome>>
        BY <1>3 DEF HandleStale, Handled, callVars
      <3> QED BY <3>1, <3>2 DEF Accounted
    <2> QED BY <2>1, <2>2
  <1> QED BY <1>2, <1>3

-----------------------------------------------------------------------------
(* The invariant.                                                           *)

\* The invariant holds of a new client.
LEMMA InitInv == Init => IInv
  <1> USE ConstantsAssumption DEF ConstantsAssumption
  <1> SUFFICES ASSUME Init PROVE IInv
    OBVIOUS
  <1>1. TypeOK
    BY DEF Init, TypeOK, Circuits, Statuses
  <1>2. FailuresCounted
    BY DEF Init, FailuresCounted
  <1>3. AllAccounted
    BY DEF Init, AllAccounted, Accounted
  <1> QED BY <1>1, <1>2, <1>3 DEF IInv

\* TypeOK is what the two halves of the proof establish.
LEMMA TypeParts ==
    TypeOK <=> circuit \in Circuits /\ streak \in 0..Threshold /\ CallTypes
  BY DEF TypeOK, CallTypes

\* Every step of client, server and clock preserves the invariant.
LEMMA NextInv == IInv /\ [Next]_vars => IInv'
  <1> SUFFICES ASSUME IInv, [Next]_vars PROVE IInv'
    OBVIOUS
  <1>1. circuit' \in Circuits /\ streak' \in 0..Threshold /\ FailuresCounted'
    BY CircuitStep DEF IInv
  <1>2. CallInv
    BY TypeParts DEF IInv, CallInv
  <1>3. CallInv'
    <2>1. ASSUME NEW c \in Calls, Request(c) \/ RequestRefused(c) \/ Wake(c)
          PROVE  CallInv'
      BY <1>2, <2>1, RequestStep
    <2>2. ASSUME NEW c \in Calls, Respond(c) \/ FetchFailed(c)
          PROVE  CallInv'
      BY <1>2, <2>2, SettleStep
    <2>3. ASSUME NEW c \in Calls, Renew(c)
          PROVE  CallInv'
      BY <1>2, <2>3, RenewStep
    <2>4. ASSUME NEW c \in Calls, Handle(c) \/ HandleStale(c)
          PROVE  CallInv'
      BY <1>2, <2>4, ServerStep
    <2>5. CASE GoUp \/ GoDown \/ Cool \/ UNCHANGED vars
      BY <1>2, <2>5
      DEF GoUp, GoDown, Cool, vars, callVars, serverVars, CallInv, CallTypes,
          AllAccounted, Accounted
    <2> QED BY <2>1, <2>2, <2>3, <2>4, <2>5 DEF Next
  <1>4. TypeOK'
    BY <1>1, <1>3, TypeParts DEF TypeOK, CallInv, CallTypes
  <1> QED BY <1>1, <1>3, <1>4 DEF IInv, CallInv

\* Types, the breaker's count and the account of every call, together, hold in
\* every reachable state.
THEOREM Invariance == Spec => []IInv
  BY InitInv, NextInv, PTL DEF Spec

\* Type correctness; its bounds on execs and stale say that no call is ever
\* sent to the server more than 1 + maxRetries times.
THEOREM TypeCorrect == Spec => []TypeOK
  <1>1. IInv => TypeOK
    BY DEF IInv
  <1> QED BY <1>1, Invariance, PTL

\* However many calls record their failures and successes, in whatever order,
\* circuitFailures is the number of failures since the last success while the
\* circuit is closed, and has reached the threshold while it is not.
THEOREM BreakerCounts == Spec => []FailuresCounted
  <1>1. IInv => FailuresCounted
    BY DEF IInv
  <1> QED BY <1>1, Invariance, PTL

-----------------------------------------------------------------------------
(* The refinement.                                                          *)

\* The calls CallService may repeat, and the replies it sees.
Repeatable == {c \in Calls : Method(c) \in RetryMethods}
Replies    == [c \in Calls |-> IF outcome[c] \in {"ok", "error"} THEN c ELSE None]

\* A new client is a CallService with no calls made.
LEMMA InitRefines == Init => CS!Init
  BY DEF Init, CS!Init

\* A call begins, as pending or refused.
LEMMA BeginRefines ==
    ASSUME IInv, NEW c \in Calls, Request(c) \/ RequestRefused(c)
    PROVE  CS!Begin(c)
  <1>1. outcome[c] = "idle" /\ execs' = execs
    BY DEF IInv, AllAccounted, Accounted, Request, RequestRefused, serverVars
  <1>2. \E o \in {"pending", "refused", "skipped"} : outcome' = [outcome EXCEPT ![c] = o]
    BY DEF Request, RequestRefused
  <1>3. Replies' = Replies
    BY <1>1, <1>2 DEF Replies, IInv, TypeOK
  <1> QED BY <1>1, <1>2, <1>3 DEF CS!Begin, Replies

\* The server executes a request that is awaited or was given up: there is one
\* left to execute, and the call is not one that was refused.
LEMMA ExecuteRefines ==
    ASSUME IInv, NEW c \in Calls, Handle(c) \/ HandleStale(c)
    PROVE  CS!Execute(c) \/ UNCHANGED <<outcome, Replies, execs>>
  <1> USE ConstantsAssumption DEF ConstantsAssumption, IInv, TypeOK
  <1>1. outcome' = outcome /\ Replies' = Replies
    BY DEF Handle, HandleStale, callVars, Replies
  <1>2. execs' = execs \/ execs' = [execs EXCEPT ![c] = @ + 1]
    BY DEF Handle, HandleStale, Handled, serverVars
  <1>3. execs[c] <= attempt[c] /\ (attempt[c] > 0 => Method(c) \in RetryMethods)
    BY DEF Handle, HandleStale, AllAccounted, Accounted
  <1>4. execs[c] < (IF c \in Repeatable THEN 1 + MaxRetries ELSE 1)
    BY <1>3 DEF Repeatable
  <1>5. \/ outcome[c] \in {"pending", "unknown"}
        \/ c \in Repeatable /\ outcome[c] \in {"ok", "error"}
    <2>1. CASE Handle(c)
      BY <2>1 DEF Handle
    <2>2. CASE HandleStale(c)
      <3>1. Accounted(c) /\ stale[c] > 0 /\ stale[c] \in Nat /\ execs[c] \in Nat
        BY <2>2 DEF HandleStale, AllAccounted
      <3>2. outcome[c] \notin {"idle", "refused"}
        BY <3>1 DEF Accounted
      <3>3. outcome[c] # "unknown" => c \in Repeatable
        BY <3>1 DEF Accounted, Repeatable
      <3> QED BY <3>2, <3>3
    <2> QED BY <2>1, <2>2
  <1> QED BY <1>1, <1>2, <1>4, <1>5 DEF CS!Execute, Repeatable, Replies

\* A response settles a call that was executed, or is followed by a retry.
LEMMA ResolveRefines ==
    ASSUME IInv, NEW c \in Calls, Respond(c)
    PROVE  CS!Resolve(c) \/ UNCHANGED <<outcome, Replies, execs>>
  <1> USE DEF IInv, TypeOK
  <1>1. outcome[c] = "pending" /\ execs[c] > 0 /\ execs' = execs
    BY DEF Respond, AllAccounted, Accounted, serverVars
  <1>2. CASE outcome' = outcome
    BY <1>1, <1>2 DEF Replies
  <1>3. CASE outcome' = [outcome EXCEPT ![c] = Outcome(c)]
    <2>1. Outcome(c) \in {"ok", "error"}
      BY DEF Outcome
    <2>2. Replies' = [Replies EXCEPT ![c] = c]
      BY <1>3, <2>1 DEF Replies
    <2>3. \E o \in {"ok", "error"} : outcome' = [outcome EXCEPT ![c] = o]
      BY <1>3, <2>1
    <2> QED BY <1>1, <2>2, <2>3 DEF CS!Resolve, Replies
  <1> QED BY <1>2, <1>3 DEF Respond, Backoff, Settle

\* A failed fetch leaves its call unknown, or is followed by a retry.
LEMMA FailRefines ==
    ASSUME IInv, NEW c \in Calls, FetchFailed(c)
    PROVE  CS!Fail({c}, {}) \/ UNCHANGED <<outcome, Replies, execs>>
  <1> USE DEF IInv, TypeOK
  <1>1. outcome[c] = "pending" /\ execs' = execs
    BY DEF FetchFailed, serverVars
  <1>2. CASE outcome' = outcome
    BY <1>1, <1>2 DEF Replies
  <1>3. CASE outcome' = [outcome EXCEPT ![c] = "unknown"]
    <2>1. Replies' = Replies
      BY <1>1, <1>3 DEF Replies
    <2>2. outcome' = [d \in Calls |-> IF d \in {c} THEN "unknown"
                                      ELSE IF d \in {} THEN "refused" ELSE outcome[d]]
      BY <1>3
    <2> QED BY <1>1, <2>1, <2>2 DEF CS!Fail, Replies
  <1> QED BY <1>2, <1>3 DEF FetchFailed, Backoff, Settle

\* A settled call is made again.
LEMMA RenewRefines ==
    ASSUME IInv, NEW c \in Calls, Renew(c)
    PROVE  CS!Renew(c)
  <1> USE DEF IInv, TypeOK
  <1>1. outcome[c] \notin {"idle", "pending"}
    BY DEF Renew, AllAccounted, Accounted
  <1>2. Replies' = [Replies EXCEPT ![c] = None]
    BY DEF Renew, Replies
  <1> QED BY <1>1, <1>2 DEF Renew, CS!Renew, Replies

\* Every step of the client is a step of CallService, or none that it can see.
LEMMA StepRefines ==
    ASSUME IInv, [Next]_vars
    PROVE  [CS!Next \/ \E c \in Calls : CS!Renew(c)]_<<outcome, Replies, execs>>
  <1>1. ASSUME NEW c \in Calls, Request(c) \/ RequestRefused(c)
        PROVE  CS!Next
    BY <1>1, BeginRefines DEF CS!Next
  <1>2. ASSUME NEW c \in Calls, Handle(c) \/ HandleStale(c)
        PROVE  CS!Next \/ UNCHANGED <<outcome, Replies, execs>>
    BY <1>2, ExecuteRefines DEF CS!Next
  <1>3. ASSUME NEW c \in Calls, Respond(c)
        PROVE  CS!Next \/ UNCHANGED <<outcome, Replies, execs>>
    BY <1>3, ResolveRefines DEF CS!Next
  <1>4. ASSUME NEW c \in Calls, FetchFailed(c)
        PROVE  CS!Next \/ UNCHANGED <<outcome, Replies, execs>>
    <2>1. {c} \in SUBSET Calls /\ {} \in SUBSET Calls
      OBVIOUS
    <2> QED BY <1>4, <2>1, FailRefines DEF CS!Next
  <1>5. ASSUME NEW c \in Calls, Renew(c)
        PROVE  \E d \in Calls : CS!Renew(d)
    BY <1>5, RenewRefines
  <1>6. CASE \/ Cool \/ GoUp \/ GoDown \/ UNCHANGED vars
             \/ \E c \in Calls : Wake(c)
    BY <1>6 DEF Cool, GoUp, GoDown, Wake, vars, callVars, serverVars, Replies
  <1> QED BY <1>1, <1>2, <1>3, <1>4, <1>5, <1>6 DEF Next

\* The HTTP client implements CallService: whatever fails, is retried or comes
\* late, only GET and DELETE are ever repeated, at most maxRetries times; a call
\* that the breaker or strict mode refused is never executed; a result is the
\* answer to a request that was.
THEOREM HttpImplementsCallService == Spec => ImplementsCallService
  <1>1. IInv /\ [Next]_vars =>
          [CS!Next \/ \E c \in Calls : CS!Renew(c)]_<<outcome, Replies, execs>>
    BY StepRefines
  <1> QED
    BY <1>1, InitRefines, Invariance, PTL
    DEF Spec, ImplementsCallService, CS!RenewingSpec, CS!cvars, Replies

=============================================================================
