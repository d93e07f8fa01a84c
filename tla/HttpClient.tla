----------------------------- MODULE HttpClient ------------------------------
(***************************************************************************)
(* DittoHttpClient of the Node.js SDK: independent HTTP requests, retried  *)
(* with a backoff when their method allows it, behind a circuit breaker.   *)
(*                                                                         *)
(* JavaScript runs one callback at a time, so an action is what request()  *)
(* does between two awaits: up to the fetch, from the fetch's settlement   *)
(* to the backoff or the end, and from the backoff to the next fetch.  Any *)
(* number of calls are between two such points at once.                    *)
(*                                                                         *)
(* A definition marked "Variant" is a plausible slip in the definition     *)
(* after it; no action uses it.                                            *)
(***************************************************************************)
EXTENDS Naturals

CONSTANTS
    GetCalls,         \* calls of ping, get and stats
    DeleteCalls,      \* calls of delete
    PutCalls,         \* calls of set
    PostCalls,        \* calls of setNX, incr and the pattern operations
    InvalidCalls,     \* those whose input strict mode rejects
    None,
    RetryEnabled,     \* option retryEnabled
    RetryMethods,     \* option retryMethods
    MaxRetries,       \* option maxRetries
    BreakerEnabled,   \* option circuitBreakerEnabled
    Threshold,        \* option circuitFailureThreshold
    HalfOpenMax,      \* option circuitHalfOpenMaxRequests
    Renewal           \* may a settled call be made again?

Calls == GetCalls \cup DeleteCalls \cup PutCalls \cup PostCalls

Method(c) ==
    CASE c \in GetCalls -> "GET"
      [] c \in DeleteCalls -> "DELETE"
      [] c \in PutCalls -> "PUT"
      [] c \in PostCalls -> "POST"

\* Classes of response: 2xx; 404; 429, 503 and 504; the others, and bodies that
\* cannot be parsed.
Statuses == {"ok", "missing", "busy", "fault"}

ASSUME ConstantsAssumption ==
    /\ GetCalls \cap (DeleteCalls \cup PutCalls \cup PostCalls) = {}
    /\ DeleteCalls \cap (PutCalls \cup PostCalls) = {}
    /\ PutCalls \cap PostCalls = {}
    /\ InvalidCalls \subseteq Calls /\ None \notin Calls \cup Statuses
    /\ {RetryEnabled, BreakerEnabled, Renewal} \subseteq BOOLEAN
    /\ RetryMethods \subseteq {"GET", "DELETE", "PUT", "POST"}
    /\ MaxRetries \in Nat
    /\ Threshold \in Nat \ {0} /\ HalfOpenMax \in Nat \ {0}

VARIABLES
    circuit,   \* circuitState, circuitFailures, halfOpenSuccesses, and whether
               \* circuitOpenUntilMs is past
    streak,    \* ghost: failures recorded since the last recorded success
    phase,     \* where request() is, for each call
    attempt,   \* its loop counter
    status,    \* the response on its way to it
    outcome,   \* what the call has come to
    result,    \* what a delete has returned
    stale,     \* requests of a call that it gave up and the server may yet see
    execs,     \* how often the server handled a request of the call
    removed,   \* ghost: it was this call that removed the key
    present,   \* does the server hold the key?
    up         \* does the server answer in time and without overload?

callVars   == <<phase, attempt, status, outcome, result>>
serverVars == <<execs, removed, present>>
vars       == <<circuit, streak, callVars, stale, serverVars, up>>

\* circuitFailures only matters up to the threshold and is kept up to it.
Circuits == [state : {"closed", "open", "half-open"}, failures : 0..Threshold,
             successes : 0..(HalfOpenMax - 1), cooled : BOOLEAN]

TypeOK ==
    /\ circuit \in Circuits
    /\ streak \in 0..Threshold
    /\ phase \in [Calls -> {"idle", "sent", "answered", "backoff", "done"}]
    /\ attempt \in [Calls -> 0..MaxRetries]
    /\ status \in [Calls -> Statuses \cup {None}]
    /\ outcome \in [Calls -> {"idle", "pending", "ok", "error", "refused", "unknown"}]
    /\ result \in [Calls -> {"none", "existed", "notFound"}]
    /\ stale \in [Calls -> 0..(MaxRetries + 1)]
    /\ execs \in [Calls -> 0..(MaxRetries + 1)]
    /\ removed \in [Calls -> BOOLEAN]
    /\ present \in BOOLEAN /\ up \in BOOLEAN
    \* a response is under way exactly while request() awaits one
    /\ \A c \in Calls : /\ (status[c] # None) <=> (phase[c] = "answered")
                        /\ (outcome[c] = "pending")
                             <=> (phase[c] \in {"sent", "answered", "backoff"})

Init ==
    /\ circuit = [state |-> "closed", failures |-> 0, successes |-> 0, cooled |-> TRUE]
    /\ streak = 0
    /\ phase = [c \in Calls |-> "idle"] /\ attempt = [c \in Calls |-> 0]
    /\ status = [c \in Calls |-> None]
    /\ outcome = [c \in Calls |-> "idle"] /\ result = [c \in Calls |-> "none"]
    /\ stale = [c \in Calls |-> 0] /\ execs = [c \in Calls |-> 0]
    /\ removed = [c \in Calls |-> FALSE]
    /\ present \in BOOLEAN /\ up \in BOOLEAN

-----------------------------------------------------------------------------
(* The circuit breaker.                                                     *)

UpTo(n) == IF n < Threshold THEN n ELSE Threshold

\* Does beforeRequest() throw CircuitOpen?
FailsFast == BreakerEnabled /\ circuit.state = "open" /\ ~circuit.cooled

\* Variant: every probe starts the count of successes again.
RestartsCount ==
    IF BreakerEnabled /\ circuit.state # "closed"
    THEN [circuit EXCEPT !.state = "half-open", !.successes = 0]
    ELSE circuit

\* beforeRequest() of a request that is let through
AfterAdmission ==
    IF BreakerEnabled /\ circuit.state = "open"
    THEN [circuit EXCEPT !.state = "half-open", !.successes = 0]
    ELSE circuit

\* recordFailure()
AfterFailure ==
    LET failures == UpTo(circuit.failures + 1)
        opens    == circuit.state = "half-open" \/ failures >= Threshold
    IN  IF ~BreakerEnabled THEN circuit
        ELSE [state |-> IF opens THEN "open" ELSE circuit.state,
              failures |-> failures, successes |-> 0,
              cooled |-> circuit.cooled /\ ~opens]

\* Variant: a success while the circuit is closed does not clear the count.
KeepsFailures ==
    IF BreakerEnabled /\ circuit.state = "half-open" /\ circuit.successes + 1 < HalfOpenMax
    THEN [circuit EXCEPT !.successes = @ + 1]
    ELSE [circuit EXCEPT !.state = "closed", !.successes = 0,
                         !.failures = IF circuit.state = "closed" THEN @ ELSE 0]

\* recordSuccess(): in any state but half-open one success closes the circuit
AfterSuccess ==
    CASE ~BreakerEnabled -> circuit
      [] BreakerEnabled /\ circuit.state = "half-open" ->
           IF circuit.successes + 1 >= HalfOpenMax
           THEN [circuit EXCEPT !.state = "closed", !.failures = 0, !.successes = 0]
           ELSE [circuit EXCEPT !.successes = @ + 1]
      [] BreakerEnabled /\ circuit.state # "half-open" ->
           [circuit EXCEPT !.state = "closed", !.failures = 0]

RecordFailure == circuit' = AfterFailure /\ streak' = UpTo(streak + 1)
RecordSuccess == circuit' = AfterSuccess /\ streak' = 0

\* The open time elapses.
Cool ==
    /\ circuit.state = "open" /\ ~circuit.cooled
    /\ circuit' = [circuit EXCEPT !.cooled = TRUE]
    /\ UNCHANGED <<streak, callVars, stale, serverVars, up>>

-----------------------------------------------------------------------------
(* Calls.                                                                   *)

\* The operation is called: input is validated, the breaker asked, the request sent.
Request(c) ==
    /\ phase[c] = "idle" /\ c \notin InvalidCalls /\ ~FailsFast
    /\ circuit' = AfterAdmission
    /\ phase' = [phase EXCEPT ![c] = "sent"]
    /\ outcome' = [outcome EXCEPT ![c] = "pending"]
    /\ UNCHANGED <<streak, attempt, status, result, stale, serverVars, up>>

RequestRefused(c) ==
    /\ phase[c] = "idle" /\ (c \in InvalidCalls \/ FailsFast)
    /\ phase' = [phase EXCEPT ![c] = "done"]
    /\ outcome' = [outcome EXCEPT ![c] = "refused"]
    /\ UNCHANGED <<circuit, streak, attempt, status, result, stale, serverVars, up>>

\* Variants: the method is not looked at; one retry too many.
RetriesAnything(c) == RetryEnabled /\ attempt[c] < MaxRetries
RetriesOnceMore(c) == RetryEnabled /\ Method(c) \in RetryMethods /\ attempt[c] <= MaxRetries

\* canRetry && attempt < this.maxRetries
MayRetry(c) == RetryEnabled /\ Method(c) \in RetryMethods /\ attempt[c] < MaxRetries

\* What is tried again sleeps first; the breaker hears nothing of it.
Backoff(c) ==
    /\ phase' = [phase EXCEPT ![c] = "backoff"]
    /\ attempt' = [attempt EXCEPT ![c] = @ + 1]
    /\ UNCHANGED <<circuit, streak, outcome, result>>

Settle(c, o) ==
    /\ phase' = [phase EXCEPT ![c] = "done"]
    /\ outcome' = [outcome EXCEPT ![c] = o]
    /\ UNCHANGED attempt

\* What the operation makes of the response.
Outcome(c) ==
    IF status[c] = "ok" \/ (status[c] = "missing" /\ Method(c) \in {"GET", "DELETE"})
    THEN "ok" ELSE "error"

Returned(c) ==
    CASE Method(c) = "DELETE" /\ status[c] = "ok" -> "existed"
      [] Method(c) = "DELETE" /\ status[c] = "missing" -> "notFound"
      [] OTHER -> "none"

Respond(c) ==
    /\ phase[c] = "answered"
    /\ \/ /\ status[c] = "busy" /\ MayRetry(c)
          /\ Backoff(c)
       \/ /\ status[c] = "busy" /\ ~MayRetry(c)
          /\ RecordFailure /\ Settle(c, Outcome(c))
          /\ UNCHANGED result
       \/ /\ status[c] # "busy"
          /\ RecordSuccess /\ Settle(c, Outcome(c))
          /\ result' = [result EXCEPT ![c] = Returned(c)]
    /\ status' = [status EXCEPT ![c] = None]
    /\ UNCHANGED <<stale, serverVars, up>>

\* The fetch fails: no connection, a timeout before the server has seen the
\* request or after it, a response that is lost.
FetchFailed(c) ==
    /\ ~up /\ phase[c] \in {"sent", "answered"}
    /\ \/ MayRetry(c) /\ Backoff(c)
       \/ ~MayRetry(c) /\ RecordFailure /\ Settle(c, "unknown") /\ UNCHANGED result
    /\ status' = [status EXCEPT ![c] = None]
    /\ stale' \in {stale, [stale EXCEPT ![c] = IF phase[c] = "sent" THEN @ + 1 ELSE @]}
    /\ UNCHANGED <<serverVars, up>>

\* The backoff is over: the next fetch, without asking the breaker.
Wake(c) ==
    /\ phase[c] = "backoff"
    /\ phase' = [phase EXCEPT ![c] = "sent"]
    /\ UNCHANGED <<circuit, streak, attempt, status, outcome, result, stale, serverVars, up>>

\* The call is made again, once nothing of it is under way.
Renew(c) ==
    /\ Renewal /\ phase[c] = "done" /\ stale[c] = 0
    /\ phase' = [phase EXCEPT ![c] = "idle"] /\ attempt' = [attempt EXCEPT ![c] = 0]
    /\ outcome' = [outcome EXCEPT ![c] = "idle"] /\ result' = [result EXCEPT ![c] = "none"]
    /\ execs' = [execs EXCEPT ![c] = 0] /\ removed' = [removed EXCEPT ![c] = FALSE]
    /\ UNCHANGED <<circuit, streak, status, stale, present, up>>

-----------------------------------------------------------------------------
(* The server.                                                              *)

\* The server handles a request of call c; whether it has carried it out does
\* not show when it answers "busy" (429, 503, or 504: a write timed out) or
\* something the client cannot use.
Handled(c, s) ==
    /\ execs' = [execs EXCEPT ![c] = @ + 1]
    /\ \/ /\ s \in {"busy", "fault"}
          /\ UNCHANGED <<removed, present>>
       \/ /\ s = (IF Method(c) \in {"GET", "DELETE"} /\ ~present THEN "missing" ELSE "ok")
             \/ s \in {"busy", "fault"}
          /\ present' = CASE Method(c) = "GET" -> present
                          [] Method(c) = "DELETE" -> FALSE
                          [] OTHER -> TRUE
          /\ removed' = [removed EXCEPT ![c] = @ \/ (Method(c) = "DELETE" /\ present)]

Handle(c) ==
    /\ phase[c] = "sent"
    /\ \E s \in Statuses :
         /\ s = "busy" => ~up
         /\ Handled(c, s)
         /\ status' = [status EXCEPT ![c] = s]
    /\ phase' = [phase EXCEPT ![c] = "answered"]
    /\ UNCHANGED <<circuit, streak, attempt, outcome, result, stale, up>>

\* A request nobody waits for any more: it is handled, or lost.
HandleStale(c) ==
    /\ stale[c] > 0
    /\ \/ \E s \in Statuses : Handled(c, s)
       \/ UNCHANGED serverVars
    /\ stale' = [stale EXCEPT ![c] = @ - 1]
    /\ UNCHANGED <<circuit, streak, callVars, up>>

GoUp   == ~up /\ up' = TRUE /\ UNCHANGED <<circuit, streak, callVars, stale, serverVars>>
GoDown == up /\ up' = FALSE /\ UNCHANGED <<circuit, streak, callVars, stale, serverVars>>

-----------------------------------------------------------------------------
Next ==
    \/ \E c \in Calls :
         \/ Request(c) \/ RequestRefused(c) \/ Respond(c) \/ FetchFailed(c)
         \/ Wake(c) \/ Renew(c) \/ Handle(c) \/ HandleStale(c)
    \/ Cool \/ GoUp \/ GoDown

Spec == Init /\ [][Next]_vars

\* Timers fire, a server that is up answers, and the application goes on calling.
FairSpec ==
    /\ Spec
    /\ WF_vars(Cool)
    /\ \A c \in Calls :
         /\ WF_vars(Request(c)) /\ WF_vars(Renew(c))
         /\ WF_vars(Handle(c) \/ Respond(c) \/ FetchFailed(c)) /\ WF_vars(Wake(c))
         /\ WF_vars(HandleStale(c))

-----------------------------------------------------------------------------
(* Properties.                                                              *)

\* "Consecutive failures to open circuit": with any number of calls recording
\* out of order, a closed circuit counts exactly the failures since the last
\* success, and fewer than the threshold; any other circuit has the count full,
\* so that one more failure always means a full circuitOpenMs more of it.
FailuresCounted ==
    BreakerEnabled =>
        IF circuit.state = "closed"
        THEN circuit.failures = streak /\ streak < Threshold
        ELSE circuit.failures = Threshold

\* A call keeps the promise of CallService: only GET and DELETE are repeated
\* and at most MaxRetries times, what the breaker refuses is never executed,
\* and a failed fetch is reported as unknown.
CS == INSTANCE CallService WITH
        Idempotent <- {c \in Calls : Method(c) \in RetryMethods},
        reply <- [c \in Calls |-> IF outcome[c] \in {"ok", "error"} THEN c ELSE None]
ImplementsCallService == CS!RenewingSpec

\* Once the server is well for good, the circuit closes for good, whatever the
\* responses from before still do to it.
CircuitHeals == <>[]up => <>[](circuit.state = "closed")

\* A delete that removed the key does not return "not found"
\* (http-client.ts:108: "Returns true if the key existed, false if not found.").
DeleteReportsRemoval ==
    \A c \in DeleteCalls : result[c] = "notFound" => ~removed[c]

=============================================================================
