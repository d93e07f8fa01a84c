----------------------------- MODULE CallService -----------------------------
(***************************************************************************)
(* What a client of any of the SDKs promises its callers about calls:      *)
(*   - a call settles at most once, and a result it gets is its own;       *)
(*   - a call that gets a result has been executed by the server;          *)
(*   - a call is executed at most once, or, if repeating it does no harm   *)
(*     (get, ping), at most MaxRetries times more;                         *)
(*   - a call that is refused is not executed, then or later, whereas one  *)
(*     whose outcome is unknown may be executed even after it has failed.  *)
(* The clients in between - connections, queues, timers - are not visible. *)
(***************************************************************************)
EXTENDS Naturals

CONSTANTS
    Calls,         \* API calls
    Idempotent,    \* the calls that may be repeated
    MaxRetries,    \* how often such a call may be repeated
    None

VARIABLES outcome, reply, execs

cvars == <<outcome, reply, execs>>

Init ==
    /\ outcome = [c \in Calls |-> "idle"]
    /\ reply = [c \in Calls |-> None]
    /\ execs = [c \in Calls |-> 0]

\* A call is made: it is pending, or refused at once, or there is nothing to do.
Begin(c) ==
    /\ outcome[c] = "idle"
    /\ \E o \in {"pending", "refused", "skipped"} : outcome' = [outcome EXCEPT ![c] = o]
    /\ UNCHANGED <<reply, execs>>

\* The server executes a call whose frame may have reached it; the frame of a
\* first attempt may be executed even after a second one has succeeded.
Execute(c) ==
    /\ \/ outcome[c] \in {"pending", "unknown"}
       \/ c \in Idempotent /\ outcome[c] \in {"ok", "error"}
    /\ execs[c] < (IF c \in Idempotent THEN 1 + MaxRetries ELSE 1)
    /\ execs' = [execs EXCEPT ![c] = @ + 1]
    /\ UNCHANGED <<outcome, reply>>

\* A call gets the reply to its own request, a result or an error.
Resolve(c) ==
    /\ outcome[c] = "pending" /\ execs[c] > 0
    /\ \E o \in {"ok", "error"} : outcome' = [outcome EXCEPT ![c] = o]
    /\ reply' = [reply EXCEPT ![c] = c]
    /\ UNCHANGED execs

\* Pending calls fail together, as when a connection is lost: the calls in U
\* with their outcome unknown, the calls in R, not executed, for good.
Fail(U, R) ==
    /\ U \cap R = {}
    /\ \A c \in U \cup R : outcome[c] = "pending"
    /\ \A c \in R : execs[c] = 0
    /\ outcome' = [c \in Calls |-> IF c \in U THEN "unknown"
                                   ELSE IF c \in R THEN "refused" ELSE outcome[c]]
    /\ UNCHANGED <<reply, execs>>

Next ==
    \/ \E c \in Calls : Begin(c) \/ Execute(c) \/ Resolve(c)
    \/ \E U, R \in SUBSET Calls : Fail(U, R)

Spec == Init /\ [][Next]_cvars

\* The same promise for an endless supply of calls: a settled call's name is
\* given to a new call.
Renew(c) ==
    /\ outcome[c] \notin {"idle", "pending"}
    /\ outcome' = [outcome EXCEPT ![c] = "idle"]
    /\ reply' = [reply EXCEPT ![c] = None]
    /\ execs' = [execs EXCEPT ![c] = 0]

RenewingSpec == Init /\ [][Next \/ \E c \in Calls : Renew(c)]_cvars

=============================================================================
