---------------------------- MODULE EmbedBreaker ----------------------------
(***************************************************************************)
(* The circuit breaker in front of the embedding service, and the searches *)
(* that call the service through it (embed_with_breaker).  A search asks   *)
(* the breaker, awaits the service without holding the breaker's mutex,    *)
(* and then records the outcome, so that the outcomes of many searches     *)
(* arrive in any order, some of them after the breaker has opened.  (The   *)
(* writes of memories and gaps call the service past the breaker and       *)
(* record nothing.)                                                        *)
(*                                                                         *)
(* Time is what is left of the cooldown and what each call has waited.  An *)
(* open_until that has passed and one that is None are alike to allow().   *)
(***************************************************************************)
EXTENDS Naturals

CONSTANTS
    Searches,       \* searches that can be under way together
    Threshold,      \* BREAKER_THRESHOLD
    Cooldown,       \* BREAKER_COOLDOWN_SECS
    Timeout         \* the timeout of the http client, which ends every call

ASSUME BreakerAssumption ==
    /\ Threshold \in Nat \ {0}
    /\ Cooldown \in Nat \ {0}
    /\ Timeout \in Nat \ {0}

VARIABLES
    consecutive_failures,
    cooling,        \* what is left until open_until
    calling,        \* the searches that await the service
    waited          \* how long each of them has

vars == <<consecutive_failures, cooling, calling, waited>>

Init ==
    /\ consecutive_failures = 0
    /\ cooling = 0
    /\ calling = {}
    /\ waited = [s \in Searches |-> 0]

\* A search that does not ask the breaker, as the writes do.
CallUnasked(s) ==
    /\ s \notin calling
    /\ calling' = calling \cup {s}
    /\ waited' = [waited EXCEPT ![s] = 0]
    /\ UNCHANGED <<consecutive_failures, cooling>>

\* allow() is true, and the call goes out.  (When it is false the search goes on
\* without vectors, and nothing here changes.)
Call(s) ==
    /\ s \notin calling
    /\ cooling = 0
    /\ calling' = calling \cup {s}
    /\ waited' = [waited EXCEPT ![s] = 0]
    /\ UNCHANGED <<consecutive_failures, cooling>>

\* A vector arrives: record_success.
Succeed(s) ==
    /\ s \in calling
    /\ calling' = calling \ {s}
    /\ consecutive_failures' = 0
    /\ cooling' = 0
    /\ UNCHANGED waited

\* A failure that is compared with the threshold before it is counted.
FailUncounted(s) ==
    /\ s \in calling
    /\ calling' = calling \ {s}
    /\ consecutive_failures' = IF consecutive_failures >= Threshold THEN 0 ELSE consecutive_failures + 1
    /\ cooling' = IF consecutive_failures >= Threshold THEN Cooldown ELSE cooling
    /\ UNCHANGED waited

\* A failure that adds a cooldown to open_until, where the code counts it from now.
FailExtending(s) ==
    /\ s \in calling
    /\ calling' = calling \ {s}
    /\ IF consecutive_failures + 1 >= Threshold
       THEN consecutive_failures' = 0 /\ cooling' = cooling + Cooldown
       ELSE consecutive_failures' = consecutive_failures + 1 /\ UNCHANGED cooling
    /\ UNCHANGED waited

\* An error, a bad answer or the timeout: record_failure.
Fail(s) ==
    /\ s \in calling
    /\ calling' = calling \ {s}
    /\ IF consecutive_failures + 1 >= Threshold
       THEN consecutive_failures' = 0 /\ cooling' = Cooldown
       ELSE consecutive_failures' = consecutive_failures + 1 /\ UNCHANGED cooling
    /\ UNCHANGED waited

\* The client of the search goes away: its future is dropped, nothing is recorded.
Cancel(s) ==
    /\ s \in calling
    /\ calling' = calling \ {s}
    /\ UNCHANGED <<consecutive_failures, cooling, waited>>

\* A unit of time passes; a call that has waited for Timeout ends first.
Tick ==
    /\ \A s \in calling : waited[s] < Timeout
    /\ cooling' = IF cooling = 0 THEN 0 ELSE cooling - 1
    /\ waited' = [s \in Searches |-> IF s \in calling THEN waited[s] + 1 ELSE 0]
    /\ UNCHANGED <<consecutive_failures, calling>>

End(s) == Succeed(s) \/ Fail(s)

Next == Tick \/ \E s \in Searches : Call(s) \/ End(s) \/ Cancel(s)

Spec == Init /\ [][Next]_vars

-----------------------------------------------------------------------------
\* The count of failures stays below the threshold, and no call outlives its timeout.
TypeOK ==
    /\ consecutive_failures \in 0 .. Threshold - 1
    /\ cooling \in 0 .. Cooldown
    /\ calling \subseteq Searches
    /\ waited \in [Searches -> 0 .. Timeout]
=============================================================================
