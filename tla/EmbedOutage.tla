----------------------------- MODULE EmbedOutage -----------------------------
(***************************************************************************)
(* The embedding breaker with two history variables that its promises need *)
(* and its code does not keep: how long ago the last call went out, and    *)
(* whether the service has answered since the breaker last opened.         *)
(***************************************************************************)
EXTENDS EmbedBreaker

VARIABLES quiet, recovered

Limit == Timeout + Cooldown + 1     \* bound of the model: quiet stops here

OInit == Init /\ quiet = 0 /\ recovered = TRUE

OTick == Tick /\ quiet' = (IF quiet < Limit THEN quiet + 1 ELSE quiet) /\ UNCHANGED recovered
OCall(s) == Call(s) /\ quiet' = 0 /\ UNCHANGED recovered
OSucceed(s) == Succeed(s) /\ recovered' = TRUE /\ UNCHANGED quiet
OFail(s) == Fail(s) /\ recovered' = (recovered /\ cooling' = cooling) /\ UNCHANGED quiet
OCancel(s) == Cancel(s) /\ UNCHANGED <<quiet, recovered>>

ONext == OTick \/ \E s \in Searches : OCall(s) \/ OSucceed(s) \/ OFail(s) \/ OCancel(s)

OSpec == OInit /\ [][ONext]_<<vars, quiet, recovered>>

\* Time passes, and the http client ends every call at its timeout at the latest.
OEnd(s) == OSucceed(s) \/ OFail(s)
OFairness ==
    /\ WF_<<vars, quiet, recovered>>(OTick)
    /\ \A s \in Searches : WF_<<vars, quiet, recovered>>(OEnd(s))
OFairSpec == OSpec /\ OFairness

\* The failures of calls that were out when the breaker opened restart its cooldown,
\* but only for as long as calls can be out: after the last call went out, searches
\* do without vectors for Timeout + Cooldown at most.
OutageIsBounded == cooling > 0 => cooling + quiet <= Timeout + Cooldown

\* An outage of the service never shuts it off for good: the breaker lets searches
\* through again and again, however many late failures restart its cooldown.
LetsThroughAgain == []<>(cooling = 0)

\* "Half-open retry": after the cooldown the breaker is closed by a success only, and
\* a retry that fails opens it again.
HalfOpenRetries ==
    [][\A s \in Searches :
          OFail(s) /\ ~recovered /\ cooling = 0 => cooling' > 0]_<<vars, quiet, recovered>>
=============================================================================
