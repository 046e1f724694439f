----------------------------- MODULE RateHistory -----------------------------
(***************************************************************************)
(* The rate limiter with a history: the calls it granted, which allow()    *)
(* itself does not keep.  A window only counts its own calls; what a key   *)
(* gets in a span that lies across two of them shows in the history alone. *)
(***************************************************************************)
EXTENDS RateLimiter

VARIABLE granted    \* the calls granted so far: key, time and number

\* The calls granted to k in the last `span` units of time.
Within(k, span) == {g \in granted : g.key = k /\ now - g.at < span}

\* The call that this step grants; the number tells calls of one key and time apart.
GrantedCall ==
    [key |-> answer'.key, at |-> now,
     number |-> Cardinality({g \in granted : g.key = answer'.key /\ g.at = now})]

HInit == Init /\ granted = {}
\* Calls as old as the retention are dropped: no window is longer.
HNext ==
    /\ Next
    /\ granted' =
          IF UNCHANGED now /\ answer'.granted
          THEN {g \in granted : now - g.at < Retention} \cup {GrantedCall}
          ELSE granted
HSpec == HInit /\ [][HNext]_<<vars, granted>>

-----------------------------------------------------------------------------
\* However its calls fall across two windows, and whatever the map has evicted in
\* between, a key is granted at most twice its maximum in any span of one window.
TwiceInAnySpan == \A k \in Keys : Cardinality(Within(k, Window[k])) <= 2 * Maximum[k]
=============================================================================
