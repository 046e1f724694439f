-------------------------------- MODULE Quota --------------------------------
(***************************************************************************)
(* What a caller of ensure_rate is promised: its key has an allowance of   *)
(* Maximum[k] calls, which comes back Window[k] after the first of them.   *)
(* A call within the allowance is refused only while the allowance is      *)
(* untouched, to a key that the server has no room to watch.  Module       *)
(* RateLimiter implements this specification.                              *)
(***************************************************************************)
EXTENDS Naturals

CONSTANTS Keys, Maximum, Window

VARIABLES
    left,       \* how long the allowance of a key stays open, 0 when it is not
    spent,      \* the calls granted to a key since then
    answer      \* the key and the verdict of the last call

vars == <<left, spent, answer>>

Init ==
    /\ left = [k \in Keys |-> 0]
    /\ spent = [k \in Keys |-> 0]
    /\ answer \in [key : Keys, granted : BOOLEAN]

\* A unit of time passes.  An allowance that runs out is whole again.
Tick ==
    /\ left' = [k \in Keys |-> IF left[k] = 0 THEN 0 ELSE left[k] - 1]
    /\ spent' = [k \in Keys |-> IF left[k] <= 1 THEN 0 ELSE spent[k]]
    /\ UNCHANGED answer

Grant(k) ==
    /\ spent[k] < Maximum[k]
    /\ left' = [left EXCEPT ![k] = IF left[k] = 0 THEN Window[k] ELSE left[k]]
    /\ spent' = [spent EXCEPT ![k] = spent[k] + 1]
    /\ answer' = [key |-> k, granted |-> TRUE]

Refuse(k) ==
    /\ spent[k] \in {0, Maximum[k]}
    /\ answer' = [key |-> k, granted |-> FALSE]
    /\ UNCHANGED <<left, spent>>

Next == Tick \/ \E k \in Keys : Grant(k) \/ Refuse(k)

Spec == Init /\ [][Next]_vars
=============================================================================
