-------------------------- MODULE EmbedOutageProofs --------------------------
(***************************************************************************)
(* The outage of semantic search after the last call is bounded, for every *)
(* threshold, cooldown, timeout and number of searches under way.          *)
(***************************************************************************)
EXTENDS EmbedOutage, TLAPS

\* Every call under way went out no later than the last one did.
OInv ==
    /\ TypeOK
    /\ quiet \in Nat
    /\ \A s \in calling : quiet <= waited[s]
    /\ OutageIsBounded

USE BreakerAssumption DEF BreakerAssumption

LEMMA OInitInv == OInit => OInv
BY DEF OInit, Init, OInv, TypeOK, OutageIsBounded

LEMMA ONextInv == OInv /\ [ONext]_<<vars, quiet, recovered>> => OInv'
<1> SUFFICES ASSUME OInv, [ONext]_<<vars, quiet, recovered>>
             PROVE  OInv'
    OBVIOUS
<1> USE DEF OInv, TypeOK, OutageIsBounded
<1>1. CASE OTick
    <2>1. /\ Tick
          /\ quiet' = IF quiet < Limit THEN quiet + 1 ELSE quiet
          /\ Limit = Timeout + Cooldown + 1
        BY <1>1 DEF OTick, Limit
    <2>2. TypeOK' /\ quiet' \in Nat
        BY <2>1 DEF Tick
    <2>3. \A s \in calling' : quiet' <= waited'[s]
        BY <2>1 DEF Tick
    <2>4. OutageIsBounded'
        BY <2>1 DEF Tick
    <2> QED BY <2>2, <2>3, <2>4
<1>2. ASSUME NEW s \in Searches, OCall(s)
      PROVE  OInv'
    BY <1>2 DEF OCall, Call
<1>3. ASSUME NEW s \in Searches, OSucceed(s)
      PROVE  OInv'
    BY <1>3 DEF OSucceed, Succeed
<1>4. ASSUME NEW s \in Searches, OFail(s)
      PROVE  OInv'
    <2>1. Fail(s) /\ quiet' = quiet
        BY <1>4 DEF OFail
    <2>2. quiet <= waited[s] /\ waited[s] <= Timeout /\ waited' = waited
        BY <2>1 DEF Fail
    <2>3. TypeOK'
        BY <2>1 DEF Fail
    <2>4. cooling' > 0 => cooling' + quiet' <= Timeout + Cooldown
        BY <2>1, <2>2 DEF Fail
    <2>5. \A t \in calling' : quiet' <= waited'[t]
        BY <2>1 DEF Fail
    <2> QED BY <2>1, <2>3, <2>4, <2>5
<1>5. ASSUME NEW s \in Searches, OCancel(s)
      PROVE  OInv'
    BY <1>5 DEF OCancel, Cancel
<1>6. CASE UNCHANGED <<vars, quiet, recovered>>
    BY <1>6 DEF vars
<1> QED BY <1>1, <1>2, <1>3, <1>4, <1>5, <1>6 DEF ONext

\* TypeOK of the breaker under every interleaving of calls, outcomes and time:
\* in particular the count of failures never reaches the threshold, which
\* record_failure resets it at.
THEOREM BreakerTyped == OSpec => []TypeOK
<1>1. OInv => TypeOK
    BY DEF OInv
<1> QED BY OInitInv, ONextInv, <1>1, PTL DEF OSpec

\* OutageIsBounded: the late failures of calls that were out when the breaker
\* opened never keep it open longer than Timeout + Cooldown after the last call.
THEOREM OutageEnds == OSpec => []OutageIsBounded
<1>1. OInv => OutageIsBounded
    BY DEF OInv
<1> QED BY OInitInv, ONextInv, <1>1, PTL DEF OSpec
=============================================================================
