-------------------------- MODULE RateLimiterProofs --------------------------
(***************************************************************************)
(* The rate limiter keeps its promise for all keys, maxima, windows and    *)
(* limits of the map, as long as no window is longer than the retention;   *)
(* and grants at most two maxima in any span of one window.                *)
(***************************************************************************)
EXTENDS RateHistory, FiniteSetTheorems, TLAPS

\* An allowance that is open survives the eviction.
LEMMA OpenIsRetained ==
    ASSUME TypeOK, NEW k, Open(k)
    PROVE  k \in Retain
<1>1. k \in Keys /\ k \in DOMAIN entries /\ Elapsed(entries[k]) < Window[k]
  BY DEF TypeOK, Open
<1>2. Window[k] <= Retention /\ Window[k] \in Int /\ Retention \in Int /\ Elapsed(entries[k]) \in Int
  BY <1>1, QuotaAssumption, LimitsAssumption DEF TypeOK, Windows, Elapsed
<1> QED
  BY <1>1, <1>2 DEF Retain

LEMMA RetainedWereThere == Retain \subseteq DOMAIN entries
BY DEF Retain

-----------------------------------------------------------------------------
(* The type invariant.                                                     *)

LEMMA InitType == Init => TypeOK
BY LimitsAssumption DEF Init, TypeOK, NoWindows, Answers

LEMMA CountedType ==
    ASSUME TypeOK, NEW k \in Keys
    PROVE  /\ Counted(Retain, k) \in Windows
           /\ Counted(Retain, k).opened_at <= now
           /\ Counted(Retain, k).count >= 1
<1>0. now \in 0 .. Horizon /\ Horizon \in Nat
  BY LimitsAssumption DEF TypeOK
<1>1. CASE k \in Retain /\ Elapsed(entries[k]) < Window[k]
  <2>1. Counted(Retain, k) = [entries[k] EXCEPT !.count = @ + 1]
    BY <1>1 DEF Counted
  <2>2. entries[k] \in Windows /\ entries[k].opened_at <= now /\ entries[k].count >= 1
    BY <1>1, RetainedWereThere DEF TypeOK
  <2> QED
    BY <2>1, <2>2 DEF Windows
<1>2. CASE ~(k \in Retain /\ Elapsed(entries[k]) < Window[k])
  <2>1. Counted(Retain, k) = [opened_at |-> now, count |-> 1]
    BY <1>2 DEF Counted
  <2> QED
    BY <1>0, <2>1 DEF Windows
<1> QED
  BY <1>1, <1>2

LEMMA TypeStep == TypeOK /\ [Next]_vars => TypeOK'
<1> SUFFICES ASSUME TypeOK, [Next]_vars PROVE TypeOK'
  OBVIOUS
<1>1. ASSUME NEW k \in Keys, Allow(k) PROVE TypeOK'
  <2> DEFINE w == Counted(Retain, k)
  <2>1. w \in Windows /\ w.opened_at <= now /\ w.count >= 1
    BY CountedType
  <2>2. answer' \in Answers
    BY <1>1 DEF Allow, Answers
  <2>3. /\ DOMAIN entries' = Retain \cup {k}
        /\ \A j \in Retain \cup {k} : entries'[j] = IF j = k THEN w ELSE entries[j]
        /\ now' = now
    BY <1>1 DEF Allow
  <2> HIDE DEF w
  <2> QED
    BY <2>1, <2>2, <2>3, RetainedWereThere DEF TypeOK
<1>2. ASSUME NEW k \in Keys, RefuseNew(k) PROVE TypeOK'
  <2>1. answer' \in Answers
    BY <1>2 DEF RefuseNew, Answers
  <2>2. DOMAIN entries' = Retain /\ (\A j \in Retain : entries'[j] = entries[j]) /\ now' = now
    BY <1>2 DEF RefuseNew
  <2> QED
    BY <2>1, <2>2, RetainedWereThere DEF TypeOK
<1>3. CASE Tick
  <2>1. now' \in 0 .. Horizon /\ now' = now + 1 /\ now \in Nat
    BY <1>3, LimitsAssumption DEF Tick, TypeOK
  <2>2. entries' = entries /\ answer' = answer
    BY <1>3 DEF Tick
  <2>3. \A k \in DOMAIN entries : entries[k].opened_at \in Int
    BY DEF TypeOK, Windows
  <2> QED
    BY <2>1, <2>2, <2>3 DEF TypeOK
<1>4. CASE UNCHANGED vars
  BY <1>4 DEF vars, TypeOK
<1> QED
  BY <1>1, <1>2, <1>3, <1>4 DEF Next

\* The map of allow() holds well-formed windows of the past, whatever the keys.
THEOREM TypeCorrect == Spec => []TypeOK
BY InitType, TypeStep, PTL DEF Spec

-----------------------------------------------------------------------------
(* The map is bounded.                                                     *)

BoundInv == IsFiniteSet(DOMAIN entries) /\ BoundedMap

LEMMA BoundStep ==
    ASSUME BoundInv, [Next]_vars
    PROVE  BoundInv'
<1>0. /\ IsFiniteSet(DOMAIN entries) /\ Cardinality(DOMAIN entries) <= Capacity
      /\ Capacity \in Nat /\ Cardinality(DOMAIN entries) \in Nat
  BY LimitsAssumption, FS_CardinalityType DEF BoundInv, BoundedMap
<1>1. /\ IsFiniteSet(Retain)
      /\ Cardinality(Retain) <= Capacity
      /\ Cardinality(Retain) \in Nat
  BY <1>0, RetainedWereThere, FS_Subset, FS_CardinalityType
<1>2. ASSUME NEW k \in Keys, Allow(k) PROVE BoundInv'
  <2>1. DOMAIN entries' = Retain \cup {k} /\ ~Full(Retain, k)
    BY <1>2 DEF Allow
  <2>2. CASE k \in Retain
    <3>1. DOMAIN entries' = Retain
      BY <2>1, <2>2
    <3> QED
      BY <1>1, <3>1 DEF BoundInv, BoundedMap
  <2>3. CASE k \notin Retain
    <3>1. Cardinality(Retain) < Capacity
      BY <1>0, <1>1, <2>1, <2>3 DEF Full
    <3>2. IsFiniteSet(Retain \cup {k}) /\ Cardinality(Retain \cup {k}) = Cardinality(Retain) + 1
      BY <1>1, <2>3, FS_AddElement
    <3> QED
      BY <1>0, <1>1, <2>1, <3>1, <3>2 DEF BoundInv, BoundedMap
  <2> QED
    BY <2>2, <2>3
<1>3. ASSUME NEW k \in Keys, RefuseNew(k) PROVE BoundInv'
  BY <1>1, <1>3 DEF RefuseNew, BoundInv, BoundedMap
<1>4. CASE Tick \/ UNCHANGED vars
  BY <1>0, <1>4 DEF Tick, vars, BoundInv, BoundedMap
<1> QED
  BY <1>2, <1>3, <1>4 DEF Next

\* The map of the limiter never outgrows its capacity of 8192 windows.
THEOREM MapIsBounded == Spec => []BoundedMap
<1>1. Init => BoundInv
  BY LimitsAssumption, FS_EmptySet DEF Init, NoWindows, BoundInv, BoundedMap
<1>2. BoundInv /\ [Next]_vars => BoundInv'
  BY BoundStep
<1>3. BoundInv => BoundedMap
  BY DEF BoundInv
<1> QED
  BY <1>1, <1>2, <1>3, PTL DEF Spec

-----------------------------------------------------------------------------
(* The promise to callers.                                                 *)

LEMMA InitQuota == Init => Promise!Init
BY DEF Init, NoWindows, Promise!Init, Left, Spent, Open, Answers

\* What a step leaves of the windows of other keys, it leaves of their allowances.
LEMMA OthersKeepAllowance ==
    ASSUME TypeOK, now' = now, NEW j \in Keys,
           j \in DOMAIN entries' => j \in Retain /\ entries'[j] = entries[j],
           j \in Retain => j \in DOMAIN entries'
    PROVE  Left(j)' = Left(j) /\ Spent(j)' = Spent(j)
<1>1. CASE Open(j)
  <2>1. j \in Retain
    BY <1>1, OpenIsRetained
  <2>2. j \in DOMAIN entries' /\ entries'[j] = entries[j]
    BY <2>1
  <2> QED
    BY <1>1, <2>2 DEF Open, Left, Spent, Elapsed
<1>2. CASE ~Open(j)
  <2>1. ~Open(j)'
    BY <1>2, RetainedWereThere DEF Open, Elapsed
  <2> QED
    BY <1>2, <2>1 DEF Left, Spent
<1> QED
  BY <1>1, <1>2

LEMMA AllowQuota ==
    ASSUME TypeOK, NEW k \in Keys, Allow(k)
    PROVE  Promise!Grant(k) \/ Promise!Refuse(k)
<1> DEFINE w == Counted(Retain, k)
<1>0. /\ DOMAIN entries' = Retain \cup {k}
      /\ entries'[k] = w
      /\ \A j \in Retain \ {k} : entries'[j] = entries[j]
      /\ now' = now
      /\ answer' = [key |-> k, granted |-> w.count <= Maximum[k]]
  BY DEF Allow
<1>1. \A j \in Keys \ {k} : Left(j)' = Left(j) /\ Spent(j)' = Spent(j)
  BY <1>0, OthersKeepAllowance
<1>2. /\ Maximum[k] \in Nat \ {0} /\ Window[k] \in Nat \ {0} /\ now \in Nat
      /\ w \in Windows /\ w.opened_at \in Nat /\ w.count \in Nat
  BY QuotaAssumption, LimitsAssumption, CountedType DEF TypeOK, Windows
<1>3. CASE Open(k)
  <2>1. k \in Retain /\ k \in DOMAIN entries /\ entries[k] \in Windows
    BY <1>3, OpenIsRetained, RetainedWereThere DEF TypeOK
  <2>2. w = [entries[k] EXCEPT !.count = @ + 1]
    BY <1>3, <2>1 DEF Counted, Open
  <2>3. w.opened_at = entries[k].opened_at /\ w.count = entries[k].count + 1
        /\ entries[k].count \in Nat /\ entries[k].count >= 1
    BY <2>1, <2>2 DEF Windows, TypeOK
  <2> HIDE DEF w
  <2>4. Open(k)' /\ Left(k)' = Left(k) /\ Left(k) # 0
    BY <1>0, <1>2, <1>3, <2>3 DEF Open, Elapsed, Left
  <2>5. CASE w.count <= Maximum[k]
    <3>1. Spent(k) = entries[k].count /\ Spent(k)' = entries[k].count + 1
      BY <1>0, <1>2, <1>3, <2>3, <2>4, <2>5 DEF Spent
    <3>2. (w.count <= Maximum[k]) = TRUE
      BY <2>5
    <3>3. answer' = [key |-> k, granted |-> TRUE]
      BY <1>0, <3>2, Zenon
    <3>4. [j \in Keys |-> Left(j)]' = [[j \in Keys |-> Left(j)] EXCEPT
              ![k] = IF [j \in Keys |-> Left(j)][k] = 0 THEN Window[k]
                     ELSE [j \in Keys |-> Left(j)][k]]
      BY <1>1, <2>4
    <3>5. [j \in Keys |-> Spent(j)]' = [[j \in Keys |-> Spent(j)] EXCEPT
              ![k] = [j \in Keys |-> Spent(j)][k] + 1]
      BY <1>1, <3>1
    <3>6. [j \in Keys |-> Spent(j)][k] < Maximum[k]
      BY <1>2, <2>3, <2>5, <3>1
    <3>7. Promise!Grant(k)
      BY <3>3, <3>4, <3>5, <3>6 DEF Promise!Grant
    <3> QED
      BY <3>7
  <2>6. CASE ~(w.count <= Maximum[k])
    <3>1. Spent(k) = Maximum[k] /\ Spent(k)' = Maximum[k]
      BY <1>0, <1>2, <1>3, <2>3, <2>4, <2>6 DEF Spent
    <3>2. (w.count <= Maximum[k]) = FALSE
      BY <2>6
    <3>3. answer' = [key |-> k, granted |-> FALSE]
      BY <1>0, <3>2, Zenon
    <3>4. Promise!Refuse(k)
      BY <1>1, <2>4, <3>1, <3>3 DEF Promise!Refuse
    <3> QED
      BY <3>4
  <2> QED
    BY <2>5, <2>6
<1>4. CASE ~Open(k)
  <2>1. w = [opened_at |-> now, count |-> 1]
    BY <1>4, RetainedWereThere DEF Counted, Open
  <2>2. w.opened_at = now /\ w.count = 1
    BY <2>1
  <2> HIDE DEF w
  <2>3. Left(k) = 0 /\ Spent(k) = 0
    BY <1>4 DEF Left, Spent
  <2>4. Open(k)' /\ Left(k)' = Window[k] /\ Spent(k)' = 1
    BY <1>0, <1>2, <2>2 DEF Open, Left, Spent, Elapsed
  <2>5. answer' = [key |-> k, granted |-> TRUE]
    <3>1. (w.count <= Maximum[k]) = TRUE
      BY <1>2, <2>2
    <3> QED
      BY <1>0, <3>1, Zenon
  <2>6. [j \in Keys |-> Left(j)]' = [[j \in Keys |-> Left(j)] EXCEPT
            ![k] = IF [j \in Keys |-> Left(j)][k] = 0 THEN Window[k]
                   ELSE [j \in Keys |-> Left(j)][k]]
    BY <1>1, <2>3, <2>4
  <2>7. [j \in Keys |-> Spent(j)]' = [[j \in Keys |-> Spent(j)] EXCEPT
            ![k] = [j \in Keys |-> Spent(j)][k] + 1]
    <3>1. Spent(k)' = Spent(k) + 1
      BY <2>3, <2>4
    <3> QED
      BY <1>1, <3>1
  <2>8. [j \in Keys |-> Spent(j)][k] < Maximum[k]
    BY <1>2, <2>3
  <2>9. Promise!Grant(k)
    BY <2>5, <2>6, <2>7, <2>8 DEF Promise!Grant
  <2> QED
    BY <2>9
<1> QED
  BY <1>3, <1>4

LEMMA RefuseNewQuota ==
    ASSUME TypeOK, NEW k \in Keys, RefuseNew(k)
    PROVE  Promise!Refuse(k)
<1>0. /\ DOMAIN entries' = Retain /\ k \notin Retain
      /\ \A j \in Retain : entries'[j] = entries[j]
      /\ now' = now
      /\ answer' = [key |-> k, granted |-> FALSE]
  BY DEF RefuseNew, Full
<1>1. \A j \in Keys : Left(j)' = Left(j) /\ Spent(j)' = Spent(j)
  BY <1>0, OthersKeepAllowance
<1>2. Spent(k) = 0
  BY <1>0, OpenIsRetained DEF Spent
<1> QED
  BY <1>0, <1>1, <1>2 DEF Promise!Refuse

LEMMA TickQuota ==
    ASSUME TypeOK, Tick
    PROVE  Promise!Tick
<1>0. now' = now + 1 /\ now \in Nat /\ entries' = entries /\ answer' = answer
  BY LimitsAssumption DEF Tick, TypeOK
<1>1. ASSUME NEW k \in Keys
      PROVE  /\ Left(k)' = IF Left(k) = 0 THEN 0 ELSE Left(k) - 1
             /\ Spent(k)' = IF Left(k) <= 1 THEN 0 ELSE Spent(k)
  <2>0. Window[k] \in Nat \ {0}
    BY QuotaAssumption, LimitsAssumption
  <2>1. CASE k \in DOMAIN entries
    <3>1. entries[k].opened_at \in Nat /\ entries[k].opened_at <= now
      BY <2>1, LimitsAssumption DEF TypeOK, Windows
    <3> QED
      BY <1>0, <2>0, <2>1, <3>1 DEF Left, Spent, Open, Elapsed
  <2>2. CASE k \notin DOMAIN entries
    BY <1>0, <2>2 DEF Left, Spent, Open
  <2> QED
    BY <2>1, <2>2
<1> QED
  BY <1>0, <1>1 DEF Promise!Tick

LEMMA StepQuota == TypeOK /\ [Next]_vars => [Promise!Next]_(Promise!vars)
<1> SUFFICES ASSUME TypeOK, [Next]_vars PROVE [Promise!Next]_(Promise!vars)
  OBVIOUS
<1>1. ASSUME NEW k \in Keys, Allow(k) PROVE Promise!Next
  BY <1>1, AllowQuota DEF Promise!Next
<1>2. ASSUME NEW k \in Keys, RefuseNew(k) PROVE Promise!Next
  BY <1>2, RefuseNewQuota DEF Promise!Next
<1>3. CASE Tick
  BY <1>3, TickQuota DEF Promise!Next
<1>4. CASE UNCHANGED vars
  BY <1>4 DEF vars, Promise!vars, Left, Spent, Open, Elapsed
<1> QED
  BY <1>1, <1>2, <1>3, <1>4 DEF Next

\* allow() implements the fixed-window quota of module Quota: neither the eviction of
\* old windows nor the refusal of new keys grants a call beyond the maximum of a
\* window, or refuses one to a key whose allowance is open and not used up.
THEOREM QuotaKept == Spec => KeepsQuota
BY InitQuota, StepQuota, TypeCorrect, PTL DEF Spec, KeepsQuota, Promise!Spec
-----------------------------------------------------------------------------
(* What a key gets across its windows.                                     *)

\* The calls granted to k from a time on, and those before it in the span of a window.
Since(k, time) == {g \in granted : g.key = k /\ g.at >= time}
Earlier(k, time) == {g \in granted : g.key = k /\ time - Window[k] < g.at /\ g.at < time}

\* Granted calls are past ones, and each of the present has a number of its own.
CallsInv ==
    /\ IsFiniteSet(granted)
    /\ \A g \in granted :
          /\ g.at \in Nat /\ g.at <= now /\ g.number \in Nat
          /\ g.at = now =>
                g.number < Cardinality({h \in granted : h.key = g.key /\ h.at = now})

\* An open window has counted the calls granted since it opened, and they follow on no
\* more than one maximum; without one, a whole maximum is all that a window still sees.
SpanInv(k) ==
    IF Open(k)
    THEN /\ Cardinality(Since(k, entries[k].opened_at)) <= Spent(k)
         /\ Cardinality(Earlier(k, entries[k].opened_at)) <= Maximum[k]
    ELSE /\ Cardinality(Within(k, Window[k])) <= Maximum[k]
         /\ \A g \in granted : g.key = k => g.at < now

HistoryInv == CallsInv /\ \A k \in Keys : SpanInv(k)

LEMMA FewerCalls ==
    ASSUME IsFiniteSet(granted), NEW S \in SUBSET granted, NEW T \in SUBSET S
    PROVE  /\ IsFiniteSet(S) /\ Cardinality(S) \in Nat
           /\ IsFiniteSet(T) /\ Cardinality(T) \in Nat /\ Cardinality(T) <= Cardinality(S)
BY FS_Subset, FS_CardinalityType

\* At most one call more.
LEMMA OneCallMore ==
    ASSUME NEW S, IsFiniteSet(S), NEW c, NEW T, T \subseteq S \cup {c}
    PROVE  /\ IsFiniteSet(T) /\ Cardinality(T) \in Nat /\ Cardinality(S) \in Nat
           /\ Cardinality(T) <= Cardinality(S) + 1
<1>1. /\ IsFiniteSet(S \cup {c})
      /\ Cardinality(S \cup {c}) = Cardinality(S) \/ Cardinality(S \cup {c}) = Cardinality(S) + 1
  BY FS_AddElement
<1>2. /\ IsFiniteSet(T) /\ Cardinality(T) <= Cardinality(S \cup {c})
  BY <1>1, FS_Subset
<1> QED
  BY <1>1, <1>2, FS_CardinalityType

LEMMA SpentBounds ==
    ASSUME TypeOK, NEW k \in Keys
    PROVE  /\ Maximum[k] \in Nat /\ Spent(k) \in Nat /\ Spent(k) <= Maximum[k]
           /\ Open(k) => entries[k].opened_at \in Nat /\ entries[k].opened_at <= now
           /\ now \in Nat /\ Window[k] \in Nat \ {0} /\ Retention \in Nat
           /\ Window[k] <= Retention
<1>1. /\ Maximum[k] \in Nat /\ Window[k] \in Nat \ {0} /\ Window[k] <= Retention
      /\ Retention \in Nat /\ now \in Nat
  BY QuotaAssumption, LimitsAssumption DEF TypeOK
<1>2. k \in DOMAIN entries =>
          /\ entries[k].opened_at \in Nat /\ entries[k].opened_at <= now
          /\ entries[k].count \in Nat
  BY LimitsAssumption DEF TypeOK, Windows
<1> QED
  BY <1>1, <1>2 DEF Open, Spent

LEMMA InitHistory == HInit => HistoryInv
<1> SUFFICES ASSUME HInit PROVE HistoryInv
  OBVIOUS
<1>1. granted = {} /\ DOMAIN entries = {}
  BY DEF HInit, Init, NoWindows
<1>2. \A k : Within(k, Window[k]) = {} /\ ~Open(k)
  BY <1>1 DEF Within, Open
<1>3. \A k \in Keys : Maximum[k] >= 0
  BY QuotaAssumption
<1> QED
  BY <1>1, <1>2, <1>3, FS_EmptySet DEF HistoryInv, CallsInv, SpanInv

\* A granted call is told apart from all that the history has.
LEMMA CallsStep ==
    ASSUME TypeOK, CallsInv, [HNext]_<<vars, granted>>
    PROVE  /\ CallsInv'
           /\ HNext /\ UNCHANGED now /\ answer'.granted => GrantedCall \notin granted
<1> DEFINE old == {g \in granted : now - g.at < Retention}
           n == Cardinality({g \in granted : g.key = answer'.key /\ g.at = now})
<1>0. /\ now \in Nat /\ Retention \in Nat \ {0} /\ IsFiniteSet(granted)
      /\ GrantedCall.key = answer'.key /\ GrantedCall.at = now /\ GrantedCall.number = n
  BY LimitsAssumption DEF TypeOK, CallsInv, GrantedCall
<1>1. CASE HNext /\ UNCHANGED now /\ answer'.granted
  <2>1. granted' = old \cup {GrantedCall} /\ now' = now
    BY <1>1 DEF HNext
  <2>2. GrantedCall \notin granted
    <3>1. IsFiniteSet({g \in granted : g.key = answer'.key /\ g.at = now})
      BY <1>0, FS_Subset
    <3>2. n \in Nat
      BY <3>1, FS_CardinalityType
    <3> HIDE DEF n
    <3>3. SUFFICES ASSUME GrantedCall \in granted PROVE FALSE
      OBVIOUS
    <3>4. n < Cardinality({h \in granted : h.key = answer'.key /\ h.at = now})
      BY <1>0, <3>3 DEF CallsInv
    <3> QED
      BY <3>2, <3>4 DEF n
  <2>3. IsFiniteSet(granted')
    BY <1>0, <2>1, OneCallMore, FewerCalls
  <2>4. ASSUME NEW g \in granted'
        PROVE  /\ g.at \in Nat /\ g.at <= now' /\ g.number \in Nat
               /\ g.at = now' =>
                     g.number < Cardinality({h \in granted' : h.key = g.key /\ h.at = now'})
    <3> DEFINE before == {h \in granted : h.key = g.key /\ h.at = now}
               after == {h \in granted' : h.key = g.key /\ h.at = now'}
    <3>1. before \subseteq after /\ IsFiniteSet(before) /\ IsFiniteSet(after)
      <4>1. \A h \in before : h \in old
        BY <1>0
      <4> QED
        BY <1>0, <2>1, <2>3, <4>1, FS_Subset
    <3>2. /\ Cardinality(before) \in Nat /\ Cardinality(after) \in Nat
          /\ Cardinality(before) <= Cardinality(after)
      BY <3>1, FS_CardinalityType, FS_Subset
    <3>3. CASE g = GrantedCall
      <4>1. GrantedCall \in after /\ GrantedCall \notin before
        BY <1>0, <2>1, <2>2, <3>3
      <4>2. Cardinality(before) # Cardinality(after)
        BY <3>1, <4>1, FS_Subset
      <4>3. g.number = Cardinality(before) /\ g.at = now
        BY <1>0, <3>3
      <4> HIDE DEF before, after
      <4>4. g.number \in Nat /\ g.number < Cardinality(after)
        BY <3>2, <4>2, <4>3
      <4> QED
        BY <1>0, <2>1, <4>3, <4>4 DEF after
    <3>4. CASE g # GrantedCall
      <4>1. g \in granted
        BY <2>1, <3>4
      <4>2. /\ g.at \in Nat /\ g.at <= now /\ g.number \in Nat
            /\ g.at = now => g.number < Cardinality(before)
        BY <4>1 DEF CallsInv
      <4> HIDE DEF before, after
      <4>3. g.at = now => g.number < Cardinality(after)
        BY <3>2, <4>2
      <4> QED
        BY <2>1, <4>2, <4>3 DEF after
    <3> QED
      BY <3>3, <3>4
  <2>5. CallsInv'
    BY <2>3, <2>4 DEF CallsInv
  <2> QED
    BY <2>2, <2>5
<1>2. CASE ~(HNext /\ UNCHANGED now /\ answer'.granted)
  <2>1. granted' = granted
    BY <1>2 DEF HNext
  <2>2. now' = now \/ now' = now + 1
    BY DEF HNext, Next, Tick, Allow, RefuseNew, vars
  <2>3. CASE now' = now
    BY <2>1, <2>3, <1>2 DEF CallsInv
  <2>4. CASE now' = now + 1
    <3>1. \A g \in granted : g.at \in Nat /\ g.at <= now /\ g.number \in Nat
      BY DEF CallsInv
    <3>2. \A at \in Nat : at <= now => at <= now' /\ at # now'
      BY <1>0, <2>4
    <3>3. \A g \in granted : g.at <= now' /\ g.at # now'
      BY <3>1, <3>2
    <3> QED
      BY <1>0, <2>1, <3>1, <3>3, <1>2 DEF CallsInv
  <2> QED
    BY <2>2, <2>3, <2>4
<1> QED
  BY <1>1, <1>2
\* The clock moves: calls leave the span of a window, and a window that closes leaves
\* no more than its own calls in it.
LEMMA TickSpan ==
    ASSUME TypeOK, CallsInv, NEW k \in Keys, SpanInv(k), Tick, granted' = granted
    PROVE  SpanInv(k)'
<1>0. /\ now \in Nat /\ now' = now + 1 /\ entries' = entries
      /\ Window[k] \in Nat \ {0} /\ Maximum[k] \in Nat
      /\ Spent(k) \in Nat /\ Spent(k) <= Maximum[k]
      /\ \A g \in granted : g.at \in Nat /\ g.at <= now
      /\ IsFiniteSet(granted)
  BY SpentBounds DEF Tick, CallsInv
<1>1. \A g \in granted : g.at < now'
  <2>1. \A at \in Nat : at <= now => at < now'
    BY <1>0
  <2> QED
    BY <1>0, <2>1
<1>2. CASE Open(k)
  <2> DEFINE o == entries[k].opened_at
  <2>1. /\ o \in Nat /\ o <= now /\ now - o < Window[k] /\ k \in DOMAIN entries
        /\ Cardinality(Since(k, o)) <= Spent(k)
        /\ Cardinality(Earlier(k, o)) <= Maximum[k]
    BY <1>2, SpentBounds DEF SpanInv, Open, Elapsed
  <2>2. CASE Open(k)'
    <3>1. Spent(k)' = Spent(k) /\ Since(k, o)' = Since(k, o) /\ Earlier(k, o)' = Earlier(k, o)
      BY <1>0, <1>2, <2>2 DEF Spent, Since, Earlier
    <3> QED
      BY <1>0, <2>1, <2>2, <3>1 DEF SpanInv
  <2>3. CASE ~Open(k)'
    <3>1. now' - o >= Window[k]
      BY <1>0, <2>1, <2>3 DEF Open, Elapsed
    <3>2. \A at \in Nat : now' - at < Window[k] => at >= o
      BY <1>0, <2>1, <3>1
    <3> HIDE DEF o
    <3>3. Within(k, Window[k])' \subseteq Since(k, o)
      BY <1>0, <3>2 DEF Within, Since
    <3>4. /\ Cardinality(Within(k, Window[k])') <= Cardinality(Since(k, o))
          /\ Cardinality(Within(k, Window[k])') \in Nat /\ Cardinality(Since(k, o)) \in Nat
      BY <1>0, <3>3, FewerCalls DEF Since
    <3>5. Cardinality(Within(k, Window[k])') <= Maximum[k]
      BY <1>0, <2>1, <3>4
    <3> QED
      BY <1>1, <2>3, <3>5 DEF SpanInv
  <2> QED
    BY <2>2, <2>3
<1>3. CASE ~Open(k)
  <2>1. ~Open(k)'
    <3>1. k \in DOMAIN entries => entries[k].opened_at \in Nat
      BY LimitsAssumption DEF TypeOK, Windows
    <3> QED
      BY <1>0, <1>3, <3>1 DEF Open, Elapsed
  <2>2. \A at \in Nat : now' - at < Window[k] => now - at < Window[k]
    BY <1>0
  <2>3. Within(k, Window[k])' \subseteq Within(k, Window[k])
    BY <1>0, <2>2 DEF Within
  <2>4. /\ Cardinality(Within(k, Window[k])') <= Cardinality(Within(k, Window[k]))
        /\ Cardinality(Within(k, Window[k])') \in Nat /\ Cardinality(Within(k, Window[k])) \in Nat
    BY <1>0, <2>3, FewerCalls DEF Within
  <2>5. Cardinality(Within(k, Window[k])) <= Maximum[k]
    BY <1>3 DEF SpanInv
  <2>6. Cardinality(Within(k, Window[k])') <= Maximum[k]
    BY <1>0, <2>4, <2>5
  <2> QED
    BY <1>1, <2>1, <2>6 DEF SpanInv
<1> QED
  BY <1>2, <1>3

\* A step that leaves the window of k as it is, and grants it nothing.
LEMMA OthersKeepSpan ==
    ASSUME TypeOK, CallsInv, NEW k \in Keys, SpanInv(k), now' = now,
           k \in DOMAIN entries' => k \in Retain /\ entries'[k] = entries[k],
           k \in Retain => k \in DOMAIN entries',
           \A g \in granted' : g.key = k => g \in granted
    PROVE  SpanInv(k)'
<1>0. /\ Spent(k)' = Spent(k) /\ Spent(k) \in Nat /\ Maximum[k] \in Nat
      /\ IsFiniteSet(granted)
  BY OthersKeepAllowance, SpentBounds DEF CallsInv
<1>1. CASE Open(k)
  <2> PICK o : o = entries[k].opened_at
    OBVIOUS
  <2>1. k \in DOMAIN entries' /\ entries'[k] = entries[k]
    BY <1>1, OpenIsRetained
  <2>2. Open(k)' /\ entries'[k].opened_at = o
    BY <1>1, <2>1 DEF Open, Elapsed
  <2>3. Cardinality(Since(k, o)) <= Spent(k) /\ Cardinality(Earlier(k, o)) <= Maximum[k]
    BY <1>1 DEF SpanInv
  <2>4. Since(k, o)' \subseteq Since(k, o) /\ Earlier(k, o)' \subseteq Earlier(k, o)
    BY DEF Since, Earlier
  <2>5. /\ Cardinality(Since(k, o)') <= Cardinality(Since(k, o))
        /\ Cardinality(Since(k, o)') \in Nat /\ Cardinality(Since(k, o)) \in Nat
        /\ Cardinality(Earlier(k, o)') <= Cardinality(Earlier(k, o))
        /\ Cardinality(Earlier(k, o)') \in Nat /\ Cardinality(Earlier(k, o)) \in Nat
    BY <1>0, <2>4, FewerCalls DEF Since, Earlier
  <2>6. Cardinality(Since(k, o)') <= Spent(k)' /\ Cardinality(Earlier(k, o)') <= Maximum[k]
    BY <1>0, <2>3, <2>5
  <2> QED
    BY <2>2, <2>6 DEF SpanInv, Since, Earlier
<1>2. CASE ~Open(k)
  <2>1. ~Open(k)'
    BY <1>2, RetainedWereThere DEF Open, Elapsed
  <2>2. Within(k, Window[k])' \subseteq Within(k, Window[k])
    BY DEF Within
  <2>3. /\ Cardinality(Within(k, Window[k])') <= Cardinality(Within(k, Window[k]))
        /\ Cardinality(Within(k, Window[k])') \in Nat /\ Cardinality(Within(k, Window[k])) \in Nat
    BY <1>0, <2>2, FewerCalls DEF Within
  <2>4. Cardinality(Within(k, Window[k])) <= Maximum[k]
    BY <1>2 DEF SpanInv
  <2>5. Cardinality(Within(k, Window[k])') <= Maximum[k]
    BY <1>0, <2>3, <2>4
  <2>6. \A g \in granted' : g.key = k => g.at < now'
    BY <1>2 DEF SpanInv
  <2> QED
    BY <2>1, <2>5, <2>6 DEF SpanInv
<1> QED
  BY <1>1, <1>2

\* A call of k: one more in its open window, or the first of a new one.
LEMMA AllowSpan ==
    ASSUME TypeOK, CallsInv, NEW k \in Keys, SpanInv(k), Allow(k), HNext
    PROVE  SpanInv(k)'
<1> DEFINE w == Counted(Retain, k)
<1>a. /\ k \in DOMAIN entries' /\ entries'[k] = w /\ now' = now
      /\ answer' = [key |-> k, granted |-> w.count <= Maximum[k]]
  BY DEF Allow
<1>b. /\ now \in Nat /\ Window[k] \in Nat \ {0} /\ Maximum[k] \in Nat \ {0}
      /\ Spent(k) \in Nat /\ Spent(k) <= Maximum[k]
      /\ w.opened_at \in Nat /\ w.count \in Nat
  BY SpentBounds, CountedType, LimitsAssumption, QuotaAssumption DEF Windows
<1>c. /\ IsFiniteSet(granted)
      /\ \A g \in granted : g.at \in Nat /\ g.at <= now
      /\ GrantedCall.key = answer'.key /\ GrantedCall.at = now
  BY DEF CallsInv, GrantedCall
<1>0. /\ k \in DOMAIN entries' /\ entries'[k] = w /\ now' = now
      /\ answer' = [key |-> k, granted |-> w.count <= Maximum[k]]
      /\ w.opened_at \in Nat /\ w.count \in Nat
      /\ now \in Nat /\ Window[k] \in Nat \ {0} /\ Maximum[k] \in Nat \ {0}
      /\ Spent(k) \in Nat /\ Spent(k) <= Maximum[k]
      /\ IsFiniteSet(granted)
      /\ \A g \in granted : g.at \in Nat /\ g.at <= now
      /\ GrantedCall.key = answer'.key /\ GrantedCall.at = now
  BY <1>a, <1>b, <1>c
<1>1. granted' \subseteq granted \cup {GrantedCall}
  BY DEF HNext
<1>2. CASE Open(k)
  <2>1. k \in Retain /\ k \in DOMAIN entries /\ entries[k] \in Windows
    BY <1>2, OpenIsRetained, RetainedWereThere DEF TypeOK
  <2>2. w = [entries[k] EXCEPT !.count = @ + 1]
    BY <1>2, <2>1 DEF Counted, Open
  <2>3. w.opened_at = entries[k].opened_at /\ w.count = entries[k].count + 1
        /\ entries[k].count \in Nat
    BY <2>1, <2>2 DEF Windows
  <2> HIDE DEF w
  <2> PICK o : o = entries[k].opened_at
    OBVIOUS
  <2>4. /\ Open(k)' /\ entries'[k].opened_at = o /\ o \in Nat /\ o <= now
    BY <1>0, <1>2, <2>3, SpentBounds DEF Open, Elapsed
  <2>5. /\ Cardinality(Since(k, o)) <= Spent(k) /\ Cardinality(Earlier(k, o)) <= Maximum[k]
    BY <1>2 DEF SpanInv
  <2>6. Earlier(k, o)' \subseteq Earlier(k, o)
    BY <1>0, <1>1, <2>4 DEF Earlier
  <2>7. Cardinality(Earlier(k, o)') <= Maximum[k]
    <3>1. /\ Cardinality(Earlier(k, o)') <= Cardinality(Earlier(k, o))
          /\ Cardinality(Earlier(k, o)') \in Nat /\ Cardinality(Earlier(k, o)) \in Nat
      BY <1>0, <2>6, FewerCalls DEF Earlier
    <3> QED
      BY <1>0, <2>5, <3>1
  <2>8. Cardinality(Since(k, o)') <= Spent(k)'
    <3>0. IsFiniteSet(Since(k, o)) /\ Cardinality(Since(k, o)) \in Nat
      BY <1>0, FewerCalls DEF Since
    <3>1. CASE w.count <= Maximum[k]
      <4>1. Spent(k) = entries[k].count /\ Spent(k)' = entries[k].count + 1
        BY <1>0, <1>2, <2>3, <2>4, <3>1 DEF Spent
      <4>2. Since(k, o)' \subseteq Since(k, o) \cup {GrantedCall}
        BY <1>1 DEF Since
      <4>3. /\ Cardinality(Since(k, o)') <= Cardinality(Since(k, o)) + 1
            /\ Cardinality(Since(k, o)') \in Nat
        BY <3>0, <4>2, OneCallMore
      <4> QED
        BY <1>0, <2>3, <2>5, <3>0, <4>1, <4>3
    <3>2. CASE ~(w.count <= Maximum[k])
      <4>1. Spent(k)' = Maximum[k]
        BY <1>0, <2>4, <3>2 DEF Spent
      <4>2. (w.count <= Maximum[k]) = FALSE
        BY <3>2
      <4>3. answer' = [key |-> k, granted |-> FALSE]
        BY <1>0, <4>2, Zenon
      <4>4. granted' = granted
        BY <4>3 DEF HNext
      <4>5. Since(k, o)' = Since(k, o)
        BY <4>4 DEF Since
      <4> QED
        BY <1>0, <2>5, <3>0, <4>1, <4>5
    <3> QED
      BY <3>1, <3>2
  <2> QED
    BY <2>4, <2>7, <2>8 DEF SpanInv, Since, Earlier
<1>3. CASE ~Open(k)
  <2>1. w = [opened_at |-> now, count |-> 1]
    BY <1>3, RetainedWereThere DEF Counted, Open
  <2>2. w.opened_at = now /\ w.count = 1
    BY <2>1
  <2> HIDE DEF w
  <2> PICK o : o = now
    OBVIOUS
  <2>3. Open(k)' /\ entries'[k].opened_at = o /\ Spent(k)' = 1
    BY <1>0, <2>2 DEF Open, Spent, Elapsed
  <2>4. /\ Cardinality(Within(k, Window[k])) <= Maximum[k]
        /\ \A g \in granted : g.key = k => g.at < now
    BY <1>3 DEF SpanInv
  <2>5. Since(k, o)' \subseteq {} \cup {GrantedCall}
    <3>1. \A at \in Nat : at < now => ~(at >= now)
      BY <1>0
    <3> QED
      BY <1>0, <1>1, <2>4, <3>1 DEF Since
  <2>6. Cardinality(Since(k, o)') <= Spent(k)'
    <3>1. IsFiniteSet({}) /\ Cardinality({}) = 0
      BY FS_EmptySet
    <3>2. /\ Cardinality(Since(k, o)') <= Cardinality({}) + 1
          /\ Cardinality(Since(k, o)') \in Nat
      BY <2>5, <3>1, OneCallMore
    <3> QED
      BY <2>3, <3>1, <3>2
  <2>7. Earlier(k, o)' \subseteq Within(k, Window[k])
    <3>1. \A at \in Nat : now - Window[k] < at => now - at < Window[k]
      BY <1>0
    <3> QED
      BY <1>0, <1>1, <3>1 DEF Earlier, Within
  <2>8. Cardinality(Earlier(k, o)') <= Maximum[k]
    <3>1. /\ Cardinality(Earlier(k, o)') <= Cardinality(Within(k, Window[k]))
          /\ Cardinality(Earlier(k, o)') \in Nat /\ Cardinality(Within(k, Window[k])) \in Nat
      BY <1>0, <2>7, FewerCalls DEF Within
    <3> QED
      BY <1>0, <2>4, <3>1
  <2> QED
    BY <2>3, <2>6, <2>8 DEF SpanInv, Since, Earlier
<1> QED
  BY <1>2, <1>3

LEMMA HistoryStep == TypeOK /\ HistoryInv /\ [HNext]_<<vars, granted>> => HistoryInv'
<1> SUFFICES ASSUME TypeOK, HistoryInv, [HNext]_<<vars, granted>> PROVE HistoryInv'
  OBVIOUS
<1>0. CallsInv /\ CallsInv'
  BY CallsStep DEF HistoryInv
<1>1. ASSUME NEW k \in Keys PROVE SpanInv(k)'
  <2>0. SpanInv(k)
    BY DEF HistoryInv
  <2>1. CASE HNext /\ Tick
    <3>1. now' # now
      BY <2>1, LimitsAssumption DEF Tick, TypeOK
    <3>2. granted' = granted
      BY <2>1, <3>1 DEF HNext
    <3> QED
      BY <1>0, <2>0, <2>1, <3>2, TickSpan
  <2>2. ASSUME NEW j \in Keys, HNext, Allow(j) PROVE SpanInv(k)'
    <3>1. CASE j = k
      BY <1>0, <2>0, <2>2, <3>1, AllowSpan
    <3>2. CASE j # k
      <4>1. /\ DOMAIN entries' = Retain \cup {j} /\ now' = now /\ answer'.key = j
            /\ \A i \in Retain \ {j} : entries'[i] = entries[i]
        BY <2>2 DEF Allow
      <4>2. \A g \in granted' : g.key = k => g \in granted
        BY <2>2, <3>2, <4>1 DEF HNext, GrantedCall
      <4> QED
        BY <1>0, <2>0, <3>2, <4>1, <4>2, OthersKeepSpan
    <3> QED
      BY <3>1, <3>2
  <2>3. ASSUME NEW j \in Keys, HNext, RefuseNew(j) PROVE SpanInv(k)'
    <3>1. /\ DOMAIN entries' = Retain /\ now' = now /\ answer'.granted = FALSE
          /\ \A i \in Retain : entries'[i] = entries[i]
      BY <2>3 DEF RefuseNew
    <3>2. granted' = granted
      BY <2>3, <3>1 DEF HNext
    <3> QED
      BY <1>0, <2>0, <3>1, <3>2, OthersKeepSpan
  <2>4. CASE UNCHANGED <<vars, granted>>
    BY <2>0, <2>4 DEF vars, SpanInv, Open, Elapsed, Spent, Since, Earlier, Within
  <2> QED
    BY <2>1, <2>2, <2>3, <2>4 DEF HNext, Next
<1> QED
  BY <1>0, <1>1 DEF HistoryInv

LEMMA HistoryGivesSpan ==
    ASSUME TypeOK, HistoryInv
    PROVE  TwiceInAnySpan
<1> SUFFICES ASSUME NEW k \in Keys
             PROVE  Cardinality(Within(k, Window[k])) <= 2 * Maximum[k]
  BY DEF TwiceInAnySpan
<1>0. /\ Maximum[k] \in Nat /\ Spent(k) \in Nat /\ Spent(k) <= Maximum[k]
      /\ now \in Nat /\ Window[k] \in Nat \ {0}
      /\ IsFiniteSet(granted) /\ SpanInv(k)
      /\ \A g \in granted : g.at \in Nat /\ g.at <= now
  BY SpentBounds DEF HistoryInv, CallsInv
<1>1. CASE Open(k)
  <2> DEFINE o == entries[k].opened_at
             both == Since(k, o) \cup Earlier(k, o)
  <2>1. /\ o \in Nat /\ o <= now
        /\ Cardinality(Since(k, o)) <= Spent(k)
        /\ Cardinality(Earlier(k, o)) <= Maximum[k]
    BY <1>0, <1>1, SpentBounds DEF SpanInv
  <2> HIDE DEF o
  <2>2. \A at \in Nat : now - at < Window[k] => at >= o \/ (o - Window[k] < at /\ at < o)
    BY <1>0, <2>1
  <2>3. Within(k, Window[k]) \subseteq both /\ both \subseteq granted
    BY <1>0, <2>2 DEF Within, Since, Earlier
  <2>4. /\ IsFiniteSet(Since(k, o)) /\ Cardinality(Since(k, o)) \in Nat
        /\ IsFiniteSet(Earlier(k, o)) /\ Cardinality(Earlier(k, o)) \in Nat
    BY <1>0, FewerCalls DEF Since, Earlier
  <2>5. Since(k, o) \cap Earlier(k, o) = {}
    <3>1. \A at \in Nat : ~(at >= o /\ at < o)
      BY <2>1
    <3> QED
      BY <1>0, <3>1 DEF Since, Earlier
  <2>6. Cardinality(both) = Cardinality(Since(k, o)) + Cardinality(Earlier(k, o))
    <3>1. Cardinality(both) = Cardinality(Since(k, o)) + Cardinality(Earlier(k, o))
                                  - Cardinality(Since(k, o) \cap Earlier(k, o))
      BY <2>4, FS_Union
    <3> QED
      BY <2>4, <2>5, <3>1, FS_EmptySet
  <2>7. /\ Cardinality(Within(k, Window[k])) <= Cardinality(both)
        /\ Cardinality(Within(k, Window[k])) \in Nat
    BY <1>0, <2>3, FewerCalls
  <2> QED
    BY <1>0, <2>1, <2>4, <2>6, <2>7
<1>2. CASE ~Open(k)
  <2>1. Cardinality(Within(k, Window[k])) <= Maximum[k]
    BY <1>0, <1>2 DEF SpanInv
  <2>2. Cardinality(Within(k, Window[k])) \in Nat
    BY <1>0, FewerCalls DEF Within
  <2> QED
    BY <1>0, <2>1, <2>2
<1> QED
  BY <1>1, <1>2

\* The history follows the limiter step by step.
LEMMA HistoryFollows == HSpec => Spec
<1>1. HInit => Init
  BY DEF HInit
<1>2. [HNext]_<<vars, granted>> => [Next]_vars
  BY DEF HNext, vars
<1> QED
  BY <1>1, <1>2, PTL DEF HSpec, Spec

LEMMA HistoryAlways == HSpec => [](TypeOK /\ HistoryInv)
<1>1. HInit => TypeOK /\ HistoryInv
  BY InitType, InitHistory DEF HInit
<1>2. TypeOK /\ HistoryInv /\ [HNext]_<<vars, granted>> => TypeOK' /\ HistoryInv'
  <2>1. [HNext]_<<vars, granted>> => [Next]_vars
    BY DEF HNext, vars
  <2> QED
    BY <2>1, TypeStep, HistoryStep
<1> QED
  BY <1>1, <1>2, PTL DEF HSpec

\* TwiceInAnySpan: however the calls of a key fall across two windows of allow(), and
\* whatever retain has evicted in between, no span of one window has more than twice
\* the maximum of them.
THEOREM SpansAreBounded == HSpec => []TwiceInAnySpan
<1>1. TypeOK /\ HistoryInv => TwiceInAnySpan
  BY HistoryGivesSpan
<1> QED
  BY <1>1, HistoryAlways, PTL

\* The history loses no call that it counts: each that allow() grants is a new member.
THEOREM EveryGrantIsCounted ==
    HSpec => [][(UNCHANGED now /\ answer'.granted /\ HNext)
                   => granted' # granted /\ GrantedCall \in granted' \ granted]_<<vars, granted>>
<1>1. TypeOK /\ HistoryInv /\ [HNext]_<<vars, granted>>
         => [(UNCHANGED now /\ answer'.granted /\ HNext)
                => granted' # granted /\ GrantedCall \in granted' \ granted]_<<vars, granted>>
  BY CallsStep DEF HistoryInv, HNext
<1> QED
  BY <1>1, HistoryAlways, PTL DEF HSpec
=============================================================================
