----------------------------- MODULE RateLimiter -----------------------------
(***************************************************************************)
(* The rate limiter of the server: one map from keys to windows behind one *)
(* mutex.  A key is the operation and the agent, developer or IP address   *)
(* it is counted for, so its maximum and its window never change.  The map *)
(* forgets windows when it grows (EvictAt) and refuses new keys when it is *)
(* full (Capacity).                                                        *)
(***************************************************************************)
EXTENDS Naturals, FiniteSets

CONSTANTS
    Keys,
    Maximum,        \* the maximum that the caller of ensure_rate passes, by key
    Window,         \* the window it passes, in units of time
    Retention,      \* the 3600 seconds of retain, in units of time
    EvictAt,        \* 4096
    Capacity,       \* 8192
    Horizon,        \* bound of the model: time stops here
    MostRefused     \* bound of the model: calls counted beyond the maximum

\* Every ensure_rate of the handlers asks for at least one call and for a window of
\* at most an hour.
ASSUME QuotaAssumption ==
    /\ Maximum \in [Keys -> Nat \ {0}]
    /\ Window \in [Keys -> 1 .. Retention]
ASSUME LimitsAssumption ==
    /\ Retention \in Nat \ {0}
    /\ EvictAt \in Nat
    /\ Capacity \in Nat
    /\ Horizon \in Nat
    /\ MostRefused \in Nat

VARIABLES
    now,        \* Instant::now()
    entries,    \* the map: a function on the keys it holds
    answer      \* what the last call was answered, with its key

vars == <<now, entries, answer>>

Windows == [opened_at: 0 .. Horizon, count: Nat]
Answers == [key: Keys, granted: BOOLEAN]

NoWindows == [k \in {} |-> [opened_at |-> 0, count |-> 0]]

Init ==
    /\ now = 0
    /\ entries = NoWindows
    /\ answer \in Answers

\* RateWindow::opened_at.elapsed()
Elapsed(item) == now - item.opened_at

\* retain that forgets too early: every window of half its age.
RetainHalf ==
    IF Cardinality(DOMAIN entries) >= EvictAt
    THEN {k \in DOMAIN entries : 2 * Elapsed(entries[k]) < Retention}
    ELSE DOMAIN entries

\* The keys that `retain` leaves in the map.
Retain ==
    IF Cardinality(DOMAIN entries) >= EvictAt
    THEN {k \in DOMAIN entries : Elapsed(entries[k]) < Retention}
    ELSE DOMAIN entries

\* A window that opens without the call that opens it.
CountedFromZero(kept, k) ==
    IF k \in kept /\ Elapsed(entries[k]) < Window[k]
    THEN [entries[k] EXCEPT !.count = @ + 1]
    ELSE [opened_at |-> now, count |-> 0]

\* The window of the key after this call: a new one, a reopened one, or one call more.
Counted(kept, k) ==
    IF k \in kept /\ Elapsed(entries[k]) < Window[k]
    THEN [entries[k] EXCEPT !.count = @ + 1]
    ELSE [opened_at |-> now, count |-> 1]

\* A map that refuses one key too late.
FullAfter(kept, k) == k \notin kept /\ Cardinality(kept) > Capacity

Full(kept, k) == k \notin kept /\ Cardinality(kept) >= Capacity

\* allow(key, maximum, window) under the mutex.
Allow(k) ==
    LET kept == Retain IN
    /\ ~Full(kept, k)
    /\ Counted(kept, k).count <= Maximum[k] + MostRefused
    /\ entries' = [j \in kept \cup {k} |-> IF j = k THEN Counted(kept, k) ELSE entries[j]]
    /\ answer' = [key |-> k, granted |-> Counted(kept, k).count <= Maximum[k]]
    /\ UNCHANGED now

\* The map is full, and the key is not in it.
RefuseNew(k) ==
    LET kept == Retain IN
    /\ Full(kept, k)
    /\ entries' = [j \in kept |-> entries[j]]
    /\ answer' = [key |-> k, granted |-> FALSE]
    /\ UNCHANGED now

Tick ==
    /\ now < Horizon
    /\ now' = now + 1
    /\ UNCHANGED <<entries, answer>>

Next == Tick \/ \E k \in Keys : Allow(k) \/ RefuseNew(k)

Spec == Init /\ [][Next]_vars

-----------------------------------------------------------------------------
\* The map holds windows of known keys, opened in the past.
TypeOK ==
    /\ now \in 0 .. Horizon
    /\ DOMAIN entries \subseteq Keys
    /\ \A k \in DOMAIN entries :
          /\ entries[k] \in Windows
          /\ entries[k].opened_at <= now
          /\ entries[k].count >= 1
    /\ answer \in Answers

\* The map never holds more than Capacity windows, whoever calls.
BoundedMap == Cardinality(DOMAIN entries) <= Capacity

\* The allowance of a key, of which the map forgets nothing that still counts.
Open(k) == k \in DOMAIN entries /\ Elapsed(entries[k]) < Window[k]
Left(k) == IF Open(k) THEN Window[k] - Elapsed(entries[k]) ELSE 0
Spent(k) ==
    IF ~Open(k) THEN 0
    ELSE IF entries[k].count < Maximum[k] THEN entries[k].count ELSE Maximum[k]

Promise == INSTANCE Quota WITH
    left <- [k \in Keys |-> Left(k)],
    spent <- [k \in Keys |-> Spent(k)]

\* The limiter keeps its promise to every key: the eviction at EvictAt windows and
\* the refusal at Capacity windows never grant a call too many, and never refuse one
\* to a key whose allowance is open.
KeepsQuota == Promise!Spec
=============================================================================
