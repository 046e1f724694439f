---------------------------- MODULE ConnPoolProofs ----------------------------
(***************************************************************************)
(* The queue of the pool is orderly and its stall is bounded, for any      *)
(* number of connections and requests, any timeout and any number of       *)
(* checks of a request.                                                    *)
(***************************************************************************)
EXTENDS ConnPool, SequenceTheorems, TLAPS

USE PoolAssumption DEF PoolAssumption

LEMMA PoolInit == Init => IInv
BY DEF Init, IInv, TypeOK, QueueOK, StallOK, States, Waiting, IsStalled

-----------------------------------------------------------------------------
(* The queue.                                                              *)

\* A request joins the end of the queue.
LEMMA QueueAppends ==
    ASSUME TypeOK, QueueOK, NEW r \in Requests, NEW state \in Waiting,
           pc[r] \notin Waiting, pc' = [pc EXCEPT ![r] = state], queue' = Append(queue, r)
    PROVE  queue' \in Seq(Requests) /\ QueueOK'
<1>1. /\ queue' \in Seq(Requests)
      /\ Len(queue) \in Nat
      /\ Len(queue') = Len(queue) + 1
      /\ \A i \in 1 .. Len(queue) : queue'[i] = queue[i]
      /\ queue'[Len(queue) + 1] = r
    BY DEF TypeOK
<1>2. \A i \in 1 .. Len(queue) : queue[i] \in Requests /\ queue[i] # r
    BY DEF TypeOK, QueueOK
<1>3. ASSUME NEW q \in Requests
      PROVE  pc'[q] \in Waiting <=> \E i \in 1 .. Len(queue') : queue'[i] = q
    <2>1. CASE q = r
        BY <1>1, <2>1 DEF TypeOK
    <2>2. CASE q # r
        <3>1. pc'[q] = pc[q]
            BY <2>2 DEF TypeOK
        <3>2. ASSUME NEW i \in 1 .. Len(queue), queue[i] = q
              PROVE  i \in 1 .. Len(queue') /\ queue'[i] = q
            BY <1>1, <3>2
        <3>3. ASSUME NEW i \in 1 .. Len(queue'), queue'[i] = q
              PROVE  i \in 1 .. Len(queue) /\ queue[i] = q
            BY <1>1, <2>2, <3>3
        <3> QED BY <3>1, <3>2, <3>3 DEF QueueOK
    <2> QED BY <2>1, <2>2
<1>4. \A i, j \in 1 .. Len(queue') : queue'[i] = queue'[j] => i = j
    BY <1>1, <1>2 DEF QueueOK
<1> QED BY <1>1, <1>3, <1>4 DEF QueueOK

\* The first in the queue leaves it.
LEMMA QueueServes ==
    ASSUME TypeOK, QueueOK, queue # << >>, NEW state \in States \ Waiting,
           pc' = [pc EXCEPT ![Head(queue)] = state], queue' = Tail(queue)
    PROVE  queue' \in Seq(Requests) /\ QueueOK'
<1>1. /\ queue' \in Seq(Requests)
      /\ Len(queue) \in Nat /\ Len(queue) > 0
      /\ Len(queue') = Len(queue) - 1
      /\ \A i \in 1 .. Len(queue') : queue'[i] = queue[i + 1]
      /\ Head(queue) = queue[1] /\ queue[1] \in Requests
    BY HeadTailProperties, EmptySeq DEF TypeOK
<1>2. ASSUME NEW q \in Requests
      PROVE  pc'[q] \in Waiting <=> \E i \in 1 .. Len(queue') : queue'[i] = q
    <2>1. CASE q = queue[1]
        <3>1. pc'[q] \notin Waiting
            BY <1>1, <2>1 DEF TypeOK
        <3>2. \A i \in 1 .. Len(queue') : queue'[i] # q
            BY <1>1, <2>1 DEF QueueOK
        <3> QED BY <3>1, <3>2
    <2>2. CASE q # queue[1]
        <3>1. pc'[q] = pc[q]
            BY <1>1, <2>2 DEF TypeOK
        <3>2. (\E i \in 1 .. Len(queue') : queue'[i] = q) <=> \E i \in 1 .. Len(queue) : queue[i] = q
            <4>1. ASSUME NEW i \in 1 .. Len(queue), queue[i] = q
                  PROVE  i - 1 \in 1 .. Len(queue') /\ queue'[i - 1] = q
                BY <1>1, <2>2, <4>1
            <4>2. ASSUME NEW i \in 1 .. Len(queue'), queue'[i] = q
                  PROVE  i + 1 \in 1 .. Len(queue) /\ queue[i + 1] = q
                BY <1>1, <4>2
            <4> QED BY <4>1, <4>2
        <3> QED BY <3>1, <3>2 DEF QueueOK
    <2> QED BY <2>1, <2>2
<1>3. \A i, j \in 1 .. Len(queue') : queue'[i] = queue'[j] => i = j
    BY <1>1 DEF QueueOK
<1> QED BY <1>1, <1>2, <1>3 DEF QueueOK

\* A request leaves the queue, wherever it is, or was not in it.
LEMMA QueueLets ==
    ASSUME TypeOK, QueueOK, NEW r \in Requests, NEW state \in States \ Waiting,
           pc' = [pc EXCEPT ![r] = state], queue' = Without(r)
    PROVE  queue' \in Seq(Requests) /\ QueueOK'
<1>1. Len(queue) \in Nat
    BY DEF TypeOK
<1>2. \A q \in Requests : q # r => pc'[q] = pc[q]
    BY DEF TypeOK
<1>3. pc'[r] \notin Waiting
    BY DEF TypeOK
<1>4. CASE ~ \E i \in 1 .. Len(queue) : queue[i] = r
    <2>1. queue' = queue
        BY <1>4 DEF Without
    <2> QED BY <2>1, <1>2, <1>3, <1>4 DEF QueueOK, TypeOK
<1>5. CASE \E i \in 1 .. Len(queue) : queue[i] = r
    <2> DEFINE k == CHOOSE i \in 1 .. Len(queue) : queue[i] = r
               front == SubSeq(queue, 1, k - 1)
               back == SubSeq(queue, k + 1, Len(queue))
    <2>1. k \in 1 .. Len(queue) /\ queue[k] = r /\ queue' = front \o back
        BY <1>5, <1>1 DEF Without
    <2> HIDE DEF k
    <2>2. /\ front \in Seq(Requests) /\ Len(front) = k - 1
          /\ \A i \in 1 .. k - 1 : front[i] = queue[i]
        <3>1. \A i \in 1 .. k - 1 : queue[i] \in Requests
            BY <2>1, <1>1 DEF TypeOK
        <3>2. 1 \in Int /\ k - 1 \in Int
            BY <2>1
        <3>3. /\ front \in Seq(Requests)
              /\ Len(front) = IF 1 <= k - 1 THEN (k - 1) - 1 + 1 ELSE 0
              /\ \A i \in 1 .. (k - 1) - 1 + 1 : front[i] = queue[1 + i - 1]
            BY <3>1, <3>2, SubSeqProperties
        <3> QED BY <3>3, <2>1
    <2>3. /\ back \in Seq(Requests) /\ Len(back) = Len(queue) - k
          /\ \A i \in 1 .. Len(queue) - k : back[i] = queue[k + i]
        <3>1. \A i \in k + 1 .. Len(queue) : queue[i] \in Requests
            BY <2>1, <1>1 DEF TypeOK
        <3>2. k + 1 \in Int /\ Len(queue) \in Int
            BY <2>1, <1>1
        <3>3. /\ back \in Seq(Requests)
              /\ Len(back) = IF k + 1 <= Len(queue) THEN Len(queue) - (k + 1) + 1 ELSE 0
              /\ \A i \in 1 .. Len(queue) - (k + 1) + 1 : back[i] = queue[(k + 1) + i - 1]
            BY <3>1, <3>2, SubSeqProperties
        <3> QED BY <3>3, <2>1, <1>1
    <2> HIDE DEF front, back
    <2>4. /\ queue' \in Seq(Requests) /\ Len(queue') = Len(queue) - 1
          /\ \A i \in 1 .. Len(queue) - 1 :
                (i < k => queue'[i] = queue[i]) /\ (i >= k => queue'[i] = queue[i + 1])
        <3>1. /\ front \o back \in Seq(Requests)
              /\ Len(front \o back) = Len(front) + Len(back)
              /\ \A i \in 1 .. Len(front) + Len(back) :
                    (front \o back)[i] =
                        IF i <= Len(front) THEN front[i] ELSE back[i - Len(front)]
            BY <2>2, <2>3, ConcatProperties
        <3>2. Len(front) + Len(back) = Len(queue) - 1
            BY <2>1, <2>2, <2>3, <1>1
        <3>3. ASSUME NEW i \in 1 .. Len(queue) - 1
              PROVE  (i < k => queue'[i] = queue[i]) /\ (i >= k => queue'[i] = queue[i + 1])
            <4>1. ASSUME i < k
                  PROVE  queue'[i] = queue[i]
                <5>1. i \in 1 .. k - 1 /\ i <= Len(front)
                    BY <4>1, <2>1, <2>2
                <5> QED BY <5>1, <3>1, <3>2, <2>1, <2>2
            <4>2. ASSUME i >= k
                  PROVE  queue'[i] = queue[i + 1]
                <5>1. /\ i - (k - 1) \in 1 .. Len(queue) - k
                      /\ k + (i - (k - 1)) = i + 1 /\ ~ (i <= k - 1)
                    BY <4>2, <2>1, <1>1
                <5>2. back[i - (k - 1)] = queue[i + 1]
                    BY <5>1, <2>3
                <5> QED BY <5>1, <5>2, <3>1, <3>2, <2>1, <2>2
            <4> QED BY <4>1, <4>2
        <3> QED BY <3>1, <3>2, <3>3, <2>1
    <2>5. \A i \in 1 .. Len(queue') : i \in 1 .. Len(queue) /\ i + 1 \in 1 .. Len(queue)
        BY <2>4, <1>1
    <2>6. \A i, j \in 1 .. Len(queue') : queue'[i] = queue'[j] => i = j
        BY <2>1, <2>4, <2>5, <1>1 DEF QueueOK
    <2>7. ASSUME NEW q \in Requests
          PROVE  pc'[q] \in Waiting <=> \E i \in 1 .. Len(queue') : queue'[i] = q
        <3>1. CASE q = r
            <4>1. ASSUME NEW i \in 1 .. Len(queue')
                  PROVE  queue'[i] # r
                <5>1. /\ i \in 1 .. Len(queue) - 1
                      /\ i \in 1 .. Len(queue) /\ i + 1 \in 1 .. Len(queue)
                    BY <2>4, <2>5, <1>1
                <5>2. queue[i] = r => i = k
                    BY <2>1, <5>1 DEF QueueOK
                <5>3. queue[i + 1] = r => i + 1 = k
                    BY <2>1, <5>1 DEF QueueOK
                <5>4. CASE i < k
                    BY <5>1, <5>2, <5>4, <2>4, <2>1
                <5>5. CASE i >= k
                    BY <5>1, <5>3, <5>5, <2>4, <2>1
                <5> QED BY <5>1, <5>4, <5>5, <2>1
            <4> QED BY <4>1, <3>1, <1>3
        <3>2. CASE q # r
            <4>1. ASSUME NEW i \in 1 .. Len(queue), queue[i] = q
                  PROVE  \E j \in 1 .. Len(queue') : queue'[j] = q
                <5>1. CASE i < k
                    <6>1. i \in 1 .. Len(queue) - 1 /\ i \in 1 .. Len(queue')
                        BY <5>1, <2>1, <2>4, <1>1
                    <6>2. queue'[i] = queue[i]
                        BY <6>1, <5>1, <2>4
                    <6> QED BY <6>1, <6>2, <4>1
                <5>2. CASE i > k
                    <6>1. /\ i - 1 \in 1 .. Len(queue) - 1 /\ i - 1 \in 1 .. Len(queue')
                          /\ i - 1 >= k /\ (i - 1) + 1 = i
                        BY <5>2, <2>1, <2>4, <1>1
                    <6>2. queue'[i - 1] = queue[i]
                        BY <6>1, <2>4
                    <6> QED BY <6>1, <6>2, <4>1
                <5>3. i # k
                    BY <4>1, <3>2, <2>1
                <5> QED BY <5>1, <5>2, <5>3, <1>1, <2>1
            <4>2. ASSUME NEW i \in 1 .. Len(queue'), queue'[i] = q
                  PROVE  \E j \in 1 .. Len(queue) : queue[j] = q
                <5>1. i \in 1 .. Len(queue) /\ i + 1 \in 1 .. Len(queue)
                    BY <2>5, <1>1
                <5>2. queue'[i] = queue[i] \/ queue'[i] = queue[i + 1]
                    <6>1. i \in 1 .. Len(queue) - 1 /\ (i < k \/ i >= k)
                        BY <2>1, <2>4, <1>1
                    <6> QED BY <6>1, <2>4
                <5> QED BY <5>1, <5>2, <4>2
            <4> QED BY <4>1, <4>2, <3>2, <1>2 DEF QueueOK
        <3> QED BY <3>1, <3>2
    <2> QED BY <2>4, <2>6, <2>7 DEF QueueOK
<1> QED BY <1>4, <1>5

-----------------------------------------------------------------------------
(* The stall.                                                              *)

\* A step keeps StallOK when no holder of a stall waits less after it.
LEMMA StallWatched ==
    ASSUME TypeOK, StallOK, Watch,
           IsStalled(holder, pc) /\ IsStalled(holder', pc') =>
               \A c \in Connections : waited'[holder'[c]] = waited[holder[c]],
           waited' \in [Requests -> 0 .. AcquireTimeout]
    PROVE  stalled' \in Nat /\ StallOK'
<1>1. stalled' \in Nat /\ (stalled' > 0 => IsStalled(holder', pc'))
    BY DEF Watch, TypeOK
<1>2. ASSUME IsStalled(holder', pc'), NEW c \in Connections
      PROVE  stalled' <= waited'[holder'[c]]
    <2>1. stalled' = stalled
        BY <1>2 DEF Watch
    <2>2. CASE IsStalled(holder, pc)
        BY <2>1, <2>2, <1>2 DEF StallOK
    <2>3. CASE ~ IsStalled(holder, pc)
        <3>1. stalled' = 0
            BY <2>1, <2>3 DEF StallOK, TypeOK
        <3>2. holder'[c] \in Requests
            BY <1>2 DEF IsStalled
        <3> QED BY <3>1, <3>2
    <2> QED BY <2>2, <2>3
<1> QED BY <1>1, <1>2 DEF StallOK

-----------------------------------------------------------------------------
(* The steps.                                                              *)

\* A request begins to wait, for its first connection or for its second.
LEMMA EnqueueStep ==
    ASSUME IInv, Watch, NEW r \in Requests, NEW state \in Waiting,
           pc[r] \notin Waiting, Enqueue(r, state), UNCHANGED holder,
           left' \in [Requests -> 0 .. MostAwaits]
    PROVE  IInv'
<1> USE DEF IInv
<1>1. /\ pc' = [pc EXCEPT ![r] = state]
      /\ queue' = Append(queue, r)
      /\ waited' = [waited EXCEPT ![r] = 0]
      /\ holder' = holder
    BY DEF Enqueue
<1>2. /\ pc' \in [Requests -> States]
      /\ waited' \in [Requests -> 0 .. AcquireTimeout]
      /\ holder' \in [Connections -> Requests \cup {Nobody}]
    BY <1>1 DEF TypeOK, States, Waiting
<1>3. queue' \in Seq(Requests) /\ QueueOK'
    BY <1>1, QueueAppends
<1>4. ASSUME IsStalled(holder, pc), NEW c \in Connections
      PROVE  waited'[holder'[c]] = waited[holder[c]]
    <2>1. holder[c] \in Requests /\ holder[c] # r
        BY <1>4 DEF IsStalled, Waiting
    <2> QED BY <2>1, <1>1 DEF TypeOK
<1>5. stalled' \in Nat /\ StallOK'
    BY <1>2, <1>4, StallWatched
<1> QED BY <1>2, <1>3, <1>5 DEF TypeOK

\* A request returns what it holds: it has ended, failed or been dropped.
LEMMA ReleaseStep ==
    ASSUME IInv, Watch, NEW r \in Requests, Release(r)
    PROVE  IInv'
<1> USE DEF IInv
<1>1. /\ pc' = [pc EXCEPT ![r] = "idle"]
      /\ queue' = Without(r)
      /\ waited' = [waited EXCEPT ![r] = 0]
      /\ left' = [left EXCEPT ![r] = 0]
      /\ holder' = [c \in Connections |-> IF holder[c] = r THEN Nobody ELSE holder[c]]
    BY DEF Release
<1>2. /\ pc' \in [Requests -> States]
      /\ waited' \in [Requests -> 0 .. AcquireTimeout]
      /\ left' \in [Requests -> 0 .. MostAwaits]
      /\ holder' \in [Connections -> Requests \cup {Nobody}]
    BY <1>1 DEF TypeOK, States
<1>3. queue' \in Seq(Requests) /\ QueueOK'
    <2>1. "idle" \in States \ Waiting
        BY DEF States, Waiting
    <2> QED BY <1>1, <2>1, QueueLets
<1>4. ASSUME IsStalled(holder', pc'), NEW c \in Connections
      PROVE  waited'[holder'[c]] = waited[holder[c]]
    <2>1. holder'[c] \in Requests
        BY <1>4 DEF IsStalled
    <2>2. holder'[c] = holder[c] /\ holder[c] # r
        BY <2>1, <1>1
    <2> QED BY <2>1, <2>2, <1>1 DEF TypeOK
<1>5. stalled' \in Nat /\ StallOK'
    BY <1>2, <1>4, StallWatched
<1> QED BY <1>2, <1>3, <1>5 DEF TypeOK

\* The pool serves the first in the queue: with a connection free, nothing is stalled.
LEMMA GrantStep ==
    ASSUME IInv, Watch, NEW c \in Connections, Grant(c)
    PROVE  IInv'
<1> USE DEF IInv
<1> DEFINE r == Head(queue)
           to == CASE pc[r] = "asking"    -> "running"
                   [] pc[r] = "beginning" -> "embedding"
                   [] pc[r] = "checking"  -> "reading"
<1>1. r \in Requests /\ pc[r] \in Waiting /\ queue # << >>
    <2>1. queue # << >> /\ r = queue[1] /\ 1 \in 1 .. Len(queue) /\ queue[1] \in Requests
        BY HeadTailProperties, EmptySeq DEF Grant, TypeOK
    <2> QED BY <2>1 DEF QueueOK
<1>2. /\ holder' = [holder EXCEPT ![c] = r]
      /\ pc' = [pc EXCEPT ![r] = to]
      /\ waited' = [waited EXCEPT ![r] = 0]
      /\ queue' = Tail(queue) /\ left' = left
      /\ holder[c] = Nobody
    <2>1. pc' = [pc EXCEPT ![r] = CASE pc[r] = "asking"    -> "running"
                                    [] pc[r] = "beginning" -> "embedding"
                                    [] pc[r] = "checking"  -> "reading"]
        BY <1>1 DEF Grant, TypeOK
    <2> QED BY <2>1 DEF Grant, Free
<1>3. to \in States \ Waiting
    BY <1>1 DEF States, Waiting
<1> HIDE DEF to
<1>4. /\ pc' \in [Requests -> States]
      /\ waited' \in [Requests -> 0 .. AcquireTimeout]
      /\ holder' \in [Connections -> Requests \cup {Nobody}]
    BY <1>1, <1>2, <1>3 DEF TypeOK
<1>5. queue' \in Seq(Requests) /\ QueueOK'
    BY <1>1, <1>2, <1>3, QueueServes
<1>6. ~ IsStalled(holder, pc)
    BY <1>2 DEF IsStalled
<1>7. stalled' \in Nat /\ StallOK'
    BY <1>4, <1>6, StallWatched
<1> QED BY <1>2, <1>4, <1>5, <1>7 DEF TypeOK

\* A check returns its connection.
LEMMA CheckedStep ==
    ASSUME IInv, Watch, NEW r \in Requests, NEW c \in Connections, Checked(r, c)
    PROVE  IInv'
<1> USE DEF IInv
<1>1. /\ pc[r] = "reading" /\ holder[c] = r
      /\ holder' = [holder EXCEPT ![c] = Nobody]
      /\ pc' = [pc EXCEPT ![r] = "embedding"]
      /\ queue' = queue /\ waited' = waited /\ left' = left
    BY DEF Checked, Held
<1>2. /\ pc' \in [Requests -> States]
      /\ holder' \in [Connections -> Requests \cup {Nobody}]
    BY <1>1 DEF TypeOK, States
<1>3. \A q \in Requests : pc'[q] \in Waiting <=> pc[q] \in Waiting
    BY <1>1 DEF TypeOK, Waiting
<1>4. QueueOK'
    BY <1>1, <1>3 DEF QueueOK
<1>5. ~ IsStalled(holder, pc)
    BY <1>1 DEF IsStalled
<1>6. stalled' \in Nat /\ StallOK'
    BY <1>1, <1>5, StallWatched DEF TypeOK
<1> QED BY <1>1, <1>2, <1>4, <1>6 DEF TypeOK

\* Time passes for everybody who waits, and no faster for a stall than for them.
LEMMA TickStep == IInv /\ Tick => IInv'
<1> SUFFICES ASSUME IInv, Tick
             PROVE  IInv'
    OBVIOUS
<1> USE DEF IInv
<1>1. /\ holder' = holder /\ queue' = queue /\ pc' = pc /\ left' = left
      /\ waited' = [r \in Requests |-> IF pc[r] \in Waiting THEN waited[r] + 1 ELSE waited[r]]
      /\ stalled' = IF IsStalled(holder, pc) /\ stalled <= AcquireTimeout
                    THEN stalled + 1 ELSE stalled
    BY DEF Tick
<1>2. waited' \in [Requests -> 0 .. AcquireTimeout]
    <2>1. ASSUME NEW r \in Requests
          PROVE  waited'[r] \in 0 .. AcquireTimeout
        <3>1. pc[r] \in Waiting => waited[r] < AcquireTimeout
            BY DEF Tick
        <3> QED BY <3>1, <1>1 DEF TypeOK
    <2> QED BY <2>1, <1>1
<1>3. stalled' \in Nat
    BY <1>1 DEF TypeOK
<1>4. QueueOK'
    BY <1>1 DEF QueueOK
<1>5. StallOK'
    <2>1. CASE ~ IsStalled(holder, pc)
        BY <2>1, <1>1 DEF StallOK
    <2>2. CASE IsStalled(holder, pc)
        <3>1. ASSUME NEW c \in Connections
              PROVE  stalled' <= waited'[holder'[c]]
            <4>1. holder[c] \in Requests /\ pc[holder[c]] \in Waiting
                BY <2>2 DEF IsStalled, Waiting
            <4>2. waited'[holder'[c]] = waited[holder[c]] + 1
                BY <4>1, <1>1
            <4>3. stalled <= waited[holder[c]]
                BY <2>2 DEF StallOK
            <4> QED BY <4>1, <4>2, <4>3, <1>1 DEF TypeOK
        <3> QED BY <3>1, <2>2, <1>1 DEF StallOK
    <2> QED BY <2>1, <2>2
<1> QED BY <1>1, <1>2, <1>3, <1>4, <1>5 DEF TypeOK

LEMMA PoolNext == IInv /\ [Next]_vars => IInv'
<1> SUFFICES ASSUME IInv, [Next]_vars
             PROVE  IInv'
    OBVIOUS
<1>1. ASSUME NEW r \in Requests, Step(r)
      PROVE  IInv'
    <2>0. Watch
        BY <1>1 DEF Step
    <2>1. CASE Ask(r)
        <3>1. /\ Enqueue(r, "asking") /\ holder' = holder /\ left' = left
              /\ "asking" \in Waiting /\ pc[r] \notin Waiting
            BY <2>1 DEF Ask, Waiting
        <3> QED BY <2>0, <3>1, EnqueueStep DEF IInv, TypeOK
    <2>2. CASE Begin(r)
        <3>1. /\ Enqueue(r, "beginning") /\ holder' = holder
              /\ left' = [left EXCEPT ![r] = MostAwaits]
              /\ "beginning" \in Waiting /\ pc[r] \notin Waiting
            BY <2>2 DEF Begin, Waiting
        <3>2. left' \in [Requests -> 0 .. MostAwaits]
            BY <3>1 DEF IInv, TypeOK
        <3> QED BY <2>0, <3>1, <3>2, EnqueueStep
    <2>3. CASE Check(r)
        <3>1. /\ Enqueue(r, "checking") /\ holder' = holder
              /\ left[r] > 0 /\ left' = [left EXCEPT ![r] = left[r] - 1]
              /\ "checking" \in Waiting /\ pc[r] \notin Waiting
            BY <2>3 DEF Check, Waiting
        <3>2. left' \in [Requests -> 0 .. MostAwaits]
            BY <3>1 DEF IInv, TypeOK
        <3> QED BY <2>0, <3>1, <3>2, EnqueueStep
    <2>4. CASE Finish(r) \/ TimeOut(r) \/ Drop(r)
        BY <2>0, <2>4, ReleaseStep DEF Finish, TimeOut, Drop
    <2>5. ASSUME NEW c \in Connections, Checked(r, c)
          PROVE  IInv'
        BY <2>0, <2>5, CheckedStep
    <2> QED BY <1>1, <2>1, <2>2, <2>3, <2>4, <2>5 DEF Step
<1>2. ASSUME NEW c \in Connections, Grant(c), Watch
      PROVE  IInv'
    BY <1>2, GrantStep
<1>3. CASE Tick
    BY <1>3, TickStep
<1>4. CASE UNCHANGED vars
    BY <1>4 DEF vars, IInv, TypeOK, QueueOK, StallOK, IsStalled
<1> QED BY <1>1, <1>2, <1>3, <1>4 DEF Next

\* IInv: in particular whoever waits for a connection is in the queue, once, so that the
\* pool forgets nobody and gives nobody two.
THEOREM PoolInvariance == Spec => []IInv
BY PoolInit, PoolNext, PTL DEF Spec

\* StallIsBounded: requests that hold every connection and wait for more block the
\* server for AcquireTimeout at most, whatever the size of the pool.
THEOREM StallsEnd == Spec => []StallIsBounded
<1>1. IInv => StallIsBounded
    BY DEF IInv, TypeOK, StallOK, StallIsBounded, IsStalled
<1> QED BY PoolInvariance, <1>1, PTL
=============================================================================
