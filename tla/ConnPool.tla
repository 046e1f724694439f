------------------------------ MODULE ConnPool ------------------------------
(***************************************************************************)
(* The pool of database connections (lib.rs) under requests of two kinds.  *)
(* Most handlers take a connection for one statement or one transaction    *)
(* and ask for no other meanwhile.  create_memory and import_memories open *)
(* a transaction, and insert_memory then waits for an embedding and asks   *)
(* the pool for a second connection for each can_read_memory and           *)
(* can_read_gap: when every connection is held by a request that waits for *)
(* another one, only the timeout of the pool resolves it.                  *)
(*                                                                         *)
(* sqlx is part of the model: requests wait in the order they asked, and   *)
(* whoever has waited AcquireTimeout gets an error, rolls back and returns *)
(* what it holds.                                                          *)
(***************************************************************************)
EXTENDS Naturals, Sequences

CONSTANTS
    Connections,        \* the pool; max_connections(10)
    Requests,           \* slots of requests in flight
    Nobody,             \* who holds a connection that is free
    AcquireTimeout,     \* sqlx: 30 s
    MostAwaits          \* bound of the model: embeddings and checks of one request

ASSUME PoolAssumption ==
    /\ Connections # {}
    /\ Nobody \notin Requests
    /\ AcquireTimeout \in Nat \ {0}
    /\ MostAwaits \in Nat

VARIABLES
    holder,     \* who has each connection
    queue,      \* the requests that wait for one, in their order
    pc,         \* where each request is
    waited,     \* for how long it has been in the queue
    left,       \* the embeddings and checks it has still to go through
    stalled     \* history: for how long nobody but the clock could do anything

requests == <<queue, pc, waited, left>>
vars == <<holder, queue, pc, waited, left, stalled>>

States ==
    {"idle",
     "asking",      \* waits for a connection for a statement or transaction of its own
     "running",     \* has it, and asks for no other
     "beginning",   \* waits for the connection of an insert_memory transaction
     "embedding",   \* has it, and awaits the embedding or the INSERTs of an item
     "checking",    \* has it, and waits for a second one
     "reading"}     \* has both
Waiting == {"asking", "beginning", "checking"}

Free == {c \in Connections : holder[c] = Nobody}
Held(r) == {c \in Connections : holder[c] = r}

\* Every connection is held by a request that waits for another one.
IsStalled(h, p) == \A c \in Connections : h[c] \in Requests /\ p[h[c]] = "checking"

\* stalled starts over whenever a step of a request ends the stall.
Watch == stalled' = IF IsStalled(holder', pc') THEN stalled ELSE 0

Init ==
    /\ holder = [c \in Connections |-> Nobody]
    /\ queue = << >>
    /\ pc = [r \in Requests |-> "idle"]
    /\ waited = [r \in Requests |-> 0]
    /\ left = [r \in Requests |-> 0]
    /\ stalled = 0

\* r asks the pool for a connection and waits for it in `state`.
Enqueue(r, state) ==
    /\ pc' = [pc EXCEPT ![r] = state]
    /\ queue' = Append(queue, r)
    /\ waited' = [waited EXCEPT ![r] = 0]

\* A handler reaches its next statement, or a transaction without insert_memory.
Ask(r) ==
    /\ pc[r] = "idle"
    /\ Enqueue(r, "asking")
    /\ UNCHANGED <<holder, left>>

\* create_memory or import_memories, authenticated, validated and within its rate.
Begin(r) ==
    /\ pc[r] = "idle"
    /\ Enqueue(r, "beginning")
    /\ left' = [left EXCEPT ![r] = MostAwaits]
    /\ UNCHANGED holder

\* The pool gives a free connection to the first in the queue.
Grant(c) ==
    /\ queue # << >>
    /\ c \in Free
    /\ LET r == Head(queue)
       IN  /\ holder' = [holder EXCEPT ![c] = r]
           /\ pc' = [pc EXCEPT ![r] = CASE @ = "asking"    -> "running"
                                        [] @ = "beginning" -> "embedding"
                                        [] @ = "checking"  -> "reading"]
          /\ waited' = [waited EXCEPT ![r] = 0]
    /\ queue' = Tail(queue)
    /\ UNCHANGED left

\* The embedding, or its timeout, has come; the item has a relation or a gap to check.
Check(r) ==
    /\ pc[r] = "embedding"
    /\ left[r] > 0
    /\ left' = [left EXCEPT ![r] = @ - 1]
    /\ Enqueue(r, "checking")
    /\ UNCHANGED holder

\* The check has its answer and returns its connection.  What follows is the next
\* check, the INSERTs, the next item, or the end.
Checked(r, c) ==
    /\ pc[r] = "reading"
    /\ c \in Held(r)
    /\ holder' = [holder EXCEPT ![c] = Nobody]
    /\ pc' = [pc EXCEPT ![r] = "embedding"]
    /\ UNCHANGED <<queue, waited, left>>

\* The queue after r has left it.
Without(r) ==
    IF \E i \in 1 .. Len(queue) : queue[i] = r
    THEN LET i == CHOOSE i \in 1 .. Len(queue) : queue[i] = r
         IN  SubSeq(queue, 1, i - 1) \o SubSeq(queue, i + 1, Len(queue))
    ELSE queue

\* r returns what it holds and waits no more.
Release(r) ==
    /\ holder' = [c \in Connections |-> IF holder[c] = r THEN Nobody ELSE holder[c]]
    /\ queue' = Without(r)
    /\ pc' = [pc EXCEPT ![r] = "idle"]
    /\ waited' = [waited EXCEPT ![r] = 0]
    /\ left' = [left EXCEPT ![r] = 0]

\* The statement has returned, or the transaction has committed or failed.
Finish(r) == pc[r] \in {"running", "embedding"} /\ Release(r)

\* A pool that lets its callers wait for good.
TimeOutNever(r) == FALSE
\* A handler that tries again, with its transaction open.
TimeOutRetrying(r) ==
    /\ pc[r] \in Waiting
    /\ waited[r] = AcquireTimeout
    /\ waited' = [waited EXCEPT ![r] = 0]
    /\ UNCHANGED <<holder, queue, pc, left>>
\* PoolTimedOut: the handler returns an error and its transaction rolls back.
TimeOut(r) == pc[r] \in Waiting /\ waited[r] = AcquireTimeout /\ Release(r)

\* The client goes away and axum drops the handler, wherever it is.
Drop(r) == pc[r] # "idle" /\ Release(r)

\* Time passes, but for no waiter beyond its timeout.
Tick ==
    /\ \A r \in Requests : pc[r] \in Waiting => waited[r] < AcquireTimeout
    /\ waited' = [r \in Requests |-> IF pc[r] \in Waiting THEN waited[r] + 1 ELSE waited[r]]
    /\ stalled' = IF IsStalled(holder, pc) /\ stalled <= AcquireTimeout
                  THEN stalled + 1 ELSE stalled
    /\ UNCHANGED <<holder, queue, pc, left>>

Step(r) ==
    /\ \/ Ask(r) \/ Begin(r) \/ Check(r) \/ Finish(r) \/ TimeOut(r) \/ Drop(r)
       \/ \E c \in Connections : Checked(r, c)
    /\ Watch

Next ==
    \/ \E r \in Requests : Step(r)
    \/ \E c \in Connections : Grant(c) /\ Watch
    \/ Tick

Spec == Init /\ [][Next]_vars

\* Statements return and the http client ends every embedding (3 s); the pool serves
\* its queue; time passes.  Nobody has to ask, and no client to go away.
Fairness ==
    /\ WF_vars(Tick)
    /\ WF_vars(\E c \in Connections : Grant(c) /\ Watch)
    /\ \A r \in Requests :
          WF_vars((Finish(r) \/ TimeOut(r) \/ \E c \in Connections : Checked(r, c)) /\ Watch)
FairSpec == Spec /\ Fairness

-----------------------------------------------------------------------------
TypeOK ==
    /\ holder \in [Connections -> Requests \cup {Nobody}]
    /\ queue \in Seq(Requests)
    /\ pc \in [Requests -> States]
    /\ waited \in [Requests -> 0 .. AcquireTimeout]
    /\ left \in [Requests -> 0 .. MostAwaits]
    /\ stalled \in Nat

\* Whoever waits is in the queue, once, and nobody else is.
QueueOK ==
    /\ \A r \in Requests : pc[r] \in Waiting <=> \E i \in 1 .. Len(queue) : queue[i] = r
    /\ \A i, j \in 1 .. Len(queue) : queue[i] = queue[j] => i = j

\* A stall has lasted no longer than any of those who hold the connections has waited.
StallOK ==
    /\ stalled > 0 => IsStalled(holder, pc)
    /\ IsStalled(holder, pc) => \A c \in Connections : stalled <= waited[holder[c]]

IInv == TypeOK /\ QueueOK /\ StallOK

\* Creations that hold all connections and wait for more block every request of the
\* server, but for AcquireTimeout at most: the stall is never longer than the wait of
\* the one that has waited longest.
StallIsBounded == stalled <= AcquireTimeout

\* However many creations wait for each other, every request that waits for a
\* connection gets it or an error, and every request ends.
RequestsEnd == \A r \in Requests : pc[r] # "idle" ~> pc[r] = "idle"
=============================================================================
