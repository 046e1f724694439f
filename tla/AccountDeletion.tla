-------------------------- MODULE AccountDeletion --------------------------
(***************************************************************************)
(* delete_developer_account, statement by statement, against the requests  *)
(* that write to the same tables: agents that register, write and rate,    *)
(* owners who sign in or remove a memory, and other accounts that are      *)
(* deleted.  Its twelve DELETEs are written for the foreign keys of        *)
(* 0001_init.sql, which decide here: CASCADE takes along what appeared     *)
(* since the handler looked, RESTRICT and the CHECK on feedback turn the   *)
(* whole deletion into an error, and the row locks of the statements make  *)
(* requests wait for each other.                                           *)
(*                                                                         *)
(* PostgreSQL is part of the model.  Every statement has a snapshot of its *)
(* own and locks its rows one by one, in an order that nobody promises;    *)
(* it waits for a row that another transaction has changed and looks again *)
(* afterwards.  An INSERT locks the rows that it refers to FOR KEY SHARE.  *)
(* A row is its table and its references: no modelled decision reads more. *)
(***************************************************************************)
EXTENDS Naturals, Sequences, FiniteSets

CONSTANTS
    Ids,        \* row ids, of all tables
    Row,        \* what each of them is: [table, refs], refs by column
    Initial,    \* the rows that are there at first
    Requests,   \* requests that may arrive
    Work,       \* what each of them asks for
    Arrivals    \* bound of the model: the sets of requests that arrive together

\* A workspace_id that is no foreign key.
WorkspaceRuleMissing == "none"
\* Agents, memories and gaps go with their workspace.
WorkspaceRule == "cascade"

\* The foreign keys, by table and column.
Schema ==
    [developers         |-> << >>,
     workspaces         |-> [developer_id |-> "set_null"],
     developer_sessions |-> [developer_id |-> "cascade"],
     agents             |-> [workspace_id |-> WorkspaceRule],
     agent_keys         |-> [agent_id |-> "cascade"],
     memories           |-> [workspace_id |-> WorkspaceRule, author_agent_id |-> "restrict"],
     memory_evidence    |-> [memory_id |-> "cascade"],
     memory_relations   |-> [source_memory_id |-> "cascade", target_memory_id |-> "restrict"],
     memory_feedback    |-> [memory_id |-> "cascade", agent_id |-> "set_null",
                             developer_id |-> "set_null"],
     experience_gaps    |-> [workspace_id |-> WorkspaceRule, author_agent_id |-> "restrict"],
     gap_memory_links   |-> [gap_id |-> "cascade", memory_id |-> "cascade"]]

\* The table that a column refers to.
Named ==
    [developer_id |-> "developers", workspace_id |-> "workspaces", agent_id |-> "agents",
     author_agent_id |-> "agents", memory_id |-> "memories", source_memory_id |-> "memories",
     target_memory_id |-> "memories", gap_id |-> "experience_gaps"]

Tables == DOMAIN Schema
Rules == {"cascade", "restrict", "set_null"}
RowsOf == [table \in Tables |-> {r \in Ids : Row[r].table = table}]
Parents == [r \in Ids |-> {Row[r].refs[c] : c \in DOMAIN Row[r].refs}]
\* The rows that refer to r by a column of the given rule.
Referring ==
    [rule \in Rules |-> [r \in Ids |->
        {v \in Ids : \E c \in DOMAIN Row[v].refs :
            Row[v].refs[c] = r /\ Schema[Row[v].table][c] = rule}]]
\* The rows of a table that are, or refer to, one of the given.
Selected(S, table, ids) == {r \in S \cap RowsOf[table] : r \in ids \/ Parents[r] \cap ids # {}}
\* To delete a row of these fires the triggers of the tables that refer to it.
Referenced(r) ==
    Row[r].table \in {"developers", "workspaces", "agents", "memories", "experience_gaps"}

-----------------------------------------------------------------------------
(* What is asked for: `needs` are the rows that the handler looks up, in   *)
(* statements of their own, before it writes; `rows` are its INSERTs in    *)
(* their order.  A session s belongs to the developer it is used for, a    *)
(* key k to the author.                                                    *)

Kinds == {"delete_account", "remove_memory", "insert"}

DeleteAccount(d, s) ==
    [kind |-> "delete_account", subject |-> d, needs |-> {s, d}, rows |-> << >>]
RemoveMemory(m, s) ==
    [kind |-> "remove_memory", subject |-> m, needs |-> {s, m}, rows |-> << >>]
Insertion(needs, rows) ==
    [kind |-> "insert", subject |-> rows[1], needs |-> needs, rows |-> rows]

RegisterAgent(a, k) == Insertion(Parents[a], <<a, k>>)
Login(s) == Insertion(Parents[s], <<s>>)
CreateGap(g, k) == Insertion({k}, <<g>>)
CreateFeedback(f, k) == Insertion({k, Row[f].refs.memory_id}, <<f>>)
\* One memory with its evidence, its relations and its gap link.
InsertMemory(m, k, children) ==
    Insertion({k} \cup ((UNION {Parents[children[i]] : i \in DOMAIN children}) \ {m}),
              <<m>> \o children)

ASSUME RowsAssumption ==
    \A r \in Ids :
        /\ Row[r].table \in Tables
        /\ DOMAIN Row[r].refs \subseteq DOMAIN Schema[Row[r].table]
        /\ \A c \in DOMAIN Row[r].refs : Row[r].refs[c] \in RowsOf[Named[c]]
\* An agent writes in its own workspace: insert_memory and create_gap take both ids
\* from its key.
ASSUME AuthorsAssumption ==
    \A r \in RowsOf["memories"] \cup RowsOf["experience_gaps"] :
        /\ DOMAIN Row[r].refs = {"workspace_id", "author_agent_id"}
        /\ Row[r].refs.workspace_id \in Parents[Row[r].refs.author_agent_id]
\* A memory names others that exist already, and validate_memory_input refuses to have
\* it name one of them twice.
ASSUME RelationsAssumption ==
    \A r, v \in RowsOf["memory_relations"] : Parents[r] = Parents[v] => r = v
ASSUME InitialAssumption ==
    /\ Initial \subseteq Ids
    /\ \A r \in Initial : Parents[r] \subseteq Initial
\* Ids are drawn by the server: nobody inserts what exists or what another inserts.
\* An account has its workspace from its claim on, and gets no other.
ASSUME WorkAssumption ==
    \A t \in Requests :
        /\ Work[t].kind \in Kinds
        /\ Work[t].subject \in Ids
        /\ Work[t].rows \in Seq(Ids \ Initial)
        /\ Work[t].kind = "insert" <=> Work[t].rows # << >>
        /\ Work[t].kind = "delete_account" => Work[t].subject \in RowsOf["developers"]
        /\ Work[t].kind = "remove_memory" => Work[t].subject \in RowsOf["memories"]
        /\ \A i \in DOMAIN Work[t].rows :
              /\ Row[Work[t].rows[i]].table \notin {"developers", "workspaces"}
              /\ \A u \in Requests : \A j \in DOMAIN Work[u].rows :
                    Work[u].rows[j] = Work[t].rows[i] => u = t /\ j = i

VARIABLES
    live,       \* the committed rows
    tx          \* the requests in flight, each with its transaction

vars == <<live, tx>>

Modes == {"delete", "update", "share"}
\* FOR UPDATE, FOR NO KEY UPDATE and FOR KEY SHARE.
Clash(a, b) == "delete" \in {a, b} \/ (a = "update" /\ b = "update")

Running == {"between", "within"}                    \* statements
Ended == {"answered", "refused", "aborted"}         \* 2xx; an error of a constraint; anything else
States == {"away", "waiting"} \cup Running \cup Ended

\* `done` counts the statements that are complete.  Within one, `todo` are the rows
\* it has yet to lock; `fired` and `later` are the deleted rows whose triggers run in
\* this round and in the next.  `new` is what others have committed meanwhile.
Transactions ==
    [state : States, done : Nat, workspaces : SUBSET Ids, agents : SUBSET Ids,
     todo : SUBSET Ids, fired : SUBSET Ids, later : SUBSET Ids,
     held : [Modes -> SUBSET Ids], staged : SUBSET Ids, new : SUBSET Ids]
Fresh(state) ==
    [state |-> state, done |-> 0, workspaces |-> {}, agents |-> {},
     todo |-> {}, fired |-> {}, later |-> {},
     held |-> [mode \in Modes |-> {}], staged |-> {}, new |-> {}]

Deleted(t) == tx[t].held["delete"]
Seen(t) == (live \ Deleted(t)) \cup tx[t].staged
IsDeletion(t) == Work[t].kind = "delete_account"

-----------------------------------------------------------------------------
(* The statements.                                                         *)

\* The twelve DELETEs of delete_developer_account: of which table, and the rows of
\* which ids.
AccountStatements(t) ==
    LET dev == {Work[t].subject}
        ws == tx[t].workspaces
        agents == tx[t].agents
        memories == Selected(Seen(t), "memories", ws)
        gaps == Selected(Seen(t), "experience_gaps", ws)
    IN  << <<"memory_feedback", dev \cup agents>>,
           <<"memory_relations", memories>>,
           <<"memory_evidence", memories>>,
           <<"memory_feedback", memories>>,
           <<"gap_memory_links", gaps \cup memories>>,
           <<"memories", ws>>,
           <<"experience_gaps", ws>>,
           <<"agent_keys", agents>>,
           <<"agents", ws>>,
           <<"developer_sessions", dev>>,
           <<"workspaces", dev>>,
           <<"developers", dev>> >>

\* Relations before ratings, against the order of account deletion.
RemovalTablesCrossed ==
    <<"memory_evidence", "memory_relations", "memory_feedback", "gap_memory_links", "memories">>
\* The four DELETEs of remove_memory, and its UPDATE of the memory itself.
RemovalTables ==
    <<"memory_evidence", "memory_feedback", "memory_relations", "gap_memory_links", "memories">>

\* An INSERT locks the rows that its row refers to, but for its own transaction's.
TargetsAt(t, n) ==
    CASE Work[t].kind = "delete_account" ->
            LET statement == AccountStatements(t)[n] IN Selected(Seen(t), statement[1], statement[2])
      [] Work[t].kind = "remove_memory" -> Selected(Seen(t), RemovalTables[n], {Work[t].subject})
      [] Work[t].kind = "insert" -> Parents[Work[t].rows[n]] \ tx[t].staged
\* An account's memories deleted before the relations that name them, and those last.
TargetsMemoriesFirst(t) ==
    LET n == tx[t].done + 1
    IN  TargetsAt(t, CASE IsDeletion(t) /\ n = 2 -> 6 [] IsDeletion(t) /\ n = 6 -> 2 [] OTHER -> n)
\* The rows that the next statement of t locks.
Targets(t) == TargetsAt(t, tx[t].done + 1)
Length(t) ==
    CASE Work[t].kind = "delete_account" -> 12
      [] Work[t].kind = "remove_memory"  -> 5
      [] Work[t].kind = "insert"         -> Len(Work[t].rows)
\* How statement n of t locks its rows.
ModeAt(t, n) ==
    CASE Work[t].kind = "insert" -> "share"
      [] Work[t].kind = "remove_memory" /\ n = 5 -> "update"
      [] OTHER -> "delete"
Mode(t) == ModeAt(t, tx[t].done + 1)

-----------------------------------------------------------------------------
(* Locks and foreign keys.                                                 *)

\* The other transactions that t has to wait for before it locks r.
Holders(t, r) ==
    {u \in Requests \ {t} :
        \E mode \in Modes : r \in tx[u].held[mode] /\ Clash(Mode(t), mode)}

Children(t, r, rule) == (Referring[rule][r] \cap live) \ Deleted(t)
Doomed(v, t) == \E u \in Requests \ {t} : v \in Deleted(u)

\* What makes the deletion of r an error: a row that RESTRICT protects, unless its
\* own deletion is under way, and a feedback whose author would become NULL, against
\* the CHECK that it has one.  (A workspace may lose its developer, but the handler
\* deletes workspaces before developers.)
Objections(t, r) ==
    {v \in Children(t, r, "restrict") : ~ Doomed(v, t)}
        \cup {v \in Children(t, r, "set_null") : Row[v].table = "memory_feedback"}
Awaited(t, r) == {v \in Children(t, r, "restrict") : Doomed(v, t)}

\* A round of triggers is over: those of the rows it has deleted come next, and when
\* there are none the statement is complete.
Settled(x) ==
    IF x.todo # {} \/ x.fired # {} THEN x
    ELSE IF x.later # {} THEN [x EXCEPT !.fired = x.later, !.later = {}]
    ELSE [x EXCEPT !.state = "between", !.done = @ + 1]

\* t can do nothing but wait, among others for u.
Stuck(t) ==
    /\ tx[t].state = "within"
    /\ \/ tx[t].todo # {} /\ \A r \in tx[t].todo : r \in live /\ Holders(t, r) # {}
       \/ /\ tx[t].todo = {}
          /\ \A r \in tx[t].fired : Objections(t, r) = {} /\ Awaited(t, r) # {}
WaitsFor(t, u) ==
    \/ \E r \in tx[t].todo : u \in Holders(t, r)
    \/ tx[t].todo = {} /\ \E r \in tx[t].fired : Awaited(t, r) \cap Deleted(u) # {}
\* Circles of transactions that wait for each other: in each of these sets everyone
\* waits for another one of it, and no smaller set will do.
Deadlocks ==
    LET Closed == {D \in (SUBSET {t \in Requests : Stuck(t)}) \ {{}} :
                      \A t \in D : \E u \in D : WaitsFor(t, u)}
    IN  {D \in Closed : \A E \in Closed : E \subseteq D => E = D}

-----------------------------------------------------------------------------
Init ==
    /\ live = Initial
    /\ \E arriving \in Arrivals :
          tx = [t \in Requests |-> Fresh(IF t \in arriving THEN "waiting" ELSE "away")]

\* The handler looks up its caller and what the request names.  A deletion reads the
\* ids of the workspaces and of their agents, then begins.
Begin(t) ==
    LET workspaces == Selected(live, "workspaces", {Work[t].subject})
    IN  /\ tx[t].state = "waiting"
        /\ Work[t].needs \subseteq live
        /\ tx' = [tx EXCEPT ![t].state = "between",
                            ![t].workspaces = IF IsDeletion(t) THEN workspaces ELSE {},
                            ![t].agents = IF IsDeletion(t)
                                          THEN Selected(live, "agents", workspaces) ELSE {}]
        /\ UNCHANGED live

\* The next statement takes its snapshot; an INSERT writes its row.
StartStatement(t) ==
    /\ tx[t].state = "between"
    /\ tx[t].done < Length(t)
    /\ tx' = [tx EXCEPT ![t] = Settled(
                 [tx[t] EXCEPT !.state = "within",
                               !.todo = Targets(t),
                               !.staged = IF Work[t].kind = "insert"
                                          THEN @ \cup {Work[t].rows[tx[t].done + 1]} ELSE @])]
    /\ UNCHANGED live

\* The statement locks one more row, and a DELETE deletes it.
Take(t, r) ==
    /\ tx[t].state = "within"
    /\ r \in tx[t].todo \cap live
    /\ Holders(t, r) = {}
    /\ tx' = [tx EXCEPT ![t] = Settled(
                 [tx[t] EXCEPT !.todo = @ \ {r},
                               !.held[Mode(t)] = @ \cup {r},
                               !.later = IF Mode(t) = "delete" /\ Referenced(r)
                                         THEN @ \cup {r} ELSE @])]
    /\ UNCHANGED live

\* The row is gone when its turn comes: nothing is left to delete or update.
Pass(t, r) ==
    /\ tx[t].state = "within"
    /\ Work[t].kind # "insert"
    /\ r \in tx[t].todo \ live
    /\ tx' = [tx EXCEPT ![t] = Settled([tx[t] EXCEPT !.todo = @ \ {r}])]
    /\ UNCHANGED live

\* The triggers of a deleted row: nobody objects, and CASCADE deletes its children.
Fire(t, r) ==
    /\ tx[t].state = "within"
    /\ tx[t].todo = {}
    /\ r \in tx[t].fired
    /\ Objections(t, r) = {}
    /\ Awaited(t, r) = {}
    /\ tx' = [tx EXCEPT ![t] = Settled([tx[t] EXCEPT !.fired = @ \ {r},
                                                     !.todo = Children(t, r, "cascade")])]
    /\ UNCHANGED live

\* The transaction rolls back, and with it its locks go.
End(t, state) == tx' = [tx EXCEPT ![t] = Fresh(state)]

\* A constraint fails: the request is answered with an error.
Refuse(t) ==
    /\ tx[t].state = "within"
    /\ \/ tx[t].todo = {} /\ \E r \in tx[t].fired : Objections(t, r) # {}
       \/ Work[t].kind = "insert" /\ tx[t].todo \ live # {}
    /\ End(t, "refused")
    /\ UNCHANGED live

\* The client goes away and axum drops the handler, or what the request needs is gone.
Drop(t) ==
    /\ tx[t].state \in Running \cup {"waiting"}
    /\ End(t, "aborted")
    /\ UNCHANGED live

\* PostgreSQL ends a deadlock by aborting one of those who wait.
BreakDeadlock ==
    /\ \E t \in UNION Deadlocks : End(t, "aborted")
    /\ UNCHANGED live

Commit(t) ==
    /\ tx[t].state = "between"
    /\ tx[t].done = Length(t)
    /\ live' = (live \ Deleted(t)) \cup tx[t].staged
    /\ tx' = [u \in Requests |->
                 IF u = t THEN Fresh("answered")
                 ELSE IF tx[u].state \in Running /\ IsDeletion(u)
                      THEN [tx[u] EXCEPT !.new = @ \cup tx[t].staged]
                 ELSE tx[u]]

Next ==
    \/ \E t \in Requests :
          \/ Begin(t) \/ StartStatement(t) \/ Commit(t)
          \/ \E r \in tx[t].todo : Take(t, r) \/ Pass(t, r)
          \/ \E r \in tx[t].fired : Fire(t, r)
          \/ Refuse(t) \/ Drop(t)
    \/ BreakDeadlock

Spec == Init /\ [][Next]_vars

-----------------------------------------------------------------------------
TypeOK ==
    /\ live \subseteq Ids
    /\ tx \in [Requests -> Transactions]

\* The account of a developer: its workspaces and what lies in them.
Account ==
    [d \in RowsOf["developers"] |->
        LET ws == Selected(Ids, "workspaces", {d})
        IN  {d} \cup ws \cup UNION {Selected(Ids, table, ws) : table \in Tables}]

\* "account and all data deleted": once a deletion has answered, no row is part of the
\* account or names a part of it, whoever registered, wrote or rated meanwhile.
AccountLeavesNothing ==
    \A t \in Requests :
        IsDeletion(t) /\ tx[t].state = "answered" =>
            LET account == Account[Work[t].subject]
            IN  \A r \in live : r \notin account /\ Parents[r] \cap account = {}

\* The order of the twelve DELETEs satisfies every constraint: a deletion is refused
\* only when a row that names a part of the account was committed while it ran.
RefusedForNewRowsOnly ==
    [][\A t \in Requests :
          IsDeletion(t) /\ tx[t].state \in Running /\ tx'[t].state = "refused" =>
              \E v \in tx[t].new : Parents[v] \cap Account[Work[t].subject] # {}]_vars

\* What t finds of the account it deletes is all that there is.
Undisturbed(t) ==
    \A v \in tx[t].new : Parents[v] \cap Account[Work[t].subject] = {}

\* The handlers go through the tables they share in the same order: removals wait in a
\* circle only for rows of one table, which PostgreSQL locks in an order of its own, and
\* so do removals and the deletion of an account that the memories are no part of, unless
\* rows that name a part of it were committed while it ran.  Two removals do it only for
\* the same memory.
CirclesAreInOneTable ==
    \A D \in Deadlocks :
        LET deletions == {t \in D : IsDeletion(t)}
            removals == {u \in D : Work[u].kind = "remove_memory"}
        IN  /\ deletions = {} =>
                  /\ D = removals
                  /\ \A u, v \in D : D = {u, v} => Work[u].subject = Work[v].subject
            /\ removals # {}
               /\ (\A t \in deletions :
                      /\ deletions = {t}
                      /\ Undisturbed(t)
                      /\ \A u \in removals : Work[u].subject \notin Account[Work[t].subject])
               => \E table \in Tables :
                     \A u \in D : tx[u].todo # {} /\ tx[u].todo \subseteq RowsOf[table]
=============================================================================
