------------------------ MODULE AccountDeletionProofs ------------------------
(***************************************************************************)
(* The foreign keys hold at every moment, a deleted account leaves         *)
(* nothing, only a row committed meanwhile has a deletion refused, and     *)
(* removals wait in a circle within one table only, for any rows, requests *)
(* and interleavings.                                                      *)
(***************************************************************************)
EXTENDS AccountDeletion, TLAPS

-----------------------------------------------------------------------------
(* The inductive invariant.  x is the transaction of t: tx[t], or what it  *)
(* is about to become.                                                     *)

\* Nothing is under way between statements, and nothing is held but in a transaction.
IdleOK(t, x) ==
    /\ x.state # "within" => x.todo = {} /\ x.fired = {} /\ x.later = {}
    /\ x.state \notin Running =>
          x.done = 0 /\ x.staged = {} /\ \A mode \in Modes : x.held[mode] = {}
    /\ x.done <= Length(t)
    /\ x.state = "within" => x.done < Length(t)

\* Locks are on rows that are there, and what one has deleted nobody else holds.
LocksOK(t, x) ==
    \A mode \in Modes : \A r \in x.held[mode] :
        /\ r \in live
        /\ \A u \in Requests \ {t} : r \notin Deleted(u)

\* What an INSERT refers to is in its own transaction, or locked, or about to be.
StagedOK(t, x) ==
    /\ Work[t].kind = "insert" => x.held["delete"] = {}
    /\ Work[t].kind # "insert" => x.staged = {}
    /\ \A w \in x.staged :
          /\ \E i \in DOMAIN Work[t].rows : Work[t].rows[i] = w
          /\ Parents[w] \subseteq x.staged \cup x.held["share"] \cup x.todo

\* What refers to a deleted row is deleted as well, or will be by a trigger or a lock to come.
ChildrenOK(t, x) ==
    /\ x.fired \cup x.later # {} => ModeAt(t, x.done + 1) = "delete"
    /\ \A r \in x.held["delete"], v \in live :
          r \in Parents[v] =>
              \/ v \in x.held["delete"]
              \/ v \in x.todo /\ ModeAt(t, x.done + 1) = "delete"
              \/ r \in x.fired \cup x.later

\* A developer is deleted by the last statement of an account deletion, its workspaces by
\* the one before: that is why no trigger has to set a developer to NULL.
DevelopersOK(t, x) ==
    /\ \A r \in (x.held["delete"] \cup x.todo) \cap RowsOf["developers"] :
          Work[t].kind # "insert" => IsDeletion(t) /\ r = Work[t].subject /\ x.done >= 11
    /\ IsDeletion(t) /\ x.state \in Running =>
          /\ \A w \in live \cap RowsOf["workspaces"] : Work[t].subject \in Parents[w] =>
                /\ x.done >= 11 => w \in x.held["delete"]
                /\ x.done = 10 /\ x.state = "within" => w \in x.held["delete"] \cup x.todo
          /\ Work[t].subject \in live =>
                /\ x.done = 12 => Work[t].subject \in x.held["delete"]
                /\ x.done = 11 /\ x.state = "within" =>
                      Work[t].subject \in x.held["delete"] \cup x.todo
    /\ IsDeletion(t) /\ x.state = "answered" => Work[t].subject \notin live

TxOK(t, x) ==
    IdleOK(t, x) /\ LocksOK(t, x) /\ StagedOK(t, x) /\ ChildrenOK(t, x) /\ DevelopersOK(t, x)

\* Rows are there from the beginning, or have been inserted by a request that is over.
LiveOK ==
    \A r \in live :
        \/ r \in Initial
        \/ \E t \in Requests :
              tx[t].state = "answered" /\ \E i \in DOMAIN Work[t].rows : Work[t].rows[i] = r

\* Every foreign key has its row.
KeysOK == \A r \in live : Parents[r] \subseteq live

IInv == TypeOK /\ LiveOK /\ KeysOK /\ \A t \in Requests : TxOK(t, tx[t])

-----------------------------------------------------------------------------
(* The schema and the work.                                                *)

LEMMA TablesAre ==
    Tables = {"developers", "workspaces", "developer_sessions", "agents", "agent_keys",
              "memories", "memory_evidence", "memory_relations", "memory_feedback",
              "experience_gaps", "gap_memory_links"}
BY DEF Tables, Schema

LEMMA RowsAre ==
    ASSUME NEW table \in Tables
    PROVE  RowsOf[table] = {r \in Ids : Row[r].table = table}
BY DEF RowsOf

\* The foreign keys, by rule: a row that others refer to goes by CASCADE only with its
\* workspace, RESTRICT protects the targets of relations and the authors of memories and
\* gaps, and NULL is what becomes of a workspace's owner and of the author of a feedback.
LEMMA Columns ==
    ASSUME NEW T \in Tables, NEW c \in DOMAIN Schema[T]
    PROVE  /\ c \in DOMAIN Named
           /\ T = "agents" => c = "workspace_id"
           /\ T = "workspaces" => c = "developer_id"
           /\ \/ /\ Schema[T][c] = "cascade"
                 /\ \/ T \in {"agents", "memories", "experience_gaps"} /\ c = "workspace_id"
                    \/ T \in {"developer_sessions", "agent_keys", "memory_evidence",
                               "memory_relations", "memory_feedback", "gap_memory_links"}
              \/ /\ Schema[T][c] = "restrict"
                 /\ \/ T = "memory_relations" /\ c = "target_memory_id"
                    \/ T \in {"memories", "experience_gaps"} /\ c = "author_agent_id"
              \/ /\ Schema[T][c] = "set_null"
                 /\ \/ T = "workspaces"
                    \/ T = "memory_feedback" /\ c \in {"agent_id", "developer_id"}
<1>0. DOMAIN Named = {"developer_id", "workspace_id", "agent_id", "author_agent_id", "memory_id",
                      "source_memory_id", "target_memory_id", "gap_id"}
    BY DEF Named
<1>1. CASE T = "developers"
  <2>1. DOMAIN Schema["developers"] = {}
    BY DEF Schema, WorkspaceRule
  <2> QED BY <1>1, <2>1
<1>2. CASE T = "workspaces"
  <2>1. Schema["workspaces"] = [developer_id |-> "set_null"]
    BY DEF Schema, WorkspaceRule
  <2>2. c = "developer_id"
    BY <1>2, <2>1
  <2> QED BY <1>0, <1>2, <2>1, <2>2
<1>3. CASE T = "developer_sessions"
  <2>1. Schema["developer_sessions"] = [developer_id |-> "cascade"]
    BY DEF Schema, WorkspaceRule
  <2>2. c = "developer_id"
    BY <1>3, <2>1
  <2> QED BY <1>0, <1>3, <2>1, <2>2
<1>4. CASE T = "agents"
  <2>1. Schema["agents"] = [workspace_id |-> "cascade"]
    BY DEF Schema, WorkspaceRule
  <2>2. c = "workspace_id"
    BY <1>4, <2>1
  <2> QED BY <1>0, <1>4, <2>1, <2>2
<1>5. CASE T = "agent_keys"
  <2>1. Schema["agent_keys"] = [agent_id |-> "cascade"]
    BY DEF Schema, WorkspaceRule
  <2>2. c = "agent_id"
    BY <1>5, <2>1
  <2> QED BY <1>0, <1>5, <2>1, <2>2
<1>6. CASE T = "memories"
  <2>1. Schema["memories"] = [workspace_id |-> "cascade", author_agent_id |-> "restrict"]
    BY DEF Schema, WorkspaceRule
  <2>2. c \in {"workspace_id", "author_agent_id"}
    BY <1>6, <2>1
  <2>3. CASE c = "workspace_id"
    BY <1>0, <1>6, <2>1, <2>3
  <2>4. CASE c = "author_agent_id"
    BY <1>0, <1>6, <2>1, <2>4
  <2> QED BY <2>2, <2>3, <2>4
<1>7. CASE T = "memory_evidence"
  <2>1. Schema["memory_evidence"] = [memory_id |-> "cascade"]
    BY DEF Schema, WorkspaceRule
  <2>2. c = "memory_id"
    BY <1>7, <2>1
  <2> QED BY <1>0, <1>7, <2>1, <2>2
<1>8. CASE T = "memory_relations"
  <2>1. Schema["memory_relations"] =
           [source_memory_id |-> "cascade", target_memory_id |-> "restrict"]
    BY DEF Schema, WorkspaceRule
  <2>2. c \in {"source_memory_id", "target_memory_id"}
    BY <1>8, <2>1
  <2>3. CASE c = "source_memory_id"
    BY <1>0, <1>8, <2>1, <2>3
  <2>4. CASE c = "target_memory_id"
    BY <1>0, <1>8, <2>1, <2>4
  <2> QED BY <2>2, <2>3, <2>4
<1>9. CASE T = "memory_feedback"
  <2>1. Schema["memory_feedback"] =
           [memory_id |-> "cascade", agent_id |-> "set_null", developer_id |-> "set_null"]
    BY DEF Schema, WorkspaceRule
  <2>2. c \in {"memory_id", "agent_id", "developer_id"}
    BY <1>9, <2>1
  <2>3. CASE c = "memory_id"
    BY <1>0, <1>9, <2>1, <2>3
  <2>4. CASE c = "agent_id"
    BY <1>0, <1>9, <2>1, <2>4
  <2>5. CASE c = "developer_id"
    BY <1>0, <1>9, <2>1, <2>5
  <2> QED BY <2>2, <2>3, <2>4, <2>5
<1>10. CASE T = "experience_gaps"
  <2>1. Schema["experience_gaps"] = [workspace_id |-> "cascade", author_agent_id |-> "restrict"]
    BY DEF Schema, WorkspaceRule
  <2>2. c \in {"workspace_id", "author_agent_id"}
    BY <1>10, <2>1
  <2>3. CASE c = "workspace_id"
    BY <1>0, <1>10, <2>1, <2>3
  <2>4. CASE c = "author_agent_id"
    BY <1>0, <1>10, <2>1, <2>4
  <2> QED BY <2>2, <2>3, <2>4
<1>11. CASE T = "gap_memory_links"
  <2>1. Schema["gap_memory_links"] = [gap_id |-> "cascade", memory_id |-> "cascade"]
    BY DEF Schema, WorkspaceRule
  <2>2. c \in {"gap_id", "memory_id"}
    BY <1>11, <2>1
  <2>3. CASE c = "gap_id"
    BY <1>0, <1>11, <2>1, <2>3
  <2>4. CASE c = "memory_id"
    BY <1>0, <1>11, <2>1, <2>4
  <2> QED BY <2>2, <2>3, <2>4
<1> QED BY TablesAre, <1>1, <1>2, <1>3, <1>4, <1>5, <1>6, <1>7, <1>8, <1>9, <1>10, <1>11

LEMMA NamedIs ==
    ASSUME NEW c \in DOMAIN Named
    PROVE  /\ Named[c] \in {"developers", "workspaces", "agents", "memories", "experience_gaps"}
           /\ c = "developer_id" => Named[c] = "developers"
           /\ c = "workspace_id" => Named[c] = "workspaces"
           /\ c \in {"agent_id", "author_agent_id"} => Named[c] = "agents"
           /\ c = "target_memory_id" => Named[c] = "memories"
<1>1. c \in {"developer_id", "workspace_id", "agent_id", "author_agent_id", "memory_id",
            "source_memory_id", "target_memory_id", "gap_id"}
    BY DEF Named
<1>2. CASE c = "developer_id"
    BY <1>2 DEF Named
<1>3. CASE c = "workspace_id"
    BY <1>3 DEF Named
<1>4. CASE c = "agent_id"
    BY <1>4 DEF Named
<1>5. CASE c = "author_agent_id"
    BY <1>5 DEF Named
<1>6. CASE c = "memory_id"
    BY <1>6 DEF Named
<1>7. CASE c = "source_memory_id"
    BY <1>7 DEF Named
<1>8. CASE c = "target_memory_id"
    BY <1>8 DEF Named
<1>9. CASE c = "gap_id"
    BY <1>9 DEF Named
<1> QED BY <1>1, <1>2, <1>3, <1>4, <1>5, <1>6, <1>7, <1>8, <1>9

\* A row refers to a row of the table that its column names.
LEMMA References ==
    ASSUME NEW r \in Ids, NEW c \in DOMAIN Row[r].refs
    PROVE  /\ Row[r].table \in Tables /\ c \in DOMAIN Schema[Row[r].table]
           /\ Row[r].refs[c] \in Ids
           /\ Row[Row[r].refs[c]].table = Named[c]
           /\ Row[r].refs[c] \in Parents[r]
<1>1. Row[r].table \in Tables /\ c \in DOMAIN Schema[Row[r].table]
    BY RowsAssumption
<1>2. Named[c] \in Tables
    BY <1>1, Columns, NamedIs, TablesAre
<1>3. Row[r].refs[c] \in RowsOf[Named[c]]
    BY RowsAssumption
<1> QED BY <1>1, <1>2, <1>3, RowsAre DEF Parents

LEMMA ReferringIs ==
    ASSUME NEW r \in Ids, NEW rule \in Rules
    PROVE  Referring[rule][r] =
               {v \in Ids : \E c \in DOMAIN Row[v].refs :
                   Row[v].refs[c] = r /\ Schema[Row[v].table][c] = rule}
BY DEF Referring

\* Every reference has one of the three rules.
LEMMA ChildrenHaveRules ==
    ASSUME NEW r \in Ids, NEW v \in Ids, r \in Parents[v]
    PROVE  \E rule \in Rules : v \in Referring[rule][r]
<1>1. PICK c \in DOMAIN Row[v].refs : Row[v].refs[c] = r
    BY DEF Parents
<1>2. Schema[Row[v].table][c] \in Rules
    BY References, Columns DEF Rules
<1> QED BY <1>1, <1>2, ReferringIs

LEMMA ReferringRefers ==
    ASSUME NEW r \in Ids, NEW rule \in Rules, NEW v \in Referring[rule][r]
    PROVE  v \in Ids /\ r \in Parents[v]
BY ReferringIs DEF Parents

\* A row whose reference becomes NULL is a workspace or a feedback of an agent or a developer.
LEMMA SetNullRows ==
    ASSUME NEW r \in Ids, NEW v \in Referring["set_null"][r]
    PROVE  /\ Row[v].table \in {"workspaces", "memory_feedback"}
           /\ Row[v].table = "memory_feedback" => Row[r].table \in {"agents", "developers"}
<1>1. PICK c \in DOMAIN Row[v].refs :
         v \in Ids /\ Row[v].refs[c] = r /\ Schema[Row[v].table][c] = "set_null"
    BY ReferringIs DEF Rules
<1>2. /\ Row[v].table \in {"workspaces", "memory_feedback"}
      /\ Row[v].table = "memory_feedback" => c \in {"agent_id", "developer_id"}
    BY <1>1, References, Columns
<1> QED BY <1>1, <1>2, References, Columns, NamedIs

\* Developers refer to nothing, workspaces to developers.
LEMMA DevelopersReferToNothing ==
    ASSUME NEW r \in RowsOf["developers"]
    PROVE  Parents[r] = {}
<1>1. r \in Ids /\ Row[r].table = "developers"
    BY RowsAre, TablesAre
<1>2. DOMAIN Row[r].refs \subseteq DOMAIN Schema["developers"]
    BY <1>1, RowsAssumption
<1>3. DOMAIN Schema["developers"] = {}
    BY DEF Schema, WorkspaceRule
<1> QED BY <1>1, <1>2, <1>3 DEF Parents

LEMMA WorkspacesReferToDevelopers ==
    ASSUME NEW r \in RowsOf["workspaces"]
    PROVE  Parents[r] \subseteq RowsOf["developers"]
<1>1. r \in Ids /\ Row[r].table = "workspaces"
    BY RowsAre, TablesAre
<1>2. ASSUME NEW c \in DOMAIN Row[r].refs
      PROVE  Row[r].refs[c] \in RowsOf["developers"]
    BY <1>1, References, Columns, NamedIs, RowsAre, TablesAre
<1> QED BY <1>1, <1>2 DEF Parents

LEMMA ParentsAreReferenced ==
    ASSUME NEW r \in Ids
    PROVE  /\ Parents[r] \subseteq Ids
           /\ \A p \in Parents[r] : Referenced(p)
<1>1. ASSUME NEW c \in DOMAIN Row[r].refs
      PROVE  Row[r].refs[c] \in Ids /\ Referenced(Row[r].refs[c])
    BY References, Columns, NamedIs DEF Referenced
<1> QED BY <1>1 DEF Parents

\* What a request inserts is new, its own, and no developer and no workspace.
LEMMA InsertedRows ==
    ASSUME NEW t \in Requests, NEW i \in DOMAIN Work[t].rows
    PROVE  LET w == Work[t].rows[i]
           IN  /\ w \in Ids \ Initial
               /\ w \notin RowsOf["developers"] /\ w \notin RowsOf["workspaces"]
               /\ \A u \in Requests : \A j \in DOMAIN Work[u].rows : Work[u].rows[j] = w => u = t
<1>1. Work[t].rows \in Seq(Ids \ Initial)
    BY WorkAssumption
<1>2. Work[t].rows[i] \in Ids \ Initial
    BY <1>1
<1> QED BY <1>2, WorkAssumption, RowsAre, TablesAre

LEMMA LengthType == ASSUME NEW t \in Requests PROVE Length(t) \in Nat
<1>1. Work[t].rows \in Seq(Ids \ Initial) /\ Work[t].kind \in Kinds
    BY WorkAssumption
<1> QED BY <1>1 DEF Length, Kinds

LEMMA DeletionLength == ASSUME NEW t \in Requests, IsDeletion(t) PROVE Length(t) = 12
BY DEF Length, IsDeletion

LEMMA ModeTypes ==
    ASSUME NEW t \in Requests, NEW n
    PROVE  /\ ModeAt(t, n) \in Modes
           /\ Work[t].kind = "insert" => ModeAt(t, n) = "share"
           /\ IsDeletion(t) => ModeAt(t, n) = "delete"
BY DEF ModeAt, Modes, IsDeletion

LEMMA FreshType ==
    ASSUME NEW state \in States
    PROVE  /\ Fresh(state) \in Transactions
           /\ Fresh(state).state = state
           /\ Fresh(state).done = 0
           /\ Fresh(state).todo = {} /\ Fresh(state).fired = {} /\ Fresh(state).later = {}
           /\ Fresh(state).staged = {} /\ Fresh(state).new = {}
           /\ \A mode \in Modes : Fresh(state).held[mode] = {}
BY DEF Fresh, Transactions

\* A statement goes on, or all its rows and triggers are done with.
LEMMA SettledIs ==
    ASSUME NEW x \in Transactions, x.state = "within"
    PROVE  /\ Settled(x) \in Transactions
           /\ Settled(x).held = x.held /\ Settled(x).staged = x.staged
           /\ Settled(x).new = x.new /\ Settled(x).todo = x.todo
           /\ Settled(x).workspaces = x.workspaces /\ Settled(x).agents = x.agents
           /\ Settled(x).fired \cup Settled(x).later = x.fired \cup x.later
           /\ \/ Settled(x).state = "within" /\ Settled(x).done = x.done
              \/ /\ Settled(x).state = "between" /\ Settled(x).done = x.done + 1
                 /\ x.todo = {} /\ x.fired = {} /\ x.later = {}
                 /\ Settled(x).fired = {} /\ Settled(x).later = {}
<1>1. CASE x.todo # {} \/ x.fired # {}
    BY <1>1 DEF Settled
<1>2. CASE x.todo = {} /\ x.fired = {} /\ x.later # {}
    BY <1>2 DEF Settled, Transactions
<1>3. CASE x.todo = {} /\ x.fired = {} /\ x.later = {}
  <2>1. Settled(x) = [x EXCEPT !.state = "between", !.done = @ + 1]
      BY <1>3 DEF Settled
  <2>2. x.done + 1 \in Nat /\ "between" \in States
      BY DEF Transactions, States, Running
  <2> QED BY <1>3, <2>1, <2>2 DEF Transactions
<1> QED BY <1>1, <1>2, <1>3

-----------------------------------------------------------------------------
(* A step within a statement, whatever it is, keeps the invariant if the   *)
(* transaction x that it makes of tx[t] keeps its own part of it.          *)

LEMMA Inner ==
    ASSUME IInv, NEW t \in Requests, NEW x \in Transactions,
           tx[t].state \in Running, tx[t].done < Length(t),
           x.state = "within", x.done = tx[t].done,
           LocksOK(t, x), StagedOK(t, x), ChildrenOK(t, x), DevelopersOK(t, x),
           \A u \in Requests \ {t} : \A mode \in Modes : \A r \in tx[u].held[mode] :
               r \notin x.held["delete"],
           tx' = [tx EXCEPT ![t] = Settled(x)], UNCHANGED live
    PROVE  IInv'
<1> DEFINE y == Settled(x)
<1>1. /\ tx \in [Requests -> Transactions] /\ live \subseteq Ids
      /\ tx' \in [Requests -> Transactions]
      /\ tx'[t] = y
      /\ \A u \in Requests \ {t} : tx'[u] = tx[u]
    BY SettledIs DEF IInv, TypeOK
<1>2. /\ y \in Transactions
      /\ y.held = x.held /\ y.staged = x.staged /\ y.todo = x.todo
      /\ y.fired \cup y.later = x.fired \cup x.later
      /\ \/ y.state = "within" /\ y.done = x.done
         \/ /\ y.state = "between" /\ y.done = x.done + 1
            /\ x.todo = {} /\ x.fired = {} /\ x.later = {} /\ y.fired = {} /\ y.later = {}
    BY SettledIs
<1>3. x.done \in Nat /\ Length(t) \in Nat
    BY LengthType DEF Transactions
<1> HIDE DEF y
<1>4. TypeOK'
    BY <1>1 DEF TypeOK
<1>5. LiveOK'
    BY <1>1 DEF IInv, LiveOK, Running
<1>6. KeysOK'
    BY DEF IInv, KeysOK
<1>7. ASSUME NEW u \in Requests \ {t}
      PROVE  TxOK(u, tx[u])'
  <2>1. TxOK(u, tx[u]) /\ tx'[u] = tx[u]
      BY <1>1 DEF IInv
  <2>2. IdleOK(u, tx[u])' /\ StagedOK(u, tx[u])' /\ ChildrenOK(u, tx[u])'
      BY <2>1 DEF TxOK, IdleOK, StagedOK, ChildrenOK
  <2>3. DevelopersOK(u, tx[u])'
      BY <2>1 DEF TxOK, DevelopersOK
  <2>4. LocksOK(u, tx[u])'
      BY <1>1, <1>2, <2>1 DEF TxOK, LocksOK, Deleted
  <2> QED BY <2>2, <2>3, <2>4 DEF TxOK
<1>8. TxOK(t, tx[t])'
  <2>1. IdleOK(t, y)
      BY <1>2, <1>3 DEF IdleOK, Running
  <2>2. LocksOK(t, y)'
      BY <1>1, <1>2 DEF LocksOK, Deleted
  <2>3. StagedOK(t, y)
      BY <1>2 DEF StagedOK
  <2>4. ChildrenOK(t, y)
      BY <1>2 DEF ChildrenOK
  <2>5. DevelopersOK(t, y)
      BY <1>2, <1>3 DEF DevelopersOK, Running
  <2> QED BY <1>1, <2>1, <2>2, <2>3, <2>4, <2>5 DEF TxOK, IdleOK, StagedOK, ChildrenOK, DevelopersOK
<1> QED BY <1>4, <1>5, <1>6, <1>7, <1>8 DEF IInv

-----------------------------------------------------------------------------
(* The statements of a deletion.                                           *)

\* Only the last deletes developers: the account's.
LEMMA LastStatements ==
    ASSUME NEW t \in Requests, IsDeletion(t), NEW n \in 1 .. 12
    PROVE  /\ n = 11 => TargetsAt(t, n) = Selected(Seen(t), "workspaces", {Work[t].subject})
           /\ n = 12 => TargetsAt(t, n) = Selected(Seen(t), "developers", {Work[t].subject})
           /\ n # 12 => TargetsAt(t, n) \cap RowsOf["developers"] = {}
<1> DEFINE S == AccountStatements(t)[n]
<1>1. TargetsAt(t, n) = Selected(Seen(t), S[1], S[2])
    BY DEF TargetsAt, IsDeletion
<1>2. /\ n = 11 => S = <<"workspaces", {Work[t].subject}>>
      /\ n = 12 => S = <<"developers", {Work[t].subject}>>
    BY DEF AccountStatements
<1>3. n # 12 => S[1] \in Tables \ {"developers"}
    BY TablesAre DEF AccountStatements
<1> HIDE DEF S
<1>4. ASSUME NEW T \in Tables \ {"developers"}, NEW ids
      PROVE  Selected(Seen(t), T, ids) \cap RowsOf["developers"] = {}
    BY RowsAre, TablesAre DEF Selected
<1> QED BY <1>1, <1>2, <1>3, <1>4

\* No other request deletes developers.
LEMMA RemovalTargets ==
    ASSUME NEW t \in Requests, Work[t].kind = "remove_memory", NEW n \in 1 .. 5
    PROVE  TargetsAt(t, n) \cap RowsOf["developers"] = {}
<1>1. TargetsAt(t, n) = Selected(Seen(t), RemovalTables[n], {Work[t].subject})
    BY DEF TargetsAt
<1>2. RemovalTables[n] \in Tables \ {"developers"}
    BY TablesAre DEF RemovalTables
<1> QED BY <1>1, <1>2, RowsAre, TablesAre DEF Selected

LEMMA TargetsType ==
    ASSUME IInv, NEW t \in Requests, NEW n \in 1 .. Length(t)
    PROVE  TargetsAt(t, n) \subseteq Ids
<1>1. Seen(t) \subseteq Ids
    BY DEF IInv, TypeOK, Seen, Transactions
<1>2. Work[t].kind \in Kinds /\ Work[t].rows \in Seq(Ids \ Initial)
    BY WorkAssumption
<1>3. CASE Work[t].kind = "insert"
  <2>1. Work[t].rows[n] \in Ids
      BY <1>2, <1>3 DEF Length
  <2> QED BY <1>3, <2>1, ParentsAreReferenced DEF TargetsAt
<1>4. CASE Work[t].kind = "delete_account"
    BY <1>1, <1>4 DEF TargetsAt, Selected
<1>5. CASE Work[t].kind = "remove_memory"
    BY <1>1, <1>5 DEF TargetsAt, Selected
<1> QED BY <1>2, <1>3, <1>4, <1>5 DEF Kinds

LEMMA StartStatementStep ==
    ASSUME IInv, NEW t \in Requests, StartStatement(t)
    PROVE  IInv'
<1> DEFINE n == tx[t].done + 1
           x == [tx[t] EXCEPT !.state = "within", !.todo = Targets(t),
                              !.staged = IF Work[t].kind = "insert"
                                         THEN @ \cup {Work[t].rows[n]} ELSE @]
<1>1. /\ tx[t] \in Transactions /\ tx[t].done \in Nat /\ Length(t) \in Nat
      /\ tx[t].state = "between" /\ tx[t].done < Length(t)
      /\ TxOK(t, tx[t]) /\ tx[t].staged \subseteq Ids
    BY LengthType DEF IInv, TypeOK, StartStatement, Transactions
<1>2. /\ tx[t].todo = {} /\ tx[t].fired = {} /\ tx[t].later = {}
      /\ n \in 1 .. Length(t)
    BY <1>1 DEF TxOK, IdleOK
<1>3. Work[t].kind \in Kinds /\ Work[t].rows \in Seq(Ids \ Initial)
    BY WorkAssumption
<1>4. Work[t].kind = "insert" => n \in DOMAIN Work[t].rows /\ Work[t].rows[n] \in Ids
    BY <1>2, <1>3 DEF Length
<1>5. Targets(t) = TargetsAt(t, n) /\ Targets(t) \subseteq Ids
    BY <1>2, TargetsType DEF Targets
<1>6. /\ x \in Transactions
      /\ x.state = "within" /\ x.done = tx[t].done /\ x.held = tx[t].held
      /\ x.fired = {} /\ x.later = {} /\ x.todo = TargetsAt(t, n)
      /\ x.staged = IF Work[t].kind = "insert"
                    THEN tx[t].staged \cup {Work[t].rows[n]} ELSE tx[t].staged
    BY <1>1, <1>2, <1>4, <1>5 DEF Transactions, States, Running
<1>7. tx' = [tx EXCEPT ![t] = Settled(x)] /\ UNCHANGED live
    BY DEF StartStatement
<1> HIDE DEF x
<1>8. LocksOK(t, x)
    BY <1>1, <1>6 DEF TxOK, LocksOK
<1>9. StagedOK(t, x)
  <2>1. StagedOK(t, tx[t])
      BY <1>1 DEF TxOK
  <2>2. CASE Work[t].kind = "insert"
    <3>1. x.todo = Parents[Work[t].rows[n]] \ tx[t].staged
        BY <1>6, <2>2 DEF TargetsAt
    <3> QED BY <1>2, <1>4, <1>6, <2>1, <2>2, <3>1 DEF StagedOK
  <2>3. CASE Work[t].kind # "insert"
      BY <1>6, <2>1, <2>3 DEF StagedOK
  <2> QED BY <2>2, <2>3
<1>10. ChildrenOK(t, x)
    BY <1>1, <1>2, <1>6 DEF TxOK, ChildrenOK
<1>11. DevelopersOK(t, x)
  <2>1. DevelopersOK(t, tx[t]) /\ tx[t].state \in Running
      BY <1>1 DEF TxOK, Running
  <2>2. CASE Work[t].kind = "insert"
      BY <1>6, <2>1, <2>2 DEF DevelopersOK, IsDeletion
  <2>3. CASE Work[t].kind = "remove_memory"
    <3>1. x.todo \cap RowsOf["developers"] = {}
        BY <1>2, <1>6, <2>3, RemovalTargets DEF Length
    <3> QED BY <1>2, <1>6, <2>1, <2>3, <3>1 DEF DevelopersOK, IsDeletion
  <2>4. CASE IsDeletion(t)
    <3>1. n \in 1 .. 12 /\ Work[t].kind # "insert"
        BY <1>2, <2>4, DeletionLength DEF IsDeletion
    <3>2. \A r \in (x.held["delete"] \cup x.todo) \cap RowsOf["developers"] :
              r = Work[t].subject /\ x.done >= 11
      <4>1. CASE n # 12
          BY <1>1, <1>2, <1>6, <2>1, <2>4, <3>1, <4>1, LastStatements DEF DevelopersOK
      <4>2. CASE n = 12
        <5>1. \A r \in RowsOf["developers"] : Parents[r] = {}
            BY DevelopersReferToNothing
        <5>2. x.todo = Selected(Seen(t), "developers", {Work[t].subject})
            BY <1>6, <2>4, <3>1, <4>2, LastStatements
        <5>3. x.done = 11
            BY <1>1, <1>6, <4>2
        <5> QED BY <1>2, <1>6, <2>1, <2>4, <3>1, <5>1, <5>2, <5>3 DEF DevelopersOK, Selected
      <4> QED BY <4>1, <4>2
    <3>3. ASSUME NEW w \in live \cap RowsOf["workspaces"], Work[t].subject \in Parents[w]
          PROVE  /\ x.done >= 11 => w \in x.held["delete"]
                 /\ x.done = 10 => w \in x.held["delete"] \cup x.todo
      <4>1. x.done >= 11 => w \in x.held["delete"]
          BY <1>6, <2>1, <2>4, <3>3 DEF DevelopersOK
      <4>2. ASSUME x.done = 10
            PROVE  w \in x.held["delete"] \cup x.todo
        <5>1. x.todo = Selected(Seen(t), "workspaces", {Work[t].subject})
            BY <1>6, <2>4, <3>1, <4>2, LastStatements
        <5> QED BY <1>6, <3>3, <5>1 DEF Selected, Seen, Deleted
      <4> QED BY <4>1, <4>2
    <3>4. ASSUME Work[t].subject \in live
          PROVE  /\ x.done # 12
                 /\ x.done = 11 => Work[t].subject \in x.held["delete"] \cup x.todo
      <4>1. x.done # 12
          BY <1>1, <1>6, <2>4, DeletionLength
      <4>2. ASSUME x.done = 11
            PROVE  Work[t].subject \in x.held["delete"] \cup x.todo
        <5>1. x.todo = Selected(Seen(t), "developers", {Work[t].subject})
            BY <1>6, <2>4, <3>1, <4>2, LastStatements
        <5>2. Work[t].subject \in RowsOf["developers"]
            BY <2>4, WorkAssumption DEF IsDeletion
        <5> QED BY <1>6, <3>4, <5>1, <5>2 DEF Selected, Seen, Deleted
      <4> QED BY <4>1, <4>2
    <3> QED BY <1>6, <2>4, <3>2, <3>3, <3>4 DEF DevelopersOK
  <2> QED BY <1>3, <2>2, <2>3, <2>4 DEF Kinds, IsDeletion
<1>12. \A u \in Requests \ {t} : \A mode \in Modes : \A r \in tx[u].held[mode] :
          r \notin x.held["delete"]
    BY <1>6 DEF IInv, TxOK, LocksOK, Deleted
<1> QED BY <1>1, <1>6, <1>7, <1>8, <1>9, <1>10, <1>11, <1>12, Inner DEF Running
LEMMA TakeStep ==
    ASSUME IInv, NEW t \in Requests, NEW r \in tx[t].todo, Take(t, r)
    PROVE  IInv'
<1> DEFINE mode == ModeAt(t, tx[t].done + 1)
           x == [tx[t] EXCEPT !.todo = @ \ {r},
                              !.held[Mode(t)] = @ \cup {r},
                              !.later = IF Mode(t) = "delete" /\ Referenced(r)
                                        THEN @ \cup {r} ELSE @]
<1>1. /\ tx[t] \in Transactions /\ tx[t].state = "within" /\ TxOK(t, tx[t])
      /\ tx[t].done < Length(t) /\ r \in live /\ r \in Ids
      /\ tx[t].held \in [Modes -> SUBSET Ids]
    BY DEF IInv, TypeOK, Take, TxOK, IdleOK, Transactions
<1>2. mode \in Modes /\ Mode(t) = mode
    BY ModeTypes DEF Mode
<1> HIDE DEF mode
<1>3. /\ x.held = [tx[t].held EXCEPT ![mode] = @ \cup {r}]
      /\ x.later = IF mode = "delete" /\ Referenced(r) THEN tx[t].later \cup {r} ELSE tx[t].later
      /\ x.state = "within" /\ x.done = tx[t].done /\ x.staged = tx[t].staged
      /\ x.fired = tx[t].fired /\ x.todo = tx[t].todo \ {r}
    BY <1>1, <1>2 DEF Transactions
<1>4. x \in Transactions
  <2>1. x.held \in [Modes -> SUBSET Ids]
      BY <1>1, <1>2, <1>3
  <2>2. x.later \in SUBSET Ids /\ x.todo \in SUBSET Ids
      BY <1>1, <1>3 DEF Transactions
  <2> QED BY <1>1, <1>2, <2>1, <2>2 DEF Transactions
<1>5. tx' = [tx EXCEPT ![t] = Settled(x)] /\ UNCHANGED live /\ Holders(t, r) = {}
    BY DEF Take
<1> HIDE DEF x
<1>6. \A m \in Modes : x.held[m] = IF m = mode THEN tx[t].held[m] \cup {r} ELSE tx[t].held[m]
    BY <1>1, <1>2, <1>3
<1>7. \A u \in Requests \ {t} : \A m \in Modes : r \in tx[u].held[m] => ~ Clash(mode, m)
    BY <1>2, <1>5 DEF Holders
<1>8. \A u \in Requests \ {t} : r \notin Deleted(u)
    BY <1>7 DEF Deleted, Clash, Modes
<1>9. "delete" \in Modes /\ "share" \in Modes
    BY DEF Modes
<1>10. LocksOK(t, x)
    BY <1>1, <1>6, <1>8 DEF TxOK, LocksOK
<1>11. StagedOK(t, x)
  <2>1. CASE Work[t].kind = "insert"
    <3>1. mode = "share"
        BY <2>1, ModeTypes DEF mode
    <3> QED BY <1>1, <1>3, <1>6, <1>9, <2>1, <3>1 DEF TxOK, StagedOK
  <2>2. CASE Work[t].kind # "insert"
      BY <1>1, <1>3, <2>2 DEF TxOK, StagedOK
  <2> QED BY <2>1, <2>2
<1>12. ChildrenOK(t, x)
  <2>1. ChildrenOK(t, tx[t])
      BY <1>1 DEF TxOK
  <2>2. ModeAt(t, x.done + 1) = mode
      BY <1>3 DEF mode
  <2>3. CASE mode = "delete"
    <3>1. \A v \in live : r \in Parents[v] => r \in x.later
        BY <1>3, <2>3, ParentsAreReferenced DEF IInv, TypeOK
    <3> QED BY <1>3, <1>6, <1>9, <2>1, <2>2, <2>3, <3>1 DEF ChildrenOK
  <2>4. CASE mode # "delete"
      BY <1>3, <1>6, <1>9, <2>1, <2>2, <2>4 DEF ChildrenOK
  <2> QED BY <2>3, <2>4
<1>13. DevelopersOK(t, x)
  <2>1. DevelopersOK(t, tx[t]) /\ tx[t].state \in Running
      BY <1>1 DEF TxOK, Running
  <2>2. x.held["delete"] \cup x.todo \subseteq tx[t].held["delete"] \cup tx[t].todo
      BY <1>3, <1>6, <1>9
  <2>3. tx[t].held["delete"] \subseteq x.held["delete"]
      BY <1>6, <1>9
  <2>4. IsDeletion(t) => tx[t].held["delete"] \cup tx[t].todo \subseteq x.held["delete"] \cup x.todo
    <3>1. IsDeletion(t) => mode = "delete"
        BY ModeTypes DEF mode
    <3> QED BY <1>3, <1>6, <1>9, <3>1
  <2> QED BY <1>1, <1>3, <2>1, <2>2, <2>3, <2>4 DEF DevelopersOK
<1>14. \A u \in Requests \ {t} : \A m \in Modes : \A v \in tx[u].held[m] : v \notin x.held["delete"]
  <2>1. \A u \in Requests \ {t} : \A m \in Modes : \A v \in tx[u].held[m] : v \notin tx[t].held["delete"]
      BY DEF IInv, TxOK, LocksOK, Deleted
  <2>2. CASE mode = "delete"
      BY <1>6, <1>7, <1>9, <2>1, <2>2 DEF Clash
  <2>3. CASE mode # "delete"
      BY <1>6, <1>9, <2>1, <2>3
  <2> QED BY <2>2, <2>3
<1> QED BY <1>1, <1>3, <1>4, <1>5, <1>10, <1>11, <1>12, <1>13, <1>14, Inner DEF Running

LEMMA PassStep ==
    ASSUME IInv, NEW t \in Requests, NEW r \in tx[t].todo, Pass(t, r)
    PROVE  IInv'
<1> DEFINE x == [tx[t] EXCEPT !.todo = @ \ {r}]
<1>1. /\ tx[t] \in Transactions /\ tx[t].state = "within" /\ TxOK(t, tx[t])
      /\ tx[t].done < Length(t) /\ r \notin live /\ Work[t].kind # "insert"
    BY DEF IInv, TypeOK, Pass, TxOK, IdleOK
<1>2. /\ x \in Transactions
      /\ x.held = tx[t].held /\ x.todo = tx[t].todo \ {r} /\ x.state = "within"
      /\ x.done = tx[t].done /\ x.staged = tx[t].staged
      /\ x.fired = tx[t].fired /\ x.later = tx[t].later
    BY <1>1 DEF Transactions
<1>3. tx' = [tx EXCEPT ![t] = Settled(x)] /\ UNCHANGED live
    BY DEF Pass
<1> HIDE DEF x
<1>4. LocksOK(t, x) /\ StagedOK(t, x)
    BY <1>1, <1>2 DEF TxOK, LocksOK, StagedOK
<1>5. ChildrenOK(t, x)
    BY <1>1, <1>2 DEF TxOK, ChildrenOK
<1>6. DevelopersOK(t, x)
    BY <1>1, <1>2 DEF TxOK, DevelopersOK, Running
<1>7. \A u \in Requests \ {t} : \A m \in Modes : \A v \in tx[u].held[m] : v \notin x.held["delete"]
    BY <1>2 DEF IInv, TxOK, LocksOK, Deleted
<1> QED BY <1>1, <1>2, <1>3, <1>4, <1>5, <1>6, <1>7, Inner DEF Running

LEMMA FireStep ==
    ASSUME IInv, NEW t \in Requests, NEW r \in tx[t].fired, Fire(t, r)
    PROVE  IInv'
<1> DEFINE x == [tx[t] EXCEPT !.fired = @ \ {r}, !.todo = Children(t, r, "cascade")]
<1>1. /\ tx[t] \in Transactions /\ tx[t].state = "within" /\ TxOK(t, tx[t])
      /\ tx[t].done < Length(t) /\ tx[t].todo = {} /\ r \in Ids
      /\ "cascade" \in Rules /\ "restrict" \in Rules /\ "set_null" \in Rules
    BY DEF IInv, TypeOK, Fire, TxOK, IdleOK, Rules, Transactions
<1>2. Children(t, r, "cascade") \subseteq Ids
    BY DEF Children, IInv, TypeOK
<1>3. /\ x \in Transactions
      /\ x.held = tx[t].held /\ x.todo = Children(t, r, "cascade") /\ x.state = "within"
      /\ x.done = tx[t].done /\ x.staged = tx[t].staged
      /\ x.fired = tx[t].fired \ {r} /\ x.later = tx[t].later
    BY <1>1, <1>2 DEF Transactions
<1>4. /\ tx' = [tx EXCEPT ![t] = Settled(x)] /\ UNCHANGED live
      /\ Objections(t, r) = {} /\ Awaited(t, r) = {}
    BY DEF Fire
<1> HIDE DEF x
<1>5. LocksOK(t, x) /\ StagedOK(t, x)
    BY <1>1, <1>3 DEF TxOK, LocksOK, StagedOK
\* What refers to r and stays is a row that CASCADE takes: nobody objects, and a workspace
\* would have gone before its developer.
<1>6. ChildrenOK(t, x)
  <2>1. ChildrenOK(t, tx[t]) /\ DevelopersOK(t, tx[t])
      BY <1>1 DEF TxOK
  <2>2. ModeAt(t, x.done + 1) = "delete"
      BY <1>3, <2>1 DEF ChildrenOK
  <2>3. ASSUME NEW v \in live, r \in Parents[v], r \in tx[t].held["delete"],
               v \notin tx[t].held["delete"]
        PROVE  v \in Children(t, r, "cascade")
    <3>1. v \in Ids
        BY DEF IInv, TypeOK
    <3>2. \A rule \in Rules : v \in Referring[rule][r] => v \in Children(t, r, rule)
        BY <2>3 DEF Children, Deleted
    <3>3. v \notin Children(t, r, "restrict")
        BY <1>4 DEF Objections, Awaited
    <3>4. v \notin Referring["set_null"][r]
      <4>1. SUFFICES ASSUME v \in Referring["set_null"][r]
                     PROVE  FALSE
          OBVIOUS
      <4>2. Row[v].table = "workspaces"
          BY <1>1, <1>4, <3>2, <4>1, SetNullRows DEF Objections
      <4>3. r \in RowsOf["developers"] /\ v \in RowsOf["workspaces"]
          BY <2>3, <3>1, <4>2, WorkspacesReferToDevelopers, RowsAre, TablesAre
      <4>4. Work[t].kind # "insert"
          BY <1>1, <2>3 DEF TxOK, StagedOK
      <4>5. IsDeletion(t) /\ r = Work[t].subject /\ tx[t].done >= 11
          BY <2>1, <2>3, <4>3, <4>4 DEF DevelopersOK
      <4>6. tx[t].state \in Running
          BY <1>1 DEF Running
      <4> QED BY <2>1, <2>3, <4>3, <4>5, <4>6 DEF DevelopersOK
    <3>5. PICK rule \in Rules : v \in Referring[rule][r]
        BY <1>1, <2>3, <3>1, ChildrenHaveRules
    <3> QED BY <3>2, <3>3, <3>4, <3>5 DEF Rules
  <2> QED BY <1>1, <1>3, <2>1, <2>2, <2>3 DEF ChildrenOK
<1>7. DevelopersOK(t, x)
  <2>1. \A v \in Children(t, r, "cascade") : r \in Parents[v]
      BY <1>1, ReferringRefers DEF Children
  <2>2. x.todo \cap RowsOf["developers"] = {}
      BY <1>3, <2>1, DevelopersReferToNothing
  <2> QED BY <1>1, <1>3, <2>2 DEF TxOK, DevelopersOK, Running
<1>8. \A u \in Requests \ {t} : \A m \in Modes : \A v \in tx[u].held[m] : v \notin x.held["delete"]
    BY <1>3 DEF IInv, TxOK, LocksOK, Deleted
<1> QED BY <1>1, <1>3, <1>4, <1>5, <1>6, <1>7, <1>8, Inner DEF Running
-----------------------------------------------------------------------------
(* The steps that begin and end a transaction.                             *)

LEMMA BeginStep ==
    ASSUME IInv, NEW t \in Requests, Begin(t)
    PROVE  IInv'
<1> DEFINE workspaces == Selected(live, "workspaces", {Work[t].subject})
           begun == [tx[t] EXCEPT !.state = "between",
                                  !.workspaces = IF IsDeletion(t) THEN workspaces ELSE {},
                                  !.agents = IF IsDeletion(t)
                                             THEN Selected(live, "agents", workspaces) ELSE {}]
<1>1. /\ tx \in [Requests -> Transactions] /\ live \subseteq Ids /\ tx[t] \in Transactions
      /\ tx[t].state = "waiting" /\ TxOK(t, tx[t])
    BY DEF IInv, TypeOK, Begin
<1>2. workspaces \subseteq Ids /\ Selected(live, "agents", workspaces) \subseteq Ids
    BY <1>1 DEF Selected
<1>3. tx' = [tx EXCEPT ![t] = begun] /\ UNCHANGED live
    BY DEF Begin
<1>4. PICK y \in Transactions :
         /\ tx' = [tx EXCEPT ![t] = y]
         /\ y.state = "between" /\ y.done = tx[t].done /\ y.held = tx[t].held
         /\ y.staged = tx[t].staged /\ y.todo = tx[t].todo
         /\ y.fired = tx[t].fired /\ y.later = tx[t].later
  <2>1. /\ begun \in Transactions
        /\ begun.state = "between" /\ begun.done = tx[t].done /\ begun.held = tx[t].held
        /\ begun.staged = tx[t].staged /\ begun.todo = tx[t].todo
        /\ begun.fired = tx[t].fired /\ begun.later = tx[t].later
      BY <1>1, <1>2 DEF Transactions, States, Running
  <2> HIDE DEF begun
  <2> QED BY <1>3, <2>1
<1> HIDE DEF begun
<1>5. tx' \in [Requests -> Transactions] /\ tx'[t] = y /\ \A u \in Requests \ {t} : tx'[u] = tx[u]
    BY <1>1, <1>4
<1>6. /\ tx[t].done = 0 /\ \A mode \in Modes : tx[t].held[mode] = {}
      /\ tx[t].staged = {} /\ tx[t].todo = {} /\ tx[t].fired = {} /\ tx[t].later = {}
    BY <1>1 DEF TxOK, IdleOK, Running
<1>7. \A u \in Requests : \A mode \in Modes : tx'[u].held[mode] = tx[u].held[mode]
    BY <1>4, <1>5
<1>8. TypeOK' /\ LiveOK' /\ KeysOK'
    BY <1>1, <1>3, <1>4, <1>5 DEF IInv, TypeOK, LiveOK, KeysOK
<1>9. ASSUME NEW u \in Requests \ {t}
      PROVE  TxOK(u, tx[u])'
    BY <1>3, <1>5, <1>7
       DEF IInv, TxOK, IdleOK, LocksOK, StagedOK, ChildrenOK, DevelopersOK, Deleted, Modes
<1>10. "delete" \in Modes
    BY DEF Modes
<1>11. TxOK(t, tx[t])'
  <2>1. IdleOK(t, y)
      BY <1>4, <1>6, LengthType DEF IdleOK, Running
  <2>2. LocksOK(t, y)' /\ StagedOK(t, y) /\ ChildrenOK(t, y)'
      BY <1>3, <1>4, <1>6, <1>10 DEF LocksOK, StagedOK, ChildrenOK
  <2>3. DevelopersOK(t, y)'
      BY <1>4, <1>6, <1>10 DEF DevelopersOK
  <2> QED BY <1>5, <2>1, <2>2, <2>3 DEF TxOK, IdleOK, StagedOK
<1> QED BY <1>8, <1>9, <1>11 DEF IInv

\* A transaction that is rolled back leaves nothing behind.
LEMMA EndStep ==
    ASSUME IInv, NEW t \in Requests, NEW state \in {"refused", "aborted"},
           tx[t].state \in Running \cup {"waiting"}, End(t, state), UNCHANGED live
    PROVE  IInv'
<1> DEFINE y == Fresh(state)
<1>1. /\ tx \in [Requests -> Transactions] /\ tx' = [tx EXCEPT ![t] = y]
      /\ state \in States /\ state \notin Running /\ state # "answered" /\ state # "within"
    BY DEF IInv, TypeOK, End, States, Running, Ended
<1>2. /\ y \in Transactions /\ y.state = state /\ y.done = 0 /\ y.staged = {}
      /\ y.todo = {} /\ y.fired = {} /\ y.later = {}
      /\ \A mode \in Modes : y.held[mode] = {}
    BY <1>1, FreshType
<1> HIDE DEF y
<1>3. tx' \in [Requests -> Transactions] /\ tx'[t] = y /\ \A u \in Requests \ {t} : tx'[u] = tx[u]
    BY <1>1, <1>2
<1>4. TypeOK' /\ LiveOK' /\ KeysOK'
    BY <1>1, <1>3 DEF IInv, TypeOK, LiveOK, KeysOK, Running
<1>5. "delete" \in Modes
    BY DEF Modes
<1>6. ASSUME NEW u \in Requests \ {t}
      PROVE  TxOK(u, tx[u])'
    BY <1>2, <1>3, <1>5
       DEF IInv, TxOK, IdleOK, LocksOK, StagedOK, ChildrenOK, DevelopersOK, Deleted
<1>7. TxOK(t, tx[t])'
  <2>1. IdleOK(t, y)
      BY <1>1, <1>2, LengthType DEF IdleOK
  <2>2. LocksOK(t, y)' /\ StagedOK(t, y) /\ ChildrenOK(t, y)'
      BY <1>2, <1>5 DEF LocksOK, StagedOK, ChildrenOK
  <2>3. DevelopersOK(t, y)'
      BY <1>1, <1>2, <1>5 DEF DevelopersOK
  <2> QED BY <1>3, <2>1, <2>2, <2>3 DEF TxOK, IdleOK, StagedOK
<1> QED BY <1>4, <1>6, <1>7 DEF IInv

\* What t commits is new, and what it refers to stays.
LEMMA StagedRows ==
    ASSUME IInv, NEW t \in Requests, tx[t].state = "between", NEW w \in tx[t].staged
    PROVE  /\ w \in Ids /\ w \notin live
           /\ w \notin RowsOf["developers"] /\ w \notin RowsOf["workspaces"]
           /\ \A p \in Parents[w] :
                 p \in tx[t].staged \/ (p \in live /\ \A u \in Requests : p \notin Deleted(u))
<1>1. TxOK(t, tx[t]) /\ tx[t].todo = {}
    BY DEF IInv, TxOK, IdleOK
<1>2. PICK i \in DOMAIN Work[t].rows : Work[t].rows[i] = w
    BY <1>1 DEF TxOK, StagedOK
<1>3. Work[t].kind = "insert"
    BY <1>1 DEF TxOK, StagedOK
<1>4. \A p \in Parents[w] : p \in tx[t].staged \/ p \in tx[t].held["share"]
    BY <1>1 DEF TxOK, StagedOK
<1>5. "share" \in Modes /\ Deleted(t) = {}
    BY <1>1, <1>3 DEF Modes, Deleted, TxOK, StagedOK
<1>6. \A p \in tx[t].held["share"] : p \in live /\ \A u \in Requests : p \notin Deleted(u)
    BY <1>1, <1>5 DEF TxOK, LocksOK
<1>7. w \notin live
    BY <1>2, InsertedRows DEF IInv, LiveOK
<1> QED BY <1>2, <1>4, <1>6, <1>7, InsertedRows

LEMMA CommitStep ==
    ASSUME IInv, NEW t \in Requests, Commit(t)
    PROVE  IInv'
<1> DEFINE y == Fresh("answered")
<1>1. /\ tx \in [Requests -> Transactions] /\ live \subseteq Ids
      /\ tx[t].state = "between" /\ tx[t].done = Length(t) /\ TxOK(t, tx[t])
      /\ live' = (live \ Deleted(t)) \cup tx[t].staged
      /\ tx[t].todo = {} /\ tx[t].fired = {} /\ tx[t].later = {}
      /\ "answered" \in States /\ "answered" \notin Running /\ "delete" \in Modes
    BY DEF IInv, TypeOK, Commit, TxOK, IdleOK, States, Running, Ended, Modes
<1>2. /\ y \in Transactions /\ y.state = "answered" /\ y.done = 0 /\ y.staged = {}
      /\ y.todo = {} /\ y.fired = {} /\ y.later = {}
      /\ \A mode \in Modes : y.held[mode] = {}
    BY <1>1, FreshType
<1> HIDE DEF y
<1>3. /\ tx' \in [Requests -> Transactions] /\ tx'[t] = y
      /\ \A u \in Requests \ {t} :
            /\ tx'[u].state = tx[u].state /\ tx'[u].done = tx[u].done /\ tx'[u].held = tx[u].held
            /\ tx'[u].staged = tx[u].staged /\ tx'[u].todo = tx[u].todo
            /\ tx'[u].fired = tx[u].fired /\ tx'[u].later = tx[u].later
  <2>1. tx' = [u \in Requests |->
                  IF u = t THEN y
                  ELSE IF tx[u].state \in Running /\ IsDeletion(u)
                       THEN [tx[u] EXCEPT !.new = @ \cup tx[t].staged]
                  ELSE tx[u]]
      BY DEF Commit, y
  <2>2. ASSUME NEW u \in Requests
        PROVE  /\ [tx[u] EXCEPT !.new = @ \cup tx[t].staged] \in Transactions
               /\ tx[u] \in Transactions
      BY <1>1 DEF Transactions
  <2> QED BY <1>2, <2>1, <2>2 DEF Transactions
<1>4. \A w \in tx[t].staged :
         /\ w \in Ids /\ w \notin live
         /\ w \notin RowsOf["developers"] /\ w \notin RowsOf["workspaces"]
         /\ \A p \in Parents[w] :
               p \in tx[t].staged \/ (p \in live /\ \A u \in Requests : p \notin Deleted(u))
    BY <1>1, StagedRows
<1>5. TypeOK'
    BY <1>1, <1>3, <1>4 DEF TypeOK
<1>6. LiveOK'
  <2>1. \A w \in tx[t].staged : \E i \in DOMAIN Work[t].rows : Work[t].rows[i] = w
      BY <1>1 DEF TxOK, StagedOK
  <2> QED BY <1>1, <1>2, <1>3, <2>1 DEF IInv, LiveOK
<1>7. KeysOK'
  <2>1. ASSUME NEW r \in live, r \notin Deleted(t), NEW p \in Parents[r]
        PROVE  p \in live'
      BY <1>1, <2>1 DEF IInv, KeysOK, TxOK, ChildrenOK, Deleted
  <2> QED BY <1>1, <1>4, <2>1 DEF KeysOK
<1>8. ASSUME NEW u \in Requests \ {t}
      PROVE  TxOK(u, tx[u])'
  <2>1. TxOK(u, tx[u])
      BY DEF IInv
  <2>2. IdleOK(u, tx[u])' /\ StagedOK(u, tx[u])'
      BY <1>3, <2>1 DEF TxOK, IdleOK, StagedOK
  <2>3. LocksOK(u, tx[u])'
      BY <1>1, <1>2, <1>3, <2>1 DEF TxOK, LocksOK, Deleted
  <2>4. ChildrenOK(u, tx[u])'
    <3>1. \A r \in Deleted(u) : r \in live
        BY <1>1, <2>1 DEF TxOK, LocksOK, Deleted
    <3>2. \A r \in Deleted(u), v \in tx[t].staged : r \notin Parents[v]
        BY <1>4, <3>1
    <3> QED BY <1>1, <1>3, <2>1, <3>2 DEF TxOK, ChildrenOK, Deleted
  <2>5. DevelopersOK(u, tx[u])'
    <3>1. IsDeletion(u) => Work[u].subject \in RowsOf["developers"]
        BY WorkAssumption DEF IsDeletion
    <3>2. /\ live' \cap RowsOf["workspaces"] \subseteq live
          /\ IsDeletion(u) /\ Work[u].subject \in live' => Work[u].subject \in live
        BY <1>1, <1>4, <3>1
    <3>3. DevelopersOK(u, tx[u])
        BY <2>1 DEF TxOK
    <3> QED BY <1>3, <3>2, <3>3 DEF DevelopersOK
  <2> QED BY <2>2, <2>3, <2>4, <2>5 DEF TxOK
<1>9. TxOK(t, tx[t])'
  <2>1. IdleOK(t, y)
      BY <1>1, <1>2, LengthType DEF IdleOK
  <2>2. LocksOK(t, y)' /\ StagedOK(t, y) /\ ChildrenOK(t, y)'
      BY <1>1, <1>2 DEF LocksOK, StagedOK, ChildrenOK
  <2>3. DevelopersOK(t, y)'
    <3>1. ASSUME IsDeletion(t)
          PROVE  Work[t].subject \notin live'
      <4>1. tx[t].done = 12 /\ tx[t].state \in Running
          BY <1>1, <3>1, DeletionLength DEF Running
      <4>2. Work[t].subject \in live => Work[t].subject \in Deleted(t)
          BY <1>1, <3>1, <4>1 DEF TxOK, DevelopersOK, Deleted
      <4>3. Work[t].subject \in RowsOf["developers"]
          BY <3>1, WorkAssumption DEF IsDeletion
      <4> QED BY <1>1, <1>4, <4>2, <4>3
    <3> QED BY <1>1, <1>2, <3>1 DEF DevelopersOK
  <2> QED BY <1>3, <2>1, <2>2, <2>3 DEF TxOK, IdleOK, StagedOK
<1> QED BY <1>5, <1>6, <1>7, <1>8, <1>9 DEF IInv

-----------------------------------------------------------------------------
(* The theorems.                                                           *)

LEMMA InitInv == Init => IInv
<1> SUFFICES ASSUME Init PROVE IInv
    OBVIOUS
<1>1. PICK arriving \in Arrivals :
         tx = [t \in Requests |-> Fresh(IF t \in arriving THEN "waiting" ELSE "away")]
    BY DEF Init
<1>2. ASSUME NEW t \in Requests
      PROVE  /\ tx[t] \in Transactions /\ tx[t].state \in {"waiting", "away"}
             /\ tx[t].done = 0 /\ tx[t].staged = {}
             /\ tx[t].todo = {} /\ tx[t].fired = {} /\ tx[t].later = {}
             /\ \A mode \in Modes : tx[t].held[mode] = {}
  <2>1. PICK state \in {"waiting", "away"} : tx[t] = Fresh(state)
      BY <1>1
  <2> QED BY <2>1, FreshType DEF States
<1>3. TypeOK /\ LiveOK /\ KeysOK
  <2>1. tx \in [Requests -> Transactions]
      BY <1>1, <1>2
  <2> QED BY <2>1, InitialAssumption DEF Init, TypeOK, LiveOK, KeysOK
<1>4. ASSUME NEW t \in Requests
      PROVE  TxOK(t, tx[t])
  <2>1. IdleOK(t, tx[t])
      BY <1>2, LengthType DEF IdleOK, Running
  <2>2. "delete" \in Modes
      BY DEF Modes
  <2> QED BY <1>2, <2>1, <2>2 DEF TxOK, LocksOK, StagedOK, ChildrenOK, DevelopersOK, Running
<1> QED BY <1>3, <1>4 DEF IInv

LEMMA NextInv == IInv /\ [Next]_vars => IInv'
<1> SUFFICES ASSUME IInv, [Next]_vars PROVE IInv'
    OBVIOUS
<1>1. ASSUME NEW t \in Requests, Begin(t) PROVE IInv'
    BY <1>1, BeginStep
<1>2. ASSUME NEW t \in Requests, StartStatement(t) PROVE IInv'
    BY <1>2, StartStatementStep
<1>3. ASSUME NEW t \in Requests, Commit(t) PROVE IInv'
    BY <1>3, CommitStep
<1>4. ASSUME NEW t \in Requests, NEW r \in tx[t].todo, Take(t, r) PROVE IInv'
    BY <1>4, TakeStep
<1>5. ASSUME NEW t \in Requests, NEW r \in tx[t].todo, Pass(t, r) PROVE IInv'
    BY <1>5, PassStep
<1>6. ASSUME NEW t \in Requests, NEW r \in tx[t].fired, Fire(t, r) PROVE IInv'
    BY <1>6, FireStep
<1>7. ASSUME NEW t \in Requests, Refuse(t) PROVE IInv'
    BY <1>7, EndStep DEF Refuse, Running
<1>8. ASSUME NEW t \in Requests, Drop(t) PROVE IInv'
    BY <1>8, EndStep DEF Drop
<1>9. ASSUME BreakDeadlock PROVE IInv'
  <2>1. PICK t \in UNION Deadlocks : End(t, "aborted") /\ UNCHANGED live
      BY <1>9 DEF BreakDeadlock
  <2>2. t \in Requests /\ Stuck(t)
      BY DEF Deadlocks
  <2> QED BY <2>1, <2>2, EndStep DEF Stuck, Running
<1>10. CASE UNCHANGED vars
    BY <1>10 DEF vars, IInv, TypeOK, LiveOK, KeysOK, TxOK, IdleOK, LocksOK, StagedOK,
                 ChildrenOK, DevelopersOK, Deleted
<1> QED BY <1>1, <1>2, <1>3, <1>4, <1>5, <1>6, <1>7, <1>8, <1>9, <1>10 DEF Next

\* Whatever the requests and however their statements interleave, every foreign key has its
\* row, what is held is there, and the trigger of no DELETE finds a developer's workspace.
THEOREM DeletionInvariance == Spec => []IInv
<1>1. Init => IInv
    BY InitInv
<1>2. IInv /\ [Next]_vars => IInv'
    BY NextInv
<1> QED BY <1>1, <1>2, PTL DEF Spec

\* When a deletion has answered, no row is part of the account or names a part of it.
THEOREM NothingIsLeft == Spec => []AccountLeavesNothing
<1>1. IInv => AccountLeavesNothing
  <2> SUFFICES ASSUME IInv, NEW t \in Requests, IsDeletion(t), tx[t].state = "answered",
                      NEW r \in live
               PROVE  LET account == Account[Work[t].subject]
                      IN  r \notin account /\ Parents[r] \cap account = {}
      BY DEF AccountLeavesNothing
  <2> DEFINE d == Work[t].subject
             ws == Selected(Ids, "workspaces", {d})
  <2>1. d \in RowsOf["developers"] /\ d \notin live
      BY WorkAssumption DEF IsDeletion, IInv, TxOK, DevelopersOK
  <2>2. Account[d] = {d} \cup ws \cup UNION {Selected(Ids, table, ws) : table \in Tables}
      BY <2>1 DEF Account
  <2>3. ASSUME NEW w \in ws \cap live
        PROVE  FALSE
    <3>1. w \in RowsOf["workspaces"] /\ (w = d \/ d \in Parents[w])
        BY DEF Selected
    <3>2. w # d
        BY <2>1, <3>1, RowsAre, TablesAre
    <3> QED BY <2>1, <3>1, <3>2 DEF IInv, KeysOK
  <2>4. ASSUME NEW v \in live
        PROVE  v \notin Account[d]
    <3>1. \A table \in Tables : v \notin Selected(Ids, table, ws)
        BY <2>3 DEF Selected, IInv, KeysOK
    <3> QED BY <2>1, <2>2, <2>3, <3>1
  <2> QED BY <2>4 DEF IInv, KeysOK
<1> QED BY <1>1, DeletionInvariance, PTL
-----------------------------------------------------------------------------
(* A deletion is refused for new rows only.                                *)

\* The workspaces of the account that t deletes, and all of the account.
Homes(t) == Selected(Ids, "workspaces", {Work[t].subject})
Ours(t) == Account[Work[t].subject]
InHomes(t, r) == Parents[r] \cap Homes(t) # {}
\* r names a memory, a gap of the account.
OwnMemory(t, r) == \E p \in Parents[r] \cap RowsOf["memories"] : InHomes(t, p)
OwnGap(t, r) == \E p \in Parents[r] \cap RowsOf["experience_gaps"] : InHomes(t, p)

\* Nothing that names a part of the account was committed while t runs.
Quiet(t, x) == \A v \in x.new : Parents[v] \cap Ours(t) = {}

\* The n-th statement deletes v, if it is there: ratings by the account, relations of its
\* memories, links of these or of its gaps, its memories, its gaps.
Swept(t, v, n) ==
    \/ /\ n = 1 /\ v \in RowsOf["memory_feedback"]
       /\ \E p \in Parents[v] :
             p = Work[t].subject \/ (p \in RowsOf["agents"] /\ InHomes(t, p))
    \/ n = 2 /\ v \in RowsOf["memory_relations"] /\ OwnMemory(t, v)
    \/ n = 5 /\ v \in RowsOf["gap_memory_links"] /\ (OwnMemory(t, v) \/ OwnGap(t, v))
    \/ n = 6 /\ v \in RowsOf["memories"] /\ InHomes(t, v)
    \/ n = 7 /\ v \in RowsOf["experience_gaps"] /\ InHomes(t, v)

\* What the handler read before it began: all workspaces, and all agents but the new.
ScopeOK(t, x) ==
    /\ x.workspaces \subseteq Homes(t)
    /\ live \cap Homes(t) \subseteq x.workspaces
    /\ \A a \in live \cap RowsOf["agents"] : InHomes(t, a) => a \in x.agents \cup x.new

\* Rows that others refer to are deleted late: memories and gaps from the sixth statement
\* on, agents, workspaces and the developer from the ninth on.  All are of the account.
LevelsOK(t, x) ==
    /\ \A r \in x.held["delete"] \cup x.todo :
          Referenced(r) =>
              /\ r \in Ours(t) /\ x.done >= 5
              /\ Row[r].table \notin {"memories", "experience_gaps"} => x.done >= 8
    /\ \A r \in x.fired \cup x.later : r \in x.held["delete"] /\ Referenced(r)

\* What a statement is there to delete is gone after it, unless there is something new.
SweptOK(t, x) ==
    Quiet(t, x) =>
        \A v \in live, n \in {1, 2, 5, 6, 7} :
            Swept(t, v, n) =>
                /\ x.done >= n => v \in x.held["delete"]
                /\ x.done + 1 = n /\ x.state = "within" => v \in x.held["delete"] \cup x.todo

DeletionOK(t, x) ==
    /\ x.state \notin Running => x.new = {}
    /\ IsDeletion(t) /\ x.state \in Running => ScopeOK(t, x) /\ LevelsOK(t, x) /\ SweptOK(t, x)

DInv == \A t \in Requests : DeletionOK(t, tx[t])
LEMMA OursIs ==
    ASSUME NEW t \in Requests, IsDeletion(t)
    PROVE  /\ Work[t].subject \in RowsOf["developers"] /\ Work[t].subject \in Ours(t)
           /\ Homes(t) \subseteq Ours(t) /\ Homes(t) \subseteq RowsOf["workspaces"]
           /\ \A r \in Ids : InHomes(t, r) => r \in Ours(t)
           /\ \A r \in Ours(t) :
                 /\ r \in RowsOf["agents"] \cup RowsOf["memories"] \cup RowsOf["experience_gaps"] =>
                       InHomes(t, r)
                 /\ r \in RowsOf["workspaces"] => r \in Homes(t)
                 /\ r \in RowsOf["developers"] => r = Work[t].subject
<1>1. Work[t].subject \in RowsOf["developers"]
    BY WorkAssumption DEF IsDeletion
<1>2. Ours(t) = {Work[t].subject} \cup Homes(t)
                   \cup UNION {Selected(Ids, table, Homes(t)) : table \in Tables}
    BY <1>1 DEF Ours, Homes, Account
<1>3. Homes(t) \subseteq RowsOf["workspaces"]
    BY DEF Homes, Selected
<1>4. ASSUME NEW r \in Ids, InHomes(t, r)
      PROVE  r \in Ours(t)
  <2>1. Row[r].table \in Tables /\ r \in RowsOf[Row[r].table]
      BY RowsAssumption, RowsAre
  <2> QED BY <1>2, <1>4, <2>1 DEF Selected, InHomes
<1>5. ASSUME NEW r \in Ours(t)
      PROVE  r = Work[t].subject \/ r \in Homes(t) \/ InHomes(t, r)
    BY <1>2 DEF Selected, InHomes
<1>6. ASSUME NEW r \in RowsOf["workspaces"], InHomes(t, r)
      PROVE  FALSE
    BY <1>3, <1>6, WorkspacesReferToDevelopers, RowsAre, TablesAre DEF InHomes
<1>7. ASSUME NEW r \in RowsOf["developers"], InHomes(t, r)
      PROVE  FALSE
    BY <1>7, DevelopersReferToNothing DEF InHomes
<1> QED BY <1>1, <1>2, <1>3, <1>4, <1>5, <1>6, <1>7, RowsAre, TablesAre

\* CASCADE takes a row that others refer to with its workspace only.
LEMMA CascadeRows ==
    ASSUME NEW r \in Ids, NEW v \in Referring["cascade"][r], Referenced(v)
    PROVE  r \in RowsOf["workspaces"]
<1>1. PICK c \in DOMAIN Row[v].refs :
         v \in Ids /\ Row[v].refs[c] = r /\ Schema[Row[v].table][c] = "cascade"
    BY ReferringIs DEF Rules
<1>2. c = "workspace_id"
    BY <1>1, References, Columns DEF Referenced
<1> QED BY <1>1, <1>2, References, Columns, NamedIs, RowsAre, TablesAre

\* RESTRICT protects the target of a relation, and the author of what lies in its workspace.
LEMMA RestrictRows ==
    ASSUME NEW r \in Ids, NEW v \in Referring["restrict"][r]
    PROVE  \/ v \in RowsOf["memory_relations"] /\ r \in RowsOf["memories"]
           \/ /\ v \in RowsOf["memories"] \cup RowsOf["experience_gaps"]
              /\ r \in RowsOf["agents"] /\ Parents[r] \subseteq Parents[v]
<1>1. PICK c \in DOMAIN Row[v].refs :
         v \in Ids /\ Row[v].refs[c] = r /\ Schema[Row[v].table][c] = "restrict"
    BY ReferringIs DEF Rules
<1>2. \/ Row[v].table = "memory_relations" /\ c = "target_memory_id"
      \/ Row[v].table \in {"memories", "experience_gaps"} /\ c = "author_agent_id"
    BY <1>1, References, Columns
<1>3. CASE Row[v].table = "memory_relations" /\ c = "target_memory_id"
    BY <1>1, <1>3, References, Columns, NamedIs, RowsAre, TablesAre
<1>4. CASE Row[v].table \in {"memories", "experience_gaps"} /\ c = "author_agent_id"
  <2>1. v \in RowsOf["memories"] \cup RowsOf["experience_gaps"]
      BY <1>1, <1>4, RowsAre, TablesAre
  <2>2. Row[r].table = "agents"
      BY <1>1, <1>4, References, Columns, NamedIs
  <2>3. "workspace_id" \in DOMAIN Row[v].refs /\ Row[v].refs["workspace_id"] \in Parents[r]
      BY <1>1, <1>4, <2>1, AuthorsAssumption
  <2>4. \A p \in Parents[r] : p = Row[r].refs["workspace_id"]
      BY <2>2, References, Columns DEF Parents
  <2>5. Parents[r] \subseteq Parents[v]
      BY <1>1, <2>3, <2>4, References
  <2> QED BY <2>1, <2>2, <2>5, RowsAre, TablesAre
<1> QED BY <1>2, <1>3, <1>4

\* The statements that matter here; the others are of tables that nothing refers to.
LEMMA EarlyStatements ==
    ASSUME IInv, NEW t \in Requests, IsDeletion(t), NEW n \in 1 .. 12
    PROVE  LET ws == tx[t].workspaces
           IN  /\ n = 1 => TargetsAt(t, n) =
                      Selected(Seen(t), "memory_feedback", {Work[t].subject} \cup tx[t].agents)
               /\ n = 2 => TargetsAt(t, n) =
                      Selected(Seen(t), "memory_relations", Selected(Seen(t), "memories", ws))
               /\ n = 3 => TargetsAt(t, n) =
                      Selected(Seen(t), "memory_evidence", Selected(Seen(t), "memories", ws))
               /\ n = 4 => TargetsAt(t, n) =
                      Selected(Seen(t), "memory_feedback", Selected(Seen(t), "memories", ws))
               /\ n = 5 => TargetsAt(t, n) =
                      Selected(Seen(t), "gap_memory_links",
                               Selected(Seen(t), "experience_gaps", ws)
                                   \cup Selected(Seen(t), "memories", ws))
               /\ n = 6 => TargetsAt(t, n) = Selected(Seen(t), "memories", ws)
               /\ n = 7 => TargetsAt(t, n) = Selected(Seen(t), "experience_gaps", ws)
               /\ n = 8 => TargetsAt(t, n) = Selected(Seen(t), "agent_keys", tx[t].agents)
               /\ n = 9 => TargetsAt(t, n) = Selected(Seen(t), "agents", ws)
               /\ n = 10 => TargetsAt(t, n) =
                      Selected(Seen(t), "developer_sessions", {Work[t].subject})
               /\ n \in {1, 2, 3, 4, 5, 8, 10} => \A r \in TargetsAt(t, n) : ~ Referenced(r)
<1> DEFINE S == AccountStatements(t)[n]
           ws == tx[t].workspaces
<1>1. TargetsAt(t, n) = Selected(Seen(t), S[1], S[2])
    BY DEF TargetsAt, IsDeletion
<1>2. /\ n = 1 => S = <<"memory_feedback", {Work[t].subject} \cup tx[t].agents>>
      /\ n = 2 => S = <<"memory_relations", Selected(Seen(t), "memories", ws)>>
      /\ n = 3 => S = <<"memory_evidence", Selected(Seen(t), "memories", ws)>>
      /\ n = 4 => S = <<"memory_feedback", Selected(Seen(t), "memories", ws)>>
      /\ n = 5 => S = <<"gap_memory_links", Selected(Seen(t), "experience_gaps", ws)
                                              \cup Selected(Seen(t), "memories", ws)>>
    BY DEF AccountStatements
<1>7. /\ n = 6 => S = <<"memories", ws>>
      /\ n = 7 => S = <<"experience_gaps", ws>>
      /\ n = 8 => S = <<"agent_keys", tx[t].agents>>
      /\ n = 9 => S = <<"agents", ws>>
      /\ n = 10 => S = <<"developer_sessions", {Work[t].subject}>>
    BY DEF AccountStatements
<1>3. n \in {1, 2, 3, 4, 5, 8, 10} =>
         S[1] \in {"memory_feedback", "memory_relations", "memory_evidence", "gap_memory_links",
                  "agent_keys", "developer_sessions"}
    BY DEF AccountStatements
<1> HIDE DEF S
<1>4. ASSUME NEW T \in {"memory_feedback", "memory_relations", "memory_evidence",
                        "gap_memory_links", "agent_keys", "developer_sessions"}, NEW ids,
             NEW r \in Selected(Seen(t), T, ids)
      PROVE  ~ Referenced(r)
  <2>1. T \in Tables
      BY TablesAre
  <2>2. r \in RowsOf[T]
      BY DEF Selected
  <2> QED BY <2>1, <2>2, RowsAre DEF Referenced
<1>5. ASSUME NEW T, NEW ids, S = <<T, ids>>
      PROVE  TargetsAt(t, n) = Selected(Seen(t), T, ids)
    BY <1>1, <1>5
<1>6. n \in {1, 2, 3, 4, 5, 8, 10} => \A r \in TargetsAt(t, n) : ~ Referenced(r)
    BY <1>1, <1>3, <1>4
<1> QED BY <1>2, <1>5, <1>6, <1>7
\* A step within a statement.
LEMMA InnerDeletion ==
    ASSUME IInv, DInv, NEW t \in Requests, NEW x \in Transactions,
           tx[t].state \in Running, x.state = "within",
           IsDeletion(t) => ScopeOK(t, x) /\ LevelsOK(t, x) /\ SweptOK(t, x),
           tx' = [tx EXCEPT ![t] = Settled(x)], UNCHANGED live
    PROVE  DInv'
<1> DEFINE y == Settled(x)
<1>1. /\ tx'[t] = y
      /\ \A u \in Requests \ {t} : tx'[u] = tx[u]
    BY DEF IInv, TypeOK
<1>2. /\ y.held = x.held /\ y.todo = x.todo /\ y.new = x.new
      /\ y.workspaces = x.workspaces /\ y.agents = x.agents
      /\ y.fired \cup y.later = x.fired \cup x.later
      /\ \/ y.state = "within" /\ y.done = x.done
         \/ y.state = "between" /\ y.done = x.done + 1 /\ x.todo = {}
    BY SettledIs
<1>3. x.done \in Nat
    BY DEF Transactions
<1> HIDE DEF y
<1>4. ASSUME NEW u \in Requests \ {t}
      PROVE  DeletionOK(u, tx[u])'
  <2>1. DeletionOK(u, tx[u])
      BY DEF DInv
  <2> QED BY <1>1, <2>1 DEF DeletionOK, ScopeOK, LevelsOK, SweptOK, Quiet
<1>5. ASSUME IsDeletion(t)
      PROVE  ScopeOK(t, y) /\ LevelsOK(t, y) /\ SweptOK(t, y)
  <2>1. ScopeOK(t, x) /\ LevelsOK(t, x) /\ SweptOK(t, x)
      BY <1>5
  <2>2. ScopeOK(t, y)
      BY <1>2, <2>1 DEF ScopeOK
  <2>3. LevelsOK(t, y)
      BY <1>2, <1>3, <2>1 DEF LevelsOK
  <2>4. SweptOK(t, y)
    <3>1. SUFFICES ASSUME Quiet(t, y), NEW v \in live, NEW n \in {1, 2, 5, 6, 7}, Swept(t, v, n)
                   PROVE  /\ y.done >= n => v \in y.held["delete"]
                          /\ y.done + 1 = n /\ y.state = "within" =>
                                v \in y.held["delete"] \cup y.todo
        BY DEF SweptOK
    <3>2. /\ x.done >= n => v \in x.held["delete"]
          /\ x.done + 1 = n => v \in x.held["delete"] \cup x.todo
        BY <1>2, <2>1, <3>1 DEF SweptOK, Quiet
    <3> QED BY <1>2, <1>3, <3>2
  <2> QED BY <2>2, <2>3, <2>4
<1>6. DeletionOK(t, tx[t])'
  <2>1. y.state \in Running
      BY <1>2 DEF Running
  <2> QED BY <1>1, <1>5, <2>1 DEF DeletionOK, ScopeOK, SweptOK, LevelsOK
<1> QED BY <1>4, <1>6 DEF DInv

LEMMA StartStatementDeletion ==
    ASSUME IInv, DInv, NEW t \in Requests, StartStatement(t)
    PROVE  DInv'
<1> DEFINE n == tx[t].done + 1
           x == [tx[t] EXCEPT !.state = "within", !.todo = Targets(t),
                              !.staged = IF Work[t].kind = "insert"
                                         THEN @ \cup {Work[t].rows[n]} ELSE @]
<1>1. /\ tx[t] \in Transactions /\ tx[t].done \in Nat /\ Length(t) \in Nat
      /\ tx[t].state = "between" /\ tx[t].done < Length(t)
      /\ TxOK(t, tx[t]) /\ tx[t].staged \subseteq Ids
    BY LengthType DEF IInv, TypeOK, StartStatement, Transactions
<1>2. /\ tx[t].todo = {} /\ tx[t].fired = {} /\ tx[t].later = {}
      /\ n \in 1 .. Length(t)
    BY <1>1 DEF TxOK, IdleOK
<1>3. Work[t].kind \in Kinds /\ Work[t].rows \in Seq(Ids \ Initial)
    BY WorkAssumption
<1>4. Work[t].kind = "insert" => n \in DOMAIN Work[t].rows /\ Work[t].rows[n] \in Ids
    BY <1>2, <1>3 DEF Length
<1>5. Targets(t) = TargetsAt(t, n) /\ Targets(t) \subseteq Ids
    BY <1>2, TargetsType DEF Targets
<1>6. /\ x \in Transactions
      /\ x.state = "within" /\ x.done = tx[t].done /\ x.held = tx[t].held
      /\ x.fired = {} /\ x.later = {} /\ x.todo = TargetsAt(t, n) /\ x.new = tx[t].new
      /\ x.workspaces = tx[t].workspaces /\ x.agents = tx[t].agents
    BY <1>1, <1>2, <1>4, <1>5 DEF Transactions, States, Running
<1>7. tx' = [tx EXCEPT ![t] = Settled(x)] /\ UNCHANGED live
    BY DEF StartStatement
<1> HIDE DEF x
<1>8. ASSUME IsDeletion(t)
      PROVE  ScopeOK(t, x) /\ LevelsOK(t, x) /\ SweptOK(t, x)
  <2>1. ScopeOK(t, tx[t]) /\ LevelsOK(t, tx[t]) /\ SweptOK(t, tx[t])
      BY <1>1, <1>8 DEF DInv, DeletionOK, Running
  <2>2. n \in 1 .. 12
      BY <1>2, <1>8, DeletionLength
  <2> DEFINE ws == tx[t].workspaces
  <2>3. /\ n = 1 => x.todo = Selected(Seen(t), "memory_feedback", {Work[t].subject} \cup tx[t].agents)
        /\ n = 2 => x.todo = Selected(Seen(t), "memory_relations", Selected(Seen(t), "memories", ws))
        /\ n = 5 => x.todo = Selected(Seen(t), "gap_memory_links",
                                      Selected(Seen(t), "experience_gaps", ws)
                                          \cup Selected(Seen(t), "memories", ws))
        /\ n = 6 => x.todo = Selected(Seen(t), "memories", ws)
        /\ n = 7 => x.todo = Selected(Seen(t), "experience_gaps", ws)
        /\ n = 9 => x.todo = Selected(Seen(t), "agents", ws)
        /\ n = 11 => x.todo = Selected(Seen(t), "workspaces", {Work[t].subject})
        /\ n = 12 => x.todo = Selected(Seen(t), "developers", {Work[t].subject})
        /\ n \in {1, 2, 3, 4, 5, 8, 10} => \A r \in x.todo : ~ Referenced(r)
      BY <1>6, <1>8, <2>2, EarlyStatements, LastStatements
  <2>4. ScopeOK(t, x)
      BY <1>6, <2>1 DEF ScopeOK
  <2>5. LevelsOK(t, x)
    <3>1. ws \subseteq Homes(t) /\ x.todo \subseteq Ids
        BY <1>5, <1>6, <2>1 DEF ScopeOK
    <3>2. ASSUME NEW T, NEW r \in Selected(Seen(t), T, ws), r \in Ids
          PROVE  r \in Ours(t)
        BY <1>8, <3>1, <3>2, OursIs DEF Selected, InHomes
    <3>3. ASSUME NEW r \in x.todo, Referenced(r)
          PROVE  r \in Ours(t) /\ n >= 6
                 /\ (Row[r].table \notin {"memories", "experience_gaps"} => n >= 9)
      <4>1. n \in {6, 7, 9, 11, 12}
          BY <2>2, <2>3, <3>3
      <4>2. CASE n \in {6, 7}
        <5>1. Row[r].table \in {"memories", "experience_gaps"}
            BY <2>3, <4>2, RowsAre, TablesAre DEF Selected
        <5> QED BY <2>3, <3>1, <3>2, <4>2, <5>1
      <4>3. CASE n = 9
          BY <2>3, <3>1, <3>2, <4>3
      <4>4. CASE n = 11
        <5>1. r \in Homes(t)
            BY <2>3, <3>1, <4>4 DEF Selected, Homes
        <5> QED BY <1>8, <4>4, <5>1, OursIs
      <4>5. CASE n = 12
        <5>1. r = Work[t].subject
            BY <2>3, <4>5, DevelopersReferToNothing DEF Selected
        <5> QED BY <1>8, <4>5, <5>1, OursIs
      <4> QED BY <4>1, <4>2, <4>3, <4>4, <4>5
    <3> QED BY <1>1, <1>2, <1>6, <2>1, <3>3 DEF LevelsOK
  <2>6. SweptOK(t, x)
    <3>1. SUFFICES ASSUME Quiet(t, tx[t]), NEW v \in live, NEW m \in {1, 2, 5, 6, 7}, Swept(t, v, m)
                   PROVE  /\ tx[t].done >= m => v \in tx[t].held["delete"]
                          /\ n = m => v \in tx[t].held["delete"] \cup x.todo
        BY <1>6 DEF SweptOK, Quiet
    <3>2. tx[t].done >= m => v \in tx[t].held["delete"]
        BY <2>1, <3>1 DEF SweptOK
    <3>3. ASSUME NEW r \in live, InHomes(t, r)
          PROVE  Parents[r] \cap ws # {}
        BY <2>1, <3>3 DEF InHomes, ScopeOK, IInv, KeysOK
    <3>4. ASSUME n = m, v \notin tx[t].held["delete"]
          PROVE  v \in x.todo
      <4>1. v \in Seen(t) /\ v \in Ids /\ Parents[v] \subseteq live
          BY <3>4 DEF Seen, Deleted, IInv, TypeOK, KeysOK
      <4>2. CASE m = 1
        <5>1. PICK p \in Parents[v] :
                 p = Work[t].subject \/ (p \in RowsOf["agents"] /\ InHomes(t, p))
            BY <3>1, <4>2 DEF Swept
        <5>2. ASSUME p \in RowsOf["agents"], InHomes(t, p)
              PROVE  p \in tx[t].agents
          <6>1. p \notin tx[t].new
              BY <1>8, <3>1, <5>2, OursIs DEF Quiet, InHomes
          <6> QED BY <2>1, <4>1, <5>2, <6>1 DEF ScopeOK
        <5>3. v \in RowsOf["memory_feedback"]
            BY <3>1, <4>2 DEF Swept
        <5> QED BY <2>3, <3>4, <4>1, <4>2, <5>1, <5>2, <5>3 DEF Selected
      <4>3. CASE m = 2
        <5>1. PICK p \in Parents[v] : p \in RowsOf["memories"] /\ InHomes(t, p)
            BY <3>1, <4>3 DEF Swept, OwnMemory
        <5>2. p \notin tx[t].held["delete"]
          <6>1. Referenced(p)
              BY <5>1, RowsAre, TablesAre DEF Referenced
          <6> QED BY <1>1, <2>1, <3>4, <4>3, <6>1 DEF LevelsOK
        <5>3. p \in Selected(Seen(t), "memories", ws)
            BY <3>3, <4>1, <5>1, <5>2 DEF Selected, Seen, Deleted
        <5>4. v \in RowsOf["memory_relations"]
            BY <3>1, <4>3 DEF Swept
        <5>5. x.todo = Selected(Seen(t), "memory_relations", Selected(Seen(t), "memories", ws))
            BY <2>3, <3>4, <4>3
        <5> HIDE DEF ws
        <5> QED BY <4>1, <5>1, <5>3, <5>4, <5>5 DEF Selected
      <4>4. CASE m = 6
          BY <2>3, <3>1, <3>3, <3>4, <4>1, <4>4 DEF Swept, Selected
      <4>6. CASE m = 5
        <5>1. PICK p \in Parents[v] :
                 p \in RowsOf["memories"] \cup RowsOf["experience_gaps"] /\ InHomes(t, p)
            BY <3>1, <4>6 DEF Swept, OwnMemory, OwnGap
        <5>2. p \notin tx[t].held["delete"]
          <6>1. Referenced(p)
              BY <5>1, RowsAre, TablesAre DEF Referenced
          <6> QED BY <1>1, <2>1, <3>4, <4>6, <6>1 DEF LevelsOK
        <5>3. p \in Selected(Seen(t), "memories", ws) \cup Selected(Seen(t), "experience_gaps", ws)
            BY <3>3, <4>1, <5>1, <5>2 DEF Selected, Seen, Deleted
        <5>4. v \in RowsOf["gap_memory_links"]
            BY <3>1, <4>6 DEF Swept
        <5>5. x.todo = Selected(Seen(t), "gap_memory_links",
                                Selected(Seen(t), "experience_gaps", ws)
                                    \cup Selected(Seen(t), "memories", ws))
            BY <2>3, <3>4, <4>6
        <5> HIDE DEF ws
        <5> QED BY <4>1, <5>1, <5>3, <5>4, <5>5 DEF Selected
      <4>5. CASE m = 7
          BY <2>3, <3>1, <3>3, <3>4, <4>1, <4>5 DEF Swept, Selected
      <4> QED BY <4>2, <4>3, <4>4, <4>5, <4>6
    <3> QED BY <3>2, <3>4
  <2> QED BY <2>4, <2>5, <2>6
<1> QED BY <1>1, <1>6, <1>7, <1>8, InnerDeletion DEF Running
LEMMA TakeDeletion ==
    ASSUME IInv, DInv, NEW t \in Requests, NEW r \in tx[t].todo, Take(t, r)
    PROVE  DInv'
<1> DEFINE mode == ModeAt(t, tx[t].done + 1)
           x == [tx[t] EXCEPT !.todo = @ \ {r},
                              !.held[Mode(t)] = @ \cup {r},
                              !.later = IF Mode(t) = "delete" /\ Referenced(r)
                                        THEN @ \cup {r} ELSE @]
<1>1. /\ tx[t] \in Transactions /\ tx[t].state = "within" /\ r \in Ids
      /\ tx[t].held \in [Modes -> SUBSET Ids] /\ tx[t].done \in Nat
    BY DEF IInv, TypeOK, Take, Transactions
<1>2. mode \in Modes /\ Mode(t) = mode /\ (IsDeletion(t) => mode = "delete") /\ "delete" \in Modes
    BY ModeTypes DEF Mode, Modes
<1> HIDE DEF mode
<1>3. /\ x.held = [tx[t].held EXCEPT ![mode] = @ \cup {r}]
      /\ x.later = IF mode = "delete" /\ Referenced(r) THEN tx[t].later \cup {r} ELSE tx[t].later
      /\ x.state = "within" /\ x.done = tx[t].done /\ x.new = tx[t].new
      /\ x.workspaces = tx[t].workspaces /\ x.agents = tx[t].agents
      /\ x.fired = tx[t].fired /\ x.todo = tx[t].todo \ {r}
    BY <1>1, <1>2 DEF Transactions
<1>4. x \in Transactions
  <2>1. x.held \in [Modes -> SUBSET Ids]
      BY <1>1, <1>2, <1>3
  <2>2. x.later \in SUBSET Ids /\ x.todo \in SUBSET Ids
      BY <1>1, <1>3 DEF Transactions
  <2> QED BY <1>1, <1>2, <2>1, <2>2 DEF Transactions
<1>5. tx' = [tx EXCEPT ![t] = Settled(x)] /\ UNCHANGED live
    BY DEF Take
<1> HIDE DEF x
<1>6. ASSUME IsDeletion(t)
      PROVE  ScopeOK(t, x) /\ LevelsOK(t, x) /\ SweptOK(t, x)
  <2>1. ScopeOK(t, tx[t]) /\ LevelsOK(t, tx[t]) /\ SweptOK(t, tx[t])
      BY <1>1, <1>6 DEF DInv, DeletionOK, Running
  <2>2. x.held["delete"] = tx[t].held["delete"] \cup {r}
      BY <1>1, <1>2, <1>3, <1>6
  <2>3. x.later = IF Referenced(r) THEN tx[t].later \cup {r} ELSE tx[t].later
      BY <1>2, <1>3, <1>6
  <2>4. ScopeOK(t, x)
      BY <1>3, <2>1 DEF ScopeOK
  <2>5. LevelsOK(t, x)
      BY <1>3, <2>1, <2>2, <2>3 DEF LevelsOK
  <2>6. SweptOK(t, x)
      BY <1>1, <1>3, <2>1, <2>2 DEF SweptOK, Quiet
  <2> QED BY <2>4, <2>5, <2>6
<1> QED BY <1>1, <1>3, <1>4, <1>5, <1>6, InnerDeletion DEF Running

LEMMA PassDeletion ==
    ASSUME IInv, DInv, NEW t \in Requests, NEW r \in tx[t].todo, Pass(t, r)
    PROVE  DInv'
<1> DEFINE x == [tx[t] EXCEPT !.todo = @ \ {r}]
<1>1. tx[t] \in Transactions /\ tx[t].state = "within" /\ r \notin live
    BY DEF IInv, TypeOK, Pass
<1>2. /\ x \in Transactions
      /\ x.held = tx[t].held /\ x.todo = tx[t].todo \ {r} /\ x.state = "within"
      /\ x.done = tx[t].done /\ x.new = tx[t].new
      /\ x.workspaces = tx[t].workspaces /\ x.agents = tx[t].agents
      /\ x.fired = tx[t].fired /\ x.later = tx[t].later
    BY <1>1 DEF Transactions
<1>3. tx' = [tx EXCEPT ![t] = Settled(x)] /\ UNCHANGED live
    BY DEF Pass
<1> HIDE DEF x
<1>4. ASSUME IsDeletion(t)
      PROVE  ScopeOK(t, x) /\ LevelsOK(t, x) /\ SweptOK(t, x)
  <2>1. ScopeOK(t, tx[t]) /\ LevelsOK(t, tx[t]) /\ SweptOK(t, tx[t])
      BY <1>1, <1>4 DEF DInv, DeletionOK, Running
  <2>2. ScopeOK(t, x)
      BY <1>2, <2>1 DEF ScopeOK
  <2>3. LevelsOK(t, x)
      BY <1>2, <2>1 DEF LevelsOK
  <2>4. SweptOK(t, x)
      BY <1>1, <1>2, <2>1 DEF SweptOK, Quiet
  <2> QED BY <2>2, <2>3, <2>4
<1> QED BY <1>1, <1>2, <1>3, <1>4, InnerDeletion DEF Running

LEMMA FireDeletion ==
    ASSUME IInv, DInv, NEW t \in Requests, NEW r \in tx[t].fired, Fire(t, r)
    PROVE  DInv'
<1> DEFINE x == [tx[t] EXCEPT !.fired = @ \ {r}, !.todo = Children(t, r, "cascade")]
<1>1. /\ tx[t] \in Transactions /\ tx[t].state = "within" /\ tx[t].todo = {} /\ r \in Ids
      /\ tx[t].done \in Nat
    BY DEF IInv, TypeOK, Fire, Transactions
<1>2. Children(t, r, "cascade") \subseteq Ids
    BY DEF Children, IInv, TypeOK
<1>3. /\ x \in Transactions
      /\ x.held = tx[t].held /\ x.todo = Children(t, r, "cascade") /\ x.state = "within"
      /\ x.done = tx[t].done /\ x.new = tx[t].new
      /\ x.workspaces = tx[t].workspaces /\ x.agents = tx[t].agents
      /\ x.fired = tx[t].fired \ {r} /\ x.later = tx[t].later
    BY <1>1, <1>2 DEF Transactions
<1>4. tx' = [tx EXCEPT ![t] = Settled(x)] /\ UNCHANGED live
    BY DEF Fire
<1> HIDE DEF x
<1>5. ASSUME IsDeletion(t)
      PROVE  ScopeOK(t, x) /\ LevelsOK(t, x) /\ SweptOK(t, x)
  <2>1. ScopeOK(t, tx[t]) /\ LevelsOK(t, tx[t]) /\ SweptOK(t, tx[t])
      BY <1>1, <1>5 DEF DInv, DeletionOK, Running
  <2>2. ScopeOK(t, x)
      BY <1>3, <2>1 DEF ScopeOK
  <2>3. LevelsOK(t, x)
    <3>1. r \in Ours(t) /\ (Row[r].table \notin {"memories", "experience_gaps"} => tx[t].done >= 8)
        BY <2>1 DEF LevelsOK
    <3>2. ASSUME NEW v \in Children(t, r, "cascade"), Referenced(v)
          PROVE  v \in Ours(t) /\ tx[t].done >= 8
      <4>1. v \in Referring["cascade"][r]
          BY DEF Children
      <4>2. r \in RowsOf["workspaces"]
          BY <1>1, <3>2, <4>1, CascadeRows
      <4>3. v \in Ids /\ r \in Parents[v]
          BY <1>1, <4>1, ReferringRefers DEF Rules
      <4>4. v \in Ours(t)
          BY <1>5, <3>1, <4>2, <4>3, OursIs DEF InHomes
      <4> QED BY <3>1, <4>2, <4>4, RowsAre, TablesAre
    <3> QED BY <1>1, <1>3, <2>1, <3>2 DEF LevelsOK
  <2>4. SweptOK(t, x)
      BY <1>1, <1>3, <2>1 DEF SweptOK, Quiet
  <2> QED BY <2>2, <2>3, <2>4
<1> QED BY <1>1, <1>3, <1>4, <1>5, InnerDeletion DEF Running

LEMMA BeginDeletion ==
    ASSUME IInv, DInv, NEW t \in Requests, Begin(t)
    PROVE  DInv'
<1> DEFINE workspaces == Selected(live, "workspaces", {Work[t].subject})
<1>1. /\ tx[t] \in Transactions /\ tx[t].state = "waiting" /\ TxOK(t, tx[t])
      /\ live \subseteq Ids /\ UNCHANGED live
    BY DEF IInv, TypeOK, Begin
<1>2. /\ \A u \in Requests \ {t} : tx'[u] = tx[u]
      /\ tx'[t].state = "between" /\ tx'[t].done = tx[t].done /\ tx'[t].held = tx[t].held
      /\ tx'[t].todo = tx[t].todo /\ tx'[t].fired = tx[t].fired /\ tx'[t].later = tx[t].later
      /\ tx'[t].new = tx[t].new
      /\ IsDeletion(t) => /\ tx'[t].workspaces = workspaces
                         /\ tx'[t].agents = Selected(live, "agents", workspaces)
    BY <1>1 DEF Begin, IInv, TypeOK, Transactions
<1>3. /\ tx[t].done = 0 /\ \A mode \in Modes : tx[t].held[mode] = {}
      /\ tx[t].todo = {} /\ tx[t].fired = {} /\ tx[t].later = {}
    BY <1>1 DEF TxOK, IdleOK, Running
<1>4. ASSUME NEW u \in Requests \ {t}
      PROVE  DeletionOK(u, tx[u])'
  <2>1. DeletionOK(u, tx[u])
      BY DEF DInv
  <2> QED BY <1>1, <1>2, <2>1 DEF DeletionOK, ScopeOK, LevelsOK, SweptOK, Quiet
<1>5. ASSUME IsDeletion(t)
      PROVE  ScopeOK(t, tx[t])' /\ LevelsOK(t, tx[t])' /\ SweptOK(t, tx[t])'
  <2>1. "delete" \in Modes
      BY DEF Modes
  <2>2. LevelsOK(t, tx[t])' /\ SweptOK(t, tx[t])'
      BY <1>2, <1>3, <2>1 DEF LevelsOK, SweptOK
  <2>3. workspaces = live \cap Homes(t)
      BY <1>1 DEF Homes, Selected
  <2>4. ASSUME NEW a \in live \cap RowsOf["agents"], InHomes(t, a)
        PROVE  a \in Selected(live, "agents", workspaces)
    <3>1. Parents[a] \cap workspaces # {}
        BY <2>3, <2>4 DEF InHomes, IInv, KeysOK
    <3> HIDE DEF workspaces
    <3> QED BY <3>1 DEF Selected
  <2>5. ScopeOK(t, tx[t])'
      BY <1>1, <1>2, <1>5, <2>3, <2>4 DEF ScopeOK
  <2> QED BY <2>2, <2>5
<1>6. DeletionOK(t, tx[t])'
    BY <1>2, <1>5 DEF DeletionOK, Running
<1> QED BY <1>4, <1>6 DEF DInv

LEMMA EndDeletion ==
    ASSUME IInv, DInv, NEW t \in Requests, NEW state \in {"refused", "aborted"},
           End(t, state), UNCHANGED live
    PROVE  DInv'
<1>1. /\ state \in States /\ state \notin Running
    BY DEF States, Running, Ended
<1>2. tx'[t] = Fresh(state) /\ \A u \in Requests \ {t} : tx'[u] = tx[u]
    BY DEF End, IInv, TypeOK
<1>3. DeletionOK(t, tx[t])'
    BY <1>1, <1>2, FreshType DEF DeletionOK
<1>4. ASSUME NEW u \in Requests \ {t}
      PROVE  DeletionOK(u, tx[u])'
  <2>1. DeletionOK(u, tx[u])
      BY DEF DInv
  <2> QED BY <1>2, <2>1 DEF DeletionOK, ScopeOK, LevelsOK, SweptOK, Quiet
<1> QED BY <1>3, <1>4 DEF DInv

LEMMA CommitDeletion ==
    ASSUME IInv, DInv, NEW t \in Requests, Commit(t)
    PROVE  DInv'
<1>1. /\ tx[t].state = "between" /\ live \subseteq Ids
      /\ live' = (live \ Deleted(t)) \cup tx[t].staged
      /\ "answered" \in States /\ "answered" \notin Running
    BY DEF IInv, TypeOK, Commit, States, Running, Ended
<1>2. /\ tx'[t] = Fresh("answered")
      /\ \A u \in Requests \ {t} :
            /\ tx'[u].state = tx[u].state /\ tx'[u].done = tx[u].done /\ tx'[u].held = tx[u].held
            /\ tx'[u].todo = tx[u].todo /\ tx'[u].fired = tx[u].fired /\ tx'[u].later = tx[u].later
            /\ tx'[u].workspaces = tx[u].workspaces /\ tx'[u].agents = tx[u].agents
            /\ tx'[u].new = IF tx[u].state \in Running /\ IsDeletion(u)
                            THEN tx[u].new \cup tx[t].staged ELSE tx[u].new
  <2>1. tx' = [u \in Requests |->
                  IF u = t THEN Fresh("answered")
                  ELSE IF tx[u].state \in Running /\ IsDeletion(u)
                       THEN [tx[u] EXCEPT !.new = @ \cup tx[t].staged]
                  ELSE tx[u]]
      BY DEF Commit
  <2>2. \A u \in Requests : tx[u] \in Transactions
      BY DEF IInv, TypeOK
  <2> QED BY <2>1, <2>2 DEF Transactions
<1>3. DeletionOK(t, tx[t])'
    BY <1>1, <1>2, FreshType DEF DeletionOK
<1>4. \A w \in tx[t].staged : w \in Ids /\ w \notin RowsOf["workspaces"]
    BY <1>1, StagedRows
<1>5. ASSUME NEW u \in Requests \ {t}
      PROVE  DeletionOK(u, tx[u])'
  <2>1. DeletionOK(u, tx[u])
      BY DEF DInv
  <2>2. CASE ~ (IsDeletion(u) /\ tx[u].state \in Running)
      BY <1>2, <2>1, <2>2 DEF DeletionOK
  <2>3. CASE IsDeletion(u) /\ tx[u].state \in Running
    <3>1. ScopeOK(u, tx[u]) /\ LevelsOK(u, tx[u]) /\ SweptOK(u, tx[u])
        BY <2>1, <2>3 DEF DeletionOK
    <3>2. tx'[u].new = tx[u].new \cup tx[t].staged
        BY <1>2, <2>3
    <3>3. ScopeOK(u, tx[u])'
      <4>1. live' \cap Homes(u) \subseteq live
          BY <1>1, <1>4, <2>3, OursIs
      <4> QED BY <1>1, <1>2, <3>1, <3>2, <4>1 DEF ScopeOK
    <3>4. LevelsOK(u, tx[u])'
        BY <1>2, <3>1 DEF LevelsOK
    <3>5. SweptOK(u, tx[u])'
      <4>1. SUFFICES ASSUME Quiet(u, tx[u])', NEW v \in live', NEW n \in {1, 2, 5, 6, 7}, Swept(u, v, n)
                     PROVE  /\ tx'[u].done >= n => v \in tx'[u].held["delete"]
                            /\ tx'[u].done + 1 = n /\ tx'[u].state = "within" =>
                                  v \in tx'[u].held["delete"] \cup tx'[u].todo
          BY DEF SweptOK
      <4>2. Parents[v] \cap Ours(u) # {}
        <5>1. v \in Ids
            BY <1>1, <1>4
        <5>2. Parents[v] \subseteq Ids
            BY <5>1, ParentsAreReferenced
        <5> QED BY <2>3, <4>1, <5>2, OursIs DEF Swept, OwnMemory, OwnGap, InHomes
      <4>3. v \in live
          BY <1>1, <3>2, <4>1, <4>2 DEF Quiet
      <4>4. Quiet(u, tx[u])
          BY <3>2, <4>1 DEF Quiet
      <4> QED BY <1>2, <3>1, <4>1, <4>3, <4>4 DEF SweptOK
    <3> QED BY <1>2, <2>3, <3>3, <3>4, <3>5 DEF DeletionOK
  <2> QED BY <2>2, <2>3
<1> QED BY <1>3, <1>5 DEF DInv
LEMMA InitDeletions == Init => DInv
<1> SUFFICES ASSUME Init PROVE DInv
    OBVIOUS
<1>1. ASSUME NEW t \in Requests
      PROVE  tx[t].state \notin Running /\ tx[t].new = {}
  <2>1. PICK state \in {"waiting", "away"} : tx[t] = Fresh(state)
      BY DEF Init
  <2> QED BY <2>1, FreshType DEF States, Running
<1> QED BY <1>1 DEF DInv, DeletionOK

LEMMA NextDeletions == IInv /\ DInv /\ [Next]_vars => DInv'
<1> SUFFICES ASSUME IInv, DInv, [Next]_vars PROVE DInv'
    OBVIOUS
<1>1. ASSUME NEW t \in Requests, Begin(t) PROVE DInv'
    BY <1>1, BeginDeletion
<1>2. ASSUME NEW t \in Requests, StartStatement(t) PROVE DInv'
    BY <1>2, StartStatementDeletion
<1>3. ASSUME NEW t \in Requests, Commit(t) PROVE DInv'
    BY <1>3, CommitDeletion
<1>4. ASSUME NEW t \in Requests, NEW r \in tx[t].todo, Take(t, r) PROVE DInv'
    BY <1>4, TakeDeletion
<1>5. ASSUME NEW t \in Requests, NEW r \in tx[t].todo, Pass(t, r) PROVE DInv'
    BY <1>5, PassDeletion
<1>6. ASSUME NEW t \in Requests, NEW r \in tx[t].fired, Fire(t, r) PROVE DInv'
    BY <1>6, FireDeletion
<1>7. ASSUME NEW t \in Requests, Refuse(t) PROVE DInv'
    BY <1>7, EndDeletion DEF Refuse
<1>8. ASSUME NEW t \in Requests, Drop(t) PROVE DInv'
    BY <1>8, EndDeletion DEF Drop
<1>9. ASSUME BreakDeadlock PROVE DInv'
  <2>1. PICK t \in UNION Deadlocks : End(t, "aborted") /\ UNCHANGED live
      BY <1>9 DEF BreakDeadlock
  <2> QED BY <2>1, EndDeletion DEF Deadlocks
<1>10. CASE UNCHANGED vars
    BY <1>10 DEF vars, DInv, DeletionOK, ScopeOK, LevelsOK, SweptOK, Quiet
<1> QED BY <1>1, <1>2, <1>3, <1>4, <1>5, <1>6, <1>7, <1>8, <1>9, <1>10 DEF Next

LEMMA SettledState ==
    ASSUME NEW x, "state" \in DOMAIN x, x.state = "within"
    PROVE  Settled(x).state \in {"within", "between"}
<1>1. CASE x.todo # {} \/ x.fired # {}
    BY <1>1 DEF Settled
<1>2. CASE x.todo = {} /\ x.fired = {} /\ x.later # {}
  <2>1. Settled(x) = [x EXCEPT !.fired = x.later, !.later = {}]
      BY <1>2 DEF Settled
  <2> QED BY <2>1
<1>3. CASE x.todo = {} /\ x.fired = {} /\ x.later = {}
  <2>1. Settled(x) = [x EXCEPT !.state = "between", !.done = @ + 1]
      BY <1>3 DEF Settled
  <2> QED BY <2>1
<1> QED BY <1>1, <1>2, <1>3

\* Only the step Refuse answers with an error of a constraint.
LEMMA RefusalIsRefuse ==
    ASSUME IInv, [Next]_vars, NEW t \in Requests, tx[t].state \in Running, tx'[t].state = "refused"
    PROVE  Refuse(t)
<1>0. /\ tx \in [Requests -> Transactions] /\ "refused" \notin Running
      /\ "aborted" \in States /\ "answered" \in States
    BY DEF IInv, TypeOK, Running, States, Ended
<1>1. ASSUME NEW u \in Requests
      PROVE  "state" \in DOMAIN tx[u]
    BY <1>0 DEF Transactions
<1>2. ASSUME NEW u \in Requests, NEW x, "state" \in DOMAIN x, x.state = "within",
             tx' = [tx EXCEPT ![u] = Settled(x)]
      PROVE  FALSE
    BY <1>0, <1>2, SettledState
<1>3. ASSUME NEW u \in Requests, Begin(u)
      PROVE  FALSE
    BY <1>0, <1>3 DEF Begin, Running, Transactions
<1>4. ASSUME NEW u \in Requests, StartStatement(u)
      PROVE  FALSE
  <2> DEFINE x == [tx[u] EXCEPT !.state = "within", !.todo = Targets(u),
                                !.staged = IF Work[u].kind = "insert"
                                           THEN @ \cup {Work[u].rows[tx[u].done + 1]} ELSE @]
  <2>1. tx' = [tx EXCEPT ![u] = Settled(x)]
      BY <1>4 DEF StartStatement
  <2>2. "state" \in DOMAIN x /\ x.state = "within"
      BY <1>1
  <2> HIDE DEF x
  <2> QED BY <1>2, <2>1, <2>2
<1>5. ASSUME NEW u \in Requests, NEW r \in tx[u].todo, Take(u, r)
      PROVE  FALSE
  <2> DEFINE x == [tx[u] EXCEPT !.todo = @ \ {r},
                                !.held[Mode(u)] = @ \cup {r},
                                !.later = IF Mode(u) = "delete" /\ Referenced(r)
                                          THEN @ \cup {r} ELSE @]
  <2>1. tx' = [tx EXCEPT ![u] = Settled(x)] /\ tx[u].state = "within"
      BY <1>5 DEF Take
  <2>2. "state" \in DOMAIN x /\ x.state = "within"
      BY <1>1, <2>1
  <2> HIDE DEF x
  <2> QED BY <1>2, <2>1, <2>2
<1>6. ASSUME NEW u \in Requests, NEW r \in tx[u].todo, Pass(u, r)
      PROVE  FALSE
  <2> DEFINE x == [tx[u] EXCEPT !.todo = @ \ {r}]
  <2>1. tx' = [tx EXCEPT ![u] = Settled(x)] /\ tx[u].state = "within"
      BY <1>6 DEF Pass
  <2>2. "state" \in DOMAIN x /\ x.state = "within"
      BY <1>1, <2>1
  <2> HIDE DEF x
  <2> QED BY <1>2, <2>1, <2>2
<1>7. ASSUME NEW u \in Requests, NEW r \in tx[u].fired, Fire(u, r)
      PROVE  FALSE
  <2> DEFINE x == [tx[u] EXCEPT !.fired = @ \ {r}, !.todo = Children(u, r, "cascade")]
  <2>1. tx' = [tx EXCEPT ![u] = Settled(x)] /\ tx[u].state = "within"
      BY <1>7 DEF Fire
  <2>2. "state" \in DOMAIN x /\ x.state = "within"
      BY <1>1, <2>1
  <2> HIDE DEF x
  <2> QED BY <1>2, <2>1, <2>2
<1>8. ASSUME NEW u \in Requests, End(u, "aborted")
      PROVE  FALSE
    BY <1>0, <1>8, FreshType DEF End
<1>9. ASSUME NEW u \in Requests, Commit(u)
      PROVE  FALSE
  <2>1. tx' = [v \in Requests |->
                  IF v = u THEN Fresh("answered")
                  ELSE IF tx[v].state \in Running /\ IsDeletion(v)
                       THEN [tx[v] EXCEPT !.new = @ \cup tx[u].staged]
                  ELSE tx[v]]
      BY <1>9 DEF Commit
  <2>2. [tx[t] EXCEPT !.new = @ \cup tx[u].staged].state = tx[t].state
      BY <1>0 DEF Transactions
  <2> QED BY <1>0, <2>1, <2>2, FreshType
<1>10. ASSUME NEW u \in Requests, Refuse(u)
       PROVE  u = t
    BY <1>0, <1>10 DEF Refuse, End
<1>11. ~ UNCHANGED vars
    BY <1>0 DEF vars
<1> QED BY <1>3, <1>4, <1>5, <1>6, <1>7, <1>8, <1>9, <1>10, <1>11 DEF Next, Drop, BreakDeadlock, Deadlocks

\* The deletion of an account is refused only if a row that names a part of it was committed
\* while it ran: its twelve DELETEs, in their order, satisfy every constraint.
THEOREM RefusalsHaveACause == Spec => RefusedForNewRowsOnly
<1>1. ASSUME IInv, DInv, [Next]_vars, NEW t \in Requests,
             IsDeletion(t), tx[t].state \in Running, tx'[t].state = "refused"
      PROVE  \E v \in tx[t].new : Parents[v] \cap Account[Work[t].subject] # {}
  <2>1. SUFFICES ASSUME Quiet(t, tx[t])
                 PROVE  FALSE
      BY DEF Quiet, Ours
  <2>2. Refuse(t)
      BY <1>1, RefusalIsRefuse
  <2>3. tx[t].state = "within" /\ \E r \in tx[t].fired : Objections(t, r) # {}
      BY <1>1, <2>2 DEF Refuse, IsDeletion
  <2>4. PICK r \in tx[t].fired : Objections(t, r) # {}
      BY <2>3
  <2>5. /\ r \in Ids /\ live \subseteq Ids /\ tx[t].done \in Nat
        /\ LevelsOK(t, tx[t]) /\ SweptOK(t, tx[t])
      BY <1>1 DEF IInv, TypeOK, Transactions, DInv, DeletionOK
  <2>6. /\ r \in Deleted(t) /\ Referenced(r) /\ r \in Ours(t) /\ tx[t].done >= 5
        /\ Row[r].table \notin {"memories", "experience_gaps"} => tx[t].done >= 8
      BY <2>5 DEF LevelsOK, Deleted
  <2>7. ASSUME NEW v \in live, v \notin Deleted(t), NEW n \in {1, 2, 5, 6, 7}, Swept(t, v, n),
               tx[t].done >= n
        PROVE  FALSE
      BY <2>1, <2>5, <2>7 DEF SweptOK, Deleted
  <2>8. PICK v \in Objections(t, r) :
           /\ v \in live /\ v \notin Deleted(t) /\ v \in Ids
           /\ \/ v \in Referring["restrict"][r]
              \/ v \in Referring["set_null"][r] /\ Row[v].table = "memory_feedback"
      BY <2>4, <2>5 DEF Objections, Children
  <2>9. CASE v \in RowsOf["memory_relations"] /\ r \in RowsOf["memories"] /\ r \in Parents[v]
    <3>1. InHomes(t, r)
        BY <1>1, <2>6, <2>9, OursIs
    <3>2. Swept(t, v, 2)
        BY <2>9, <3>1 DEF Swept, OwnMemory
    <3> QED BY <2>5, <2>6, <2>7, <2>8, <3>2
  <2>10. CASE /\ v \in RowsOf["memories"] \cup RowsOf["experience_gaps"]
              /\ r \in RowsOf["agents"] /\ Parents[r] \subseteq Parents[v]
    <3>1. tx[t].done >= 8
        BY <2>6, <2>10, RowsAre, TablesAre
    <3>2. InHomes(t, v)
        BY <1>1, <2>6, <2>10, OursIs DEF InHomes
    <3>3. Swept(t, v, 6) \/ Swept(t, v, 7)
        BY <2>10, <3>2 DEF Swept
    <3> QED BY <2>5, <2>7, <2>8, <3>1, <3>3
  <2>11. CASE v \in Referring["set_null"][r] /\ Row[v].table = "memory_feedback"
    <3>1. r \in Parents[v] /\ Row[r].table \in {"agents", "developers"}
        BY <2>5, <2>11, ReferringRefers, SetNullRows DEF Rules
    <3>2. tx[t].done >= 8
        BY <2>6, <3>1
    <3>3. r = Work[t].subject \/ (r \in RowsOf["agents"] /\ InHomes(t, r))
        BY <1>1, <2>5, <2>6, <3>1, OursIs, RowsAre, TablesAre
    <3>4. Swept(t, v, 1)
        BY <2>8, <2>11, <3>1, <3>3, RowsAre, TablesAre DEF Swept
    <3> QED BY <2>5, <2>7, <2>8, <3>2, <3>4
  <2>12. v \in Referring["restrict"][r] =>
            \/ v \in RowsOf["memory_relations"] /\ r \in RowsOf["memories"] /\ r \in Parents[v]
            \/ /\ v \in RowsOf["memories"] \cup RowsOf["experience_gaps"]
               /\ r \in RowsOf["agents"] /\ Parents[r] \subseteq Parents[v]
      BY <2>5, RestrictRows, ReferringRefers DEF Rules
  <2> QED BY <2>8, <2>9, <2>10, <2>11, <2>12
<1>2. IInv /\ DInv /\ [Next]_vars =>
          [\A t \in Requests :
              IsDeletion(t) /\ tx[t].state \in Running /\ tx'[t].state = "refused" =>
                  \E v \in tx[t].new : Parents[v] \cap Account[Work[t].subject] # {}]_vars
    BY <1>1
<1>3. Spec => [](IInv /\ DInv)
    BY DeletionInvariance, InitDeletions, NextDeletions, PTL DEF Spec
<1> QED BY <1>2, <1>3, PTL DEF Spec, RefusedForNewRowsOnly

-----------------------------------------------------------------------------
(* Transactions that wait for each other do it in one table.               *)

\* An INSERT locks rows that others refer to, and changes none.
InsertOK(x) ==
    /\ x.held["delete"] = {} /\ x.held["update"] = {}
    /\ \A r \in x.held["share"] \cup x.todo : Referenced(r)

\* The removal of a memory goes through the tables of what names it, and then to the memory.
RemovalOK(t, x) ==
    /\ x.fired = {} /\ x.later = {} /\ x.held["share"] = {}
    /\ x.held["update"] \subseteq {Work[t].subject}
    /\ x.held["update"] # {} => x.done >= 4
    /\ \A r \in x.held["delete"] : \E n \in 1 .. 4 :
          n <= x.done + 1 /\ r \in RowsOf[RemovalTables[n]] /\ Work[t].subject \in Parents[r]
    /\ \A r \in x.todo :
          /\ x.done \in 0 .. 4 /\ r \in RowsOf[RemovalTables[x.done + 1]]
          /\ IF x.done = 4 THEN r = Work[t].subject ELSE Work[t].subject \in Parents[r]

\* The deletion of an account locks feedback, relations and links in this order; but for
\* its first statement, what it locks in the tables of removals names a memory or a gap of
\* the account.
AccountOK(t, x) ==
    /\ x.held["share"] = {} /\ x.held["update"] = {}
    /\ \A r \in x.held["delete"] \cup x.todo :
          /\ r \in RowsOf["memory_evidence"] => OwnMemory(t, r)
          /\ r \in RowsOf["memory_relations"] => x.done >= 1
          /\ r \in RowsOf["gap_memory_links"] => x.done >= 4
    /\ \A r \in x.todo :
          /\ x.done = 0 => r \in RowsOf["memory_feedback"]
          /\ x.done = 1 => r \in RowsOf["memory_relations"]
          /\ x.done = 4 => r \in RowsOf["gap_memory_links"]
          /\ r \in RowsOf["memory_feedback"] => x.done = 0 \/ OwnMemory(t, r)
          /\ r \in RowsOf["memory_relations"] => OwnMemory(t, r) /\ (x.done = 1 \/ x.done >= 5)
          /\ r \in RowsOf["gap_memory_links"] => OwnMemory(t, r) \/ OwnGap(t, r)

KindOK(t, x) ==
    /\ Work[t].kind = "insert" => InsertOK(x)
    /\ Work[t].kind = "remove_memory" => RemovalOK(t, x)
    /\ IsDeletion(t) => AccountOK(t, x)

KInv == \A t \in Requests : KindOK(t, tx[t])

\* The columns that name a memory.
LEMMA MemoryColumns ==
    ASSUME NEW r \in Ids, NEW c \in DOMAIN Row[r].refs, Row[r].refs[c] \in RowsOf["memories"]
    PROVE  /\ Row[r].table \in {"memory_evidence", "memory_feedback", "gap_memory_links"} =>
                 c = "memory_id"
           /\ Row[r].table = "memory_relations" =>
                 c \in {"source_memory_id", "target_memory_id"}
<1>1. c \in DOMAIN Schema[Row[r].table] /\ Named[c] = "memories"
    BY References, RowsAre, TablesAre
<1>2. CASE Row[r].table = "memory_evidence"
  <2>1. Schema["memory_evidence"] = [memory_id |-> "cascade"]
      BY DEF Schema, WorkspaceRule
  <2> QED BY <1>1, <1>2, <2>1
<1>3. CASE Row[r].table = "memory_feedback"
  <2>1. Schema["memory_feedback"] =
           [memory_id |-> "cascade", agent_id |-> "set_null", developer_id |-> "set_null"]
      BY DEF Schema, WorkspaceRule
  <2>2. c \in {"memory_id", "agent_id", "developer_id"}
      BY <1>1, <1>3, <2>1
  <2>3. Named["agent_id"] = "agents" /\ Named["developer_id"] = "developers"
      BY DEF Named
  <2> QED BY <1>1, <1>3, <2>2, <2>3
<1>4. CASE Row[r].table = "gap_memory_links"
  <2>1. Schema["gap_memory_links"] = [gap_id |-> "cascade", memory_id |-> "cascade"]
      BY DEF Schema, WorkspaceRule
  <2>2. c \in {"memory_id", "gap_id"}
      BY <1>1, <1>4, <2>1
  <2>3. Named["gap_id"] = "experience_gaps"
      BY DEF Named
  <2> QED BY <1>1, <1>4, <2>2, <2>3
<1>5. CASE Row[r].table = "memory_relations"
  <2>1. Schema["memory_relations"] =
           [source_memory_id |-> "cascade", target_memory_id |-> "restrict"]
      BY DEF Schema, WorkspaceRule
  <2> QED BY <1>1, <1>5, <2>1
<1> QED BY <1>2, <1>3, <1>4, <1>5

\* Evidence, feedback and links name one memory, and relations two.
LEMMA OneMemory ==
    ASSUME NEW T \in {"memory_evidence", "memory_feedback", "gap_memory_links"},
           NEW r \in RowsOf[T],
           NEW a \in Parents[r] \cap RowsOf["memories"],
           NEW b \in Parents[r] \cap RowsOf["memories"]
    PROVE  a = b
<1>1. r \in Ids /\ Row[r].table = T
    BY RowsAre, TablesAre
<1>2. \A p \in Parents[r] \cap RowsOf["memories"] : p = Row[r].refs["memory_id"]
    BY <1>1, MemoryColumns DEF Parents
<1> QED BY <1>2

LEMMA TwoMemories ==
    ASSUME NEW r \in RowsOf["memory_relations"], NEW v \in RowsOf["memory_relations"],
           NEW a \in RowsOf["memories"], NEW b \in RowsOf["memories"], a # b,
           {a, b} \subseteq Parents[r], {a, b} \subseteq Parents[v]
    PROVE  r = v
<1>1. ASSUME NEW w \in RowsOf["memory_relations"], {a, b} \subseteq Parents[w]
      PROVE  Parents[w] = {a, b}
  <2>1. w \in Ids /\ Row[w].table = "memory_relations"
      BY RowsAre, TablesAre
  <2>2. DOMAIN Row[w].refs \subseteq {"source_memory_id", "target_memory_id"}
    <3>1. Schema["memory_relations"] =
             [source_memory_id |-> "cascade", target_memory_id |-> "restrict"]
        BY DEF Schema, WorkspaceRule
    <3> QED BY <2>1, <3>1, References
  <2>3. Parents[w] = {Row[w].refs[c] : c \in DOMAIN Row[w].refs}
      BY <2>1 DEF Parents
  <2> QED BY <1>1, <2>2, <2>3
<1> QED BY <1>1, RelationsAssumption

\* CASCADE takes from a memory or a gap what names it.
LEMMA CascadeNames ==
    ASSUME NEW r \in Ids, NEW v \in Referring["cascade"][r]
    PROVE  /\ v \in Ids /\ r \in Parents[v]
           /\ v \in RowsOf["memory_evidence"] \cup RowsOf["memory_feedback"]
                     \cup RowsOf["memory_relations"] => r \in RowsOf["memories"]
           /\ v \in RowsOf["gap_memory_links"] =>
                 r \in RowsOf["memories"] \cup RowsOf["experience_gaps"]
<1>1. PICK c \in DOMAIN Row[v].refs :
         v \in Ids /\ Row[v].refs[c] = r /\ Schema[Row[v].table][c] = "cascade"
    BY ReferringIs DEF Rules
<1>2. r \in RowsOf[Named[c]] /\ r \in Parents[v] /\ c \in DOMAIN Schema[Row[v].table]
    BY <1>1, References, RowsAssumption
<1>3. CASE Row[v].table = "memory_evidence"
  <2>1. Schema["memory_evidence"] = [memory_id |-> "cascade"]
      BY DEF Schema, WorkspaceRule
  <2>2. c = "memory_id"
      BY <1>2, <1>3, <2>1
  <2>3. Named["memory_id"] = "memories"
      BY DEF Named
  <2> QED BY <1>1, <1>2, <1>3, <2>2, <2>3, RowsAre, TablesAre
<1>4. CASE Row[v].table = "memory_feedback"
  <2>1. Schema["memory_feedback"] =
           [memory_id |-> "cascade", agent_id |-> "set_null", developer_id |-> "set_null"]
      BY DEF Schema, WorkspaceRule
  <2>2. c = "memory_id"
      BY <1>1, <1>2, <1>4, <2>1
  <2>3. Named["memory_id"] = "memories"
      BY DEF Named
  <2> QED BY <1>1, <1>2, <1>4, <2>2, <2>3, RowsAre, TablesAre
<1>5. CASE Row[v].table = "memory_relations"
  <2>1. Schema["memory_relations"] =
           [source_memory_id |-> "cascade", target_memory_id |-> "restrict"]
      BY DEF Schema, WorkspaceRule
  <2>2. c = "source_memory_id"
      BY <1>1, <1>2, <1>5, <2>1
  <2>3. Named["source_memory_id"] = "memories"
      BY DEF Named
  <2> QED BY <1>1, <1>2, <1>5, <2>2, <2>3, RowsAre, TablesAre
<1>6. CASE Row[v].table = "gap_memory_links"
  <2>1. Schema["gap_memory_links"] = [gap_id |-> "cascade", memory_id |-> "cascade"]
      BY DEF Schema, WorkspaceRule
  <2>2. c \in {"memory_id", "gap_id"}
      BY <1>2, <1>6, <2>1
  <2>3. Named["memory_id"] = "memories" /\ Named["gap_id"] = "experience_gaps"
      BY DEF Named
  <2> QED BY <1>1, <1>2, <1>6, <2>2, <2>3, RowsAre, TablesAre
<1> QED BY <1>1, <1>2, <1>3, <1>4, <1>5, <1>6, RowsAre, TablesAre

LEMMA InnerKinds ==
    ASSUME IInv, KInv, NEW t \in Requests, NEW x \in Transactions, x.state = "within",
           KindOK(t, x), tx' = [tx EXCEPT ![t] = Settled(x)]
    PROVE  KInv'
<1> DEFINE y == Settled(x)
<1>1. /\ tx'[t] = y
      /\ \A u \in Requests \ {t} : tx'[u] = tx[u]
    BY DEF IInv, TypeOK
<1>2. /\ y.held = x.held /\ y.todo = x.todo
      /\ y.fired \cup y.later = x.fired \cup x.later
      /\ y.done = x.done \/ (y.done = x.done + 1 /\ x.todo = {})
      /\ x.done \in Nat
    BY SettledIs DEF Transactions
<1> HIDE DEF y
<1>3. InsertOK(x) => InsertOK(y)
    BY <1>2 DEF InsertOK
<1>4. RemovalOK(t, x) => RemovalOK(t, y)
  <2>1. SUFFICES ASSUME RemovalOK(t, x)
                 PROVE  RemovalOK(t, y)
      OBVIOUS
  <2>2. ASSUME NEW r \in y.held["delete"]
        PROVE  \E n \in 1 .. 4 : /\ n <= y.done + 1 /\ r \in RowsOf[RemovalTables[n]]
                                /\ Work[t].subject \in Parents[r]
    <3>1. PICK n \in 1 .. 4 : /\ n <= x.done + 1 /\ r \in RowsOf[RemovalTables[n]]
                             /\ Work[t].subject \in Parents[r]
        BY <1>2, <2>1 DEF RemovalOK
    <3> QED BY <1>2, <3>1
  <2>3. ASSUME NEW r \in y.todo
        PROVE  y.done = x.done
      BY <1>2, <2>3
  <2> QED BY <1>2, <2>1, <2>2, <2>3 DEF RemovalOK
<1>5. AccountOK(t, x) => AccountOK(t, y)
    BY <1>2 DEF AccountOK
<1>6. KindOK(t, y)
    BY <1>3, <1>4, <1>5 DEF KindOK
<1> QED BY <1>1, <1>6 DEF KInv

\* What the statements of a deletion select by its memories and its gaps names one of them.
LEMMA SelectedNames ==
    ASSUME IInv, NEW t \in Requests, IsDeletion(t), tx[t].workspaces \subseteq Homes(t),
           NEW K \in {"memories", "experience_gaps"},
           NEW T \in {"memory_evidence", "memory_feedback", "memory_relations",
                      "gap_memory_links"},
           NEW r \in RowsOf[T],
           LET ids == Selected(Seen(t), K, tx[t].workspaces)
           IN  r \in ids \/ Parents[r] \cap ids # {}
    PROVE  \E p \in Parents[r] \cap RowsOf[K] : InHomes(t, p)
<1> DEFINE ids == Selected(Seen(t), K, tx[t].workspaces)
<1>1. K \in Tables /\ T \in Tables /\ K # T /\ K # "workspaces" /\ "workspaces" \in Tables
    BY TablesAre
<1>2. ids \subseteq RowsOf[K]
    BY DEF Selected
<1>3. r \notin ids
    BY <1>1, <1>2, RowsAre
<1>4. PICK p \in Parents[r] : p \in ids
    BY <1>3
<1>5. p \notin Homes(t)
    BY <1>1, <1>2, <1>4, OursIs, RowsAre
<1>6. InHomes(t, p)
    BY <1>4, <1>5 DEF Selected, InHomes
<1> QED BY <1>2, <1>4, <1>6

LEMMA StartKinds ==
    ASSUME IInv, DInv, KInv, NEW t \in Requests, StartStatement(t)
    PROVE  KInv'
<1> DEFINE n == tx[t].done + 1
           x == [tx[t] EXCEPT !.state = "within", !.todo = Targets(t),
                              !.staged = IF Work[t].kind = "insert"
                                         THEN @ \cup {Work[t].rows[n]} ELSE @]
<1>1. /\ tx[t] \in Transactions /\ tx[t].done \in Nat /\ Length(t) \in Nat
      /\ tx[t].state = "between" /\ tx[t].done < Length(t)
      /\ TxOK(t, tx[t]) /\ tx[t].staged \subseteq Ids
    BY LengthType DEF IInv, TypeOK, StartStatement, Transactions
<1>2. /\ tx[t].todo = {} /\ tx[t].fired = {} /\ tx[t].later = {}
      /\ n \in 1 .. Length(t)
    BY <1>1 DEF TxOK, IdleOK
<1>3. Work[t].kind \in Kinds /\ Work[t].rows \in Seq(Ids \ Initial)
    BY WorkAssumption
<1>4. Work[t].kind = "insert" => n \in DOMAIN Work[t].rows /\ Work[t].rows[n] \in Ids
    BY <1>2, <1>3 DEF Length
<1>5. Targets(t) = TargetsAt(t, n) /\ Targets(t) \subseteq Ids
    BY <1>2, TargetsType DEF Targets
<1>6. /\ x \in Transactions
      /\ x.state = "within" /\ x.done = tx[t].done /\ x.held = tx[t].held
      /\ x.fired = {} /\ x.later = {} /\ x.todo = TargetsAt(t, n)
    BY <1>1, <1>2, <1>4, <1>5 DEF Transactions, States, Running
<1>7. tx' = [tx EXCEPT ![t] = Settled(x)]
    BY DEF StartStatement
<1> HIDE DEF x
<1>8. KindOK(t, tx[t])
    BY DEF KInv
<1>9. ASSUME Work[t].kind = "insert"
      PROVE  KindOK(t, x)
  <2>1. x.todo \subseteq Parents[Work[t].rows[n]]
      BY <1>6, <1>9 DEF TargetsAt
  <2>2. \A r \in x.todo : Referenced(r)
      BY <1>4, <1>9, <2>1, ParentsAreReferenced
  <2>3. InsertOK(x)
      BY <1>6, <1>8, <1>9, <2>2 DEF KindOK, InsertOK
  <2> QED BY <1>9, <2>3 DEF KindOK, IsDeletion
<1>10. ASSUME Work[t].kind = "remove_memory"
       PROVE  KindOK(t, x)
  <2>1. n \in 1 .. 5
      BY <1>2, <1>10 DEF Length
  <2>2. x.todo = Selected(Seen(t), RemovalTables[n], {Work[t].subject})
      BY <1>6, <1>10 DEF TargetsAt
  <2>3. Work[t].subject \in RowsOf["memories"]
      BY <1>10, WorkAssumption
  <2>4. ASSUME NEW r \in x.todo
        PROVE  /\ x.done \in 0 .. 4 /\ r \in RowsOf[RemovalTables[x.done + 1]]
               /\ IF x.done = 4 THEN r = Work[t].subject ELSE Work[t].subject \in Parents[r]
    <3>1. x.done \in 0 .. 4 /\ r \in RowsOf[RemovalTables[n]]
        BY <1>1, <1>6, <2>1, <2>2, <2>4 DEF Selected
    <3>2. r = Work[t].subject \/ Work[t].subject \in Parents[r]
        BY <2>2, <2>4 DEF Selected
    <3>3. CASE n = 5
      <4>1. r \in RowsOf["memories"]
          BY <3>1, <3>3 DEF RemovalTables
      <4>2. ASSUME NEW p \in Parents[r]
            PROVE  p \notin RowsOf["memories"]
        <5>1. r \in Ids /\ Row[r].table = "memories"
            BY <4>1, RowsAre, TablesAre
        <5>2. PICK c \in DOMAIN Row[r].refs : p = Row[r].refs[c]
            BY <5>1 DEF Parents
        <5>3. c \in {"workspace_id", "author_agent_id"}
            BY <4>1, AuthorsAssumption
        <5> QED BY <5>1, <5>2, <5>3, References, NamedIs, Columns, RowsAre, TablesAre
      <4> QED BY <1>1, <1>6, <2>3, <3>1, <3>2, <3>3, <4>2
    <3>4. CASE n # 5
      <4>1. RemovalTables[n] \in Tables \ {"memories"}
          BY <2>1, <3>4, TablesAre DEF RemovalTables
      <4>2. r # Work[t].subject
          BY <2>3, <3>1, <4>1, RowsAre, TablesAre
      <4> QED BY <1>1, <1>6, <3>1, <3>2, <3>4, <4>2
    <3> QED BY <3>3, <3>4
  <2>5. RemovalOK(t, tx[t])
      BY <1>8, <1>10 DEF KindOK
  <2>6. RemovalOK(t, x)
      BY <1>6, <2>4, <2>5 DEF RemovalOK
  <2> QED BY <1>10, <2>6 DEF KindOK, IsDeletion
<1>11. ASSUME IsDeletion(t)
       PROVE  KindOK(t, x)
  <2>1. n \in 1 .. 12 /\ AccountOK(t, tx[t])
      BY <1>2, <1>8, <1>11, DeletionLength DEF KindOK
  <2> DEFINE ws == tx[t].workspaces
             memories == Selected(Seen(t), "memories", ws)
             gaps == Selected(Seen(t), "experience_gaps", ws)
  <2>2. ws \subseteq Homes(t)
      BY <1>1, <1>11 DEF DInv, DeletionOK, ScopeOK, Running
  <2>3. \E T \in Tables : /\ x.todo \subseteq RowsOf[T]
                          /\ n = 1 <=> T = "memory_feedback" /\ n # 4
                          /\ n = 2 <=> T = "memory_relations"
                          /\ n = 3 <=> T = "memory_evidence"
                          /\ n = 4 <=> T = "memory_feedback" /\ n # 1
                          /\ n = 5 <=> T = "gap_memory_links"
                          /\ n \in 2 .. 4 => \A r \in x.todo :
                                r \in memories \/ Parents[r] \cap memories # {}
                          /\ n = 5 => \A r \in x.todo :
                                \/ r \in memories \/ Parents[r] \cap memories # {}
                                \/ r \in gaps \/ Parents[r] \cap gaps # {}
    <3>1. /\ n = 1 => x.todo = Selected(Seen(t), "memory_feedback", {Work[t].subject} \cup tx[t].agents)
          /\ n = 2 => x.todo = Selected(Seen(t), "memory_relations", memories)
          /\ n = 3 => x.todo = Selected(Seen(t), "memory_evidence", memories)
          /\ n = 4 => x.todo = Selected(Seen(t), "memory_feedback", memories)
          /\ n = 5 => x.todo = Selected(Seen(t), "gap_memory_links", gaps \cup memories)
          /\ n = 6 => x.todo = memories
          /\ n = 7 => x.todo = gaps
          /\ n = 8 => x.todo = Selected(Seen(t), "agent_keys", tx[t].agents)
          /\ n = 9 => x.todo = Selected(Seen(t), "agents", ws)
          /\ n = 10 => x.todo = Selected(Seen(t), "developer_sessions", {Work[t].subject})
          /\ n = 11 => x.todo = Selected(Seen(t), "workspaces", {Work[t].subject})
          /\ n = 12 => x.todo = Selected(Seen(t), "developers", {Work[t].subject})
        BY <1>6, <1>11, <2>1, EarlyStatements, LastStatements
    <3> DEFINE T == CASE n \in {1, 4} -> "memory_feedback"
                      [] n = 2 -> "memory_relations"
                      [] n = 3 -> "memory_evidence"
                      [] n = 5 -> "gap_memory_links"
                      [] n = 6 -> "memories"
                      [] n = 7 -> "experience_gaps"
                      [] n = 8 -> "agent_keys"
                      [] n = 9 -> "agents"
                      [] n = 10 -> "developer_sessions"
                      [] n = 11 -> "workspaces"
                      [] OTHER -> "developers"
    <3> HIDE DEF n
    <3>2. T \in Tables
        BY TablesAre
    <3>3. x.todo \subseteq RowsOf[T]
        BY <2>1, <3>1 DEF Selected
    <3>4. /\ n \in 2 .. 4 => \A r \in x.todo : r \in memories \/ Parents[r] \cap memories # {}
          /\ n = 5 => \A r \in x.todo : \/ r \in memories \/ Parents[r] \cap memories # {}
                                       \/ r \in gaps \/ Parents[r] \cap gaps # {}
      <4> HIDE DEF memories, gaps
      <4> QED BY <3>1 DEF Selected
    <3> HIDE DEF memories, gaps
    <3> QED BY <2>1, <3>2, <3>3, <3>4
  <2>4. PICK T \in Tables :
           /\ x.todo \subseteq RowsOf[T]
           /\ n = 1 <=> T = "memory_feedback" /\ n # 4
           /\ n = 2 <=> T = "memory_relations"
           /\ n = 3 <=> T = "memory_evidence"
           /\ n = 4 <=> T = "memory_feedback" /\ n # 1
           /\ n = 5 <=> T = "gap_memory_links"
           /\ n \in 2 .. 4 => \A r \in x.todo : r \in memories \/ Parents[r] \cap memories # {}
           /\ n = 5 => \A r \in x.todo : \/ r \in memories \/ Parents[r] \cap memories # {}
                                        \/ r \in gaps \/ Parents[r] \cap gaps # {}
      BY <2>3
  <2>5. ASSUME NEW r \in x.todo
        PROVE  /\ n \in 2 .. 4 => OwnMemory(t, r)
               /\ n = 5 => OwnMemory(t, r) \/ OwnGap(t, r)
    <3>1. ASSUME NEW K \in {"memories", "experience_gaps"}, n \in 2 .. 5,
                 r \in Selected(Seen(t), K, ws) \/ Parents[r] \cap Selected(Seen(t), K, ws) # {}
          PROVE  \E p \in Parents[r] \cap RowsOf[K] : InHomes(t, p)
      <4>1. T \in {"memory_evidence", "memory_feedback", "memory_relations", "gap_memory_links"}
          BY <2>4, <3>1
      <4> QED BY <1>11, <2>2, <2>4, <3>1, <4>1, SelectedNames
    <3> QED BY <2>4, <3>1 DEF OwnMemory, OwnGap
  <2> HIDE DEF memories, gaps
  <2>6. ASSUME NEW r \in x.todo
        PROVE  /\ r \in RowsOf["memory_feedback"] <=> T = "memory_feedback"
               /\ r \in RowsOf["memory_relations"] <=> T = "memory_relations"
               /\ r \in RowsOf["memory_evidence"] <=> T = "memory_evidence"
               /\ r \in RowsOf["gap_memory_links"] <=> T = "gap_memory_links"
      BY <2>4, RowsAre, TablesAre
  <2>7. AccountOK(t, x)
      BY <1>1, <1>6, <2>1, <2>4, <2>5, <2>6 DEF AccountOK
  <2> QED BY <1>11, <2>7 DEF KindOK, IsDeletion
<1> QED BY <1>3, <1>6, <1>7, <1>9, <1>10, <1>11, InnerKinds DEF Kinds, IsDeletion

LEMMA TakeKinds ==
    ASSUME IInv, KInv, NEW t \in Requests, NEW r \in tx[t].todo, Take(t, r)
    PROVE  KInv'
<1> DEFINE mode == ModeAt(t, tx[t].done + 1)
           x == [tx[t] EXCEPT !.todo = @ \ {r},
                              !.held[Mode(t)] = @ \cup {r},
                              !.later = IF Mode(t) = "delete" /\ Referenced(r)
                                        THEN @ \cup {r} ELSE @]
<1>1. /\ tx[t] \in Transactions /\ tx[t].state = "within" /\ r \in Ids
      /\ tx[t].held \in [Modes -> SUBSET Ids] /\ tx[t].done \in Nat
      /\ TxOK(t, tx[t]) /\ KindOK(t, tx[t])
    BY DEF IInv, KInv, TypeOK, Take, Transactions
<1>2. mode \in Modes /\ Mode(t) = mode /\ Modes = {"delete", "update", "share"}
    BY ModeTypes DEF Mode, Modes
<1>3. /\ Work[t].kind = "insert" => mode = "share"
      /\ IsDeletion(t) => mode = "delete"
      /\ Work[t].kind = "remove_memory" => mode = IF tx[t].done = 4 THEN "update" ELSE "delete"
    BY <1>1 DEF ModeAt, IsDeletion
<1> HIDE DEF mode
<1>4. /\ x.held = [tx[t].held EXCEPT ![mode] = @ \cup {r}]
      /\ x.later = IF mode = "delete" /\ Referenced(r) THEN tx[t].later \cup {r} ELSE tx[t].later
      /\ x.state = "within" /\ x.done = tx[t].done
      /\ x.fired = tx[t].fired /\ x.todo = tx[t].todo \ {r}
    BY <1>1, <1>2 DEF Transactions
<1>5. x \in Transactions
  <2>1. x.held \in [Modes -> SUBSET Ids]
      BY <1>1, <1>2, <1>4
  <2>2. x.later \in SUBSET Ids /\ x.todo \in SUBSET Ids
      BY <1>1, <1>4 DEF Transactions
  <2> QED BY <1>1, <1>2, <2>1, <2>2 DEF Transactions
<1>6. tx' = [tx EXCEPT ![t] = Settled(x)]
    BY DEF Take
<1> HIDE DEF x
<1>7. \A m \in Modes : x.held[m] = IF m = mode THEN tx[t].held[m] \cup {r} ELSE tx[t].held[m]
    BY <1>1, <1>2, <1>4
<1>8. ASSUME Work[t].kind = "insert"
      PROVE  InsertOK(x)
    BY <1>1, <1>2, <1>3, <1>4, <1>7, <1>8 DEF KindOK, InsertOK
<1>9. ASSUME Work[t].kind = "remove_memory"
      PROVE  RemovalOK(t, x)
  <2>1. RemovalOK(t, tx[t])
      BY <1>1, <1>9 DEF KindOK
  <2>2. /\ tx[t].done \in 0 .. 4 /\ r \in RowsOf[RemovalTables[tx[t].done + 1]]
        /\ IF tx[t].done = 4 THEN r = Work[t].subject ELSE Work[t].subject \in Parents[r]
      BY <2>1 DEF RemovalOK
  <2>3. CASE tx[t].done = 4
      BY <1>2, <1>3, <1>4, <1>7, <1>9, <2>1, <2>2, <2>3 DEF RemovalOK
  <2>4. CASE tx[t].done # 4
    <3>1. tx[t].done + 1 \in 1 .. 4
        BY <2>2, <2>4
    <3>2. ~ Referenced(r)
      <4>1. RemovalTables[tx[t].done + 1] \in
               {"memory_evidence", "memory_feedback", "memory_relations", "gap_memory_links"}
          BY <3>1 DEF RemovalTables
      <4> QED BY <2>2, <4>1, RowsAre, TablesAre DEF Referenced
    <3>3. x.held["delete"] = tx[t].held["delete"] \cup {r} /\ x.held["update"] = tx[t].held["update"]
          /\ x.held["share"] = tx[t].held["share"]
        BY <1>2, <1>3, <1>7, <1>9, <2>4
    <3>4. \A v \in x.held["delete"] : \E n \in 1 .. 4 :
             n <= x.done + 1 /\ v \in RowsOf[RemovalTables[n]] /\ Work[t].subject \in Parents[v]
      <4>1. /\ tx[t].done + 1 \in 1 .. 4 /\ tx[t].done + 1 <= x.done + 1
            /\ r \in RowsOf[RemovalTables[tx[t].done + 1]] /\ Work[t].subject \in Parents[r]
          BY <1>4, <2>2, <2>4, <3>1
      <4>2. \A v \in tx[t].held["delete"] : \E n \in 1 .. 4 :
               n <= x.done + 1 /\ v \in RowsOf[RemovalTables[n]] /\ Work[t].subject \in Parents[v]
          BY <1>4, <2>1 DEF RemovalOK
      <4> QED BY <3>3, <4>1, <4>2
    <3> QED BY <1>4, <2>1, <3>2, <3>3, <3>4 DEF RemovalOK
  <2> QED BY <2>3, <2>4
<1>10. ASSUME IsDeletion(t)
       PROVE  AccountOK(t, x)
  <2>1. AccountOK(t, tx[t])
      BY <1>1, <1>10 DEF KindOK
  <2>2. /\ x.held["delete"] = tx[t].held["delete"] \cup {r}
        /\ x.held["update"] = tx[t].held["update"] /\ x.held["share"] = tx[t].held["share"]
      BY <1>2, <1>3, <1>7, <1>10
  <2> QED BY <1>4, <2>1, <2>2 DEF AccountOK
<1> QED BY <1>4, <1>5, <1>6, <1>8, <1>9, <1>10, InnerKinds DEF KindOK

LEMMA PassKinds ==
    ASSUME IInv, KInv, NEW t \in Requests, NEW r \in tx[t].todo, Pass(t, r)
    PROVE  KInv'
<1> DEFINE x == [tx[t] EXCEPT !.todo = @ \ {r}]
<1>1. tx[t] \in Transactions /\ tx[t].state = "within" /\ KindOK(t, tx[t])
    BY DEF IInv, KInv, TypeOK, Pass
<1>2. /\ x \in Transactions
      /\ x.held = tx[t].held /\ x.todo = tx[t].todo \ {r} /\ x.state = "within"
      /\ x.done = tx[t].done /\ x.fired = tx[t].fired /\ x.later = tx[t].later
    BY <1>1 DEF Transactions
<1>3. tx' = [tx EXCEPT ![t] = Settled(x)]
    BY DEF Pass
<1> HIDE DEF x
<1>4. KindOK(t, x)
  <2>1. InsertOK(tx[t]) => InsertOK(x)
      BY <1>2 DEF InsertOK
  <2>2. RemovalOK(t, tx[t]) => RemovalOK(t, x)
      BY <1>2 DEF RemovalOK
  <2>3. AccountOK(t, tx[t]) => AccountOK(t, x)
      BY <1>2 DEF AccountOK
  <2> QED BY <1>1, <2>1, <2>2, <2>3 DEF KindOK
<1> QED BY <1>2, <1>3, <1>4, InnerKinds

LEMMA FireKinds ==
    ASSUME IInv, DInv, KInv, NEW t \in Requests, NEW r \in tx[t].fired, Fire(t, r)
    PROVE  KInv'
<1> DEFINE x == [tx[t] EXCEPT !.fired = @ \ {r}, !.todo = Children(t, r, "cascade")]
<1>1. /\ tx[t] \in Transactions /\ tx[t].state = "within" /\ tx[t].todo = {} /\ r \in Ids
      /\ tx[t].done \in Nat /\ TxOK(t, tx[t]) /\ KindOK(t, tx[t])
    BY DEF IInv, KInv, TypeOK, Fire, Transactions
<1>2. Children(t, r, "cascade") \subseteq Ids
    BY DEF Children, IInv, TypeOK
<1>3. /\ x \in Transactions
      /\ x.held = tx[t].held /\ x.todo = Children(t, r, "cascade") /\ x.state = "within"
      /\ x.done = tx[t].done /\ x.fired = tx[t].fired \ {r} /\ x.later = tx[t].later
    BY <1>1, <1>2 DEF Transactions
<1>4. tx' = [tx EXCEPT ![t] = Settled(x)]
    BY DEF Fire
<1> HIDE DEF x
<1>5. IsDeletion(t)
  <2>1. Work[t].kind # "insert"
      BY <1>1, ModeTypes DEF TxOK, ChildrenOK
  <2>2. Work[t].kind # "remove_memory"
      BY <1>1 DEF KindOK, RemovalOK
  <2> QED BY <2>1, <2>2, WorkAssumption DEF Kinds, IsDeletion
<1>6. AccountOK(t, tx[t])
    BY <1>1, <1>5 DEF KindOK
<1>7. r \in Ours(t) /\ tx[t].done >= 5
    BY <1>1, <1>5 DEF DInv, DeletionOK, LevelsOK, Running
<1>8. ASSUME NEW v \in x.todo
      PROVE  /\ v \in RowsOf["memory_evidence"] \cup RowsOf["memory_feedback"]
                        \cup RowsOf["memory_relations"] => OwnMemory(t, v)
             /\ v \in RowsOf["gap_memory_links"] => OwnMemory(t, v) \/ OwnGap(t, v)
  <2>1. v \in Referring["cascade"][r]
      BY <1>3 DEF Children
  <2>2. r \in RowsOf["memories"] \cup RowsOf["experience_gaps"] => InHomes(t, r)
      BY <1>5, <1>7, OursIs
  <2> QED BY <1>1, <2>1, <2>2, CascadeNames DEF OwnMemory, OwnGap
<1>9. AccountOK(t, x)
  <2>1. /\ x.held["share"] = {} /\ x.held["update"] = {}
        /\ x.done \in Nat /\ x.done >= 5
      BY <1>1, <1>3, <1>6, <1>7 DEF AccountOK
  <2>2. \A v \in x.held["delete"] : v \in RowsOf["memory_evidence"] => OwnMemory(t, v)
      BY <1>3, <1>6 DEF AccountOK
  <2> QED BY <1>8, <2>1, <2>2 DEF AccountOK
<1> QED BY <1>3, <1>4, <1>5, <1>9, InnerKinds DEF KindOK, IsDeletion

\* Nothing is held and nothing is to be locked before the first statement and after the end.
LEMMA IdleKinds ==
    ASSUME NEW t \in Requests, NEW x, x.todo = {}, x.fired = {}, x.later = {},
           \A mode \in Modes : x.held[mode] = {}
    PROVE  KindOK(t, x)
BY DEF KindOK, InsertOK, RemovalOK, AccountOK, Modes

\* The steps that begin and end a transaction change no other's locks.
LEMMA OuterKinds ==
    ASSUME KInv, NEW t \in Requests, KindOK(t, tx'[t]),
           \A u \in Requests \ {t} :
              /\ tx'[u].done = tx[u].done /\ tx'[u].held = tx[u].held /\ tx'[u].todo = tx[u].todo
              /\ tx'[u].fired = tx[u].fired /\ tx'[u].later = tx[u].later
    PROVE  KInv'
<1>1. ASSUME NEW u \in Requests \ {t}
      PROVE  KindOK(u, tx'[u])
  <2>1. KindOK(u, tx[u])
      BY DEF KInv
  <2> QED BY <1>1, <2>1 DEF KindOK, InsertOK, RemovalOK, AccountOK
<1>2. \A u \in Requests : KindOK(u, tx'[u])
    BY <1>1
<1> QED BY <1>2 DEF KInv, KindOK, InsertOK, RemovalOK, AccountOK

LEMMA BeginKinds ==
    ASSUME IInv, KInv, NEW t \in Requests, Begin(t)
    PROVE  KInv'
<1>1. tx[t] \in Transactions /\ tx[t].state = "waiting" /\ TxOK(t, tx[t])
    BY DEF IInv, TypeOK, Begin
<1>2. /\ \A u \in Requests \ {t} : tx'[u] = tx[u]
      /\ tx'[t].held = tx[t].held /\ tx'[t].todo = tx[t].todo
      /\ tx'[t].fired = tx[t].fired /\ tx'[t].later = tx[t].later
    BY <1>1 DEF Begin, IInv, TypeOK, Transactions
<1>3. /\ \A mode \in Modes : tx[t].held[mode] = {}
      /\ tx[t].todo = {} /\ tx[t].fired = {} /\ tx[t].later = {}
    BY <1>1 DEF TxOK, IdleOK, Running
<1>4. KindOK(t, tx'[t])
    BY <1>2, <1>3, IdleKinds
<1> QED BY <1>2, <1>4, OuterKinds

LEMMA EndKinds ==
    ASSUME IInv, KInv, NEW t \in Requests, NEW state \in {"refused", "aborted"}, End(t, state)
    PROVE  KInv'
<1>1. state \in States
    BY DEF States, Ended
<1>2. tx'[t] = Fresh(state) /\ \A u \in Requests \ {t} : tx'[u] = tx[u]
    BY DEF End, IInv, TypeOK
<1>3. KindOK(t, tx'[t])
    BY <1>1, <1>2, FreshType, IdleKinds
<1> QED BY <1>2, <1>3, OuterKinds

LEMMA CommitKinds ==
    ASSUME IInv, KInv, NEW t \in Requests, Commit(t)
    PROVE  KInv'
<1>1. /\ tx'[t] = Fresh("answered")
      /\ \A u \in Requests \ {t} :
            /\ tx'[u].done = tx[u].done /\ tx'[u].held = tx[u].held /\ tx'[u].todo = tx[u].todo
            /\ tx'[u].fired = tx[u].fired /\ tx'[u].later = tx[u].later
  <2>1. tx' = [u \in Requests |->
                  IF u = t THEN Fresh("answered")
                  ELSE IF tx[u].state \in Running /\ IsDeletion(u)
                       THEN [tx[u] EXCEPT !.new = @ \cup tx[t].staged]
                  ELSE tx[u]]
      BY DEF Commit
  <2>2. \A u \in Requests : tx[u] \in Transactions
      BY DEF IInv, TypeOK
  <2> QED BY <2>1, <2>2 DEF Transactions
<1>2. "answered" \in States
    BY DEF States, Ended
<1>3. KindOK(t, tx'[t])
    BY <1>1, <1>2, FreshType, IdleKinds
<1> QED BY <1>1, <1>3, OuterKinds

LEMMA InitKinds == Init => KInv
<1> SUFFICES ASSUME Init PROVE KInv
    OBVIOUS
<1>1. ASSUME NEW t \in Requests
      PROVE  KindOK(t, tx[t])
  <2>1. PICK state \in {"waiting", "away"} : tx[t] = Fresh(state)
      BY DEF Init
  <2> QED BY <2>1, FreshType, IdleKinds DEF States
<1> QED BY <1>1 DEF KInv

LEMMA NextKinds == IInv /\ DInv /\ KInv /\ [Next]_vars => KInv'
<1> SUFFICES ASSUME IInv, DInv, KInv, [Next]_vars PROVE KInv'
    OBVIOUS
<1>1. ASSUME NEW t \in Requests, Begin(t) PROVE KInv'
    BY <1>1, BeginKinds
<1>2. ASSUME NEW t \in Requests, StartStatement(t) PROVE KInv'
    BY <1>2, StartKinds
<1>3. ASSUME NEW t \in Requests, Commit(t) PROVE KInv'
    BY <1>3, CommitKinds
<1>4. ASSUME NEW t \in Requests, NEW r \in tx[t].todo, Take(t, r) PROVE KInv'
    BY <1>4, TakeKinds
<1>5. ASSUME NEW t \in Requests, NEW r \in tx[t].todo, Pass(t, r) PROVE KInv'
    BY <1>5, PassKinds
<1>6. ASSUME NEW t \in Requests, NEW r \in tx[t].fired, Fire(t, r) PROVE KInv'
    BY <1>6, FireKinds
<1>7. ASSUME NEW t \in Requests, Refuse(t) PROVE KInv'
    BY <1>7, EndKinds DEF Refuse
<1>8. ASSUME NEW t \in Requests, Drop(t) PROVE KInv'
    BY <1>8, EndKinds DEF Drop
<1>9. ASSUME BreakDeadlock PROVE KInv'
  <2>1. PICK t \in UNION Deadlocks : End(t, "aborted") /\ UNCHANGED live
      BY <1>9 DEF BreakDeadlock
  <2> QED BY <2>1, EndKinds DEF Deadlocks
<1>10. CASE UNCHANGED vars
    BY <1>10 DEF vars, KInv, KindOK, InsertOK, RemovalOK, AccountOK
<1> QED BY <1>1, <1>2, <1>3, <1>4, <1>5, <1>6, <1>7, <1>8, <1>9, <1>10 DEF Next

-----------------------------------------------------------------------------
(* Who waits for whom.                                                     *)

LEMMA RemovalTablesAre ==
    /\ RemovalTables[1] = "memory_evidence" /\ RemovalTables[2] = "memory_feedback"
    /\ RemovalTables[3] = "memory_relations" /\ RemovalTables[4] = "gap_memory_links"
    /\ RemovalTables[5] = "memories"
BY DEF RemovalTables

\* What a removal has deleted: a row that names its memory and that nothing refers to.
LEMMA RemovedRows ==
    ASSUME IInv, KInv, NEW u \in Requests, Work[u].kind = "remove_memory",
           NEW r \in tx[u].held["delete"]
    PROVE  /\ r \in live /\ r \in Ids /\ ~ Referenced(r) /\ Work[u].subject \in Parents[r]
           /\ \A t \in Requests \ {u} : r \notin tx[t].held["delete"]
           /\ r \in RowsOf["memory_evidence"] \cup RowsOf["memory_feedback"]
                    \cup RowsOf["memory_relations"] \cup RowsOf["gap_memory_links"]
           /\ \A k \in 0 .. 4 : r \in RowsOf[RemovalTables[k + 1]] => k < 4 /\ k <= tx[u].done
<1>1. RemovalOK(u, tx[u]) /\ LocksOK(u, tx[u]) /\ live \subseteq Ids /\ "delete" \in Modes
    BY DEF KInv, KindOK, IInv, TxOK, TypeOK, Modes
<1>2. PICK n \in 1 .. 4 : /\ n <= tx[u].done + 1 /\ r \in RowsOf[RemovalTables[n]]
                         /\ Work[u].subject \in Parents[r]
    BY <1>1 DEF RemovalOK
<1>3. r \in live /\ \A t \in Requests \ {u} : r \notin tx[t].held["delete"]
    BY <1>1 DEF LocksOK, Deleted
<1>4. r \in RowsOf["memory_evidence"] \cup RowsOf["memory_feedback"]
              \cup RowsOf["memory_relations"] \cup RowsOf["gap_memory_links"]
    BY <1>2, RemovalTablesAre
<1>5. ~ Referenced(r)
    BY <1>4, RowsAre, TablesAre DEF Referenced
<1>6. ASSUME NEW k \in 0 .. 4, r \in RowsOf[RemovalTables[k + 1]]
      PROVE  k < 4 /\ k <= tx[u].done
  <2>1. tx[u].done \in Nat
      BY DEF IInv, TypeOK, Transactions
  <2>2. k + 1 = n
    <3>1. \A i \in 1 .. 5 : RemovalTables[i] \in Tables
        BY RemovalTablesAre, TablesAre
    <3>2. RemovalTables[k + 1] = RemovalTables[n]
        BY <1>2, <1>6, <3>1, RowsAre
    <3> QED BY <3>2, RemovalTablesAre
  <2> QED BY <1>2, <2>1, <2>2
<1> QED BY <1>1, <1>2, <1>3, <1>4, <1>5, <1>6

\* An INSERT waits for deletions of accounts only.
LEMMA InsertWaits ==
    ASSUME IInv, KInv, NEW u \in Requests, Work[u].kind = "insert",
           NEW v \in Requests, WaitsFor(u, v)
    PROVE  v # u /\ IsDeletion(v)
<1>1. InsertOK(tx[u]) /\ TxOK(u, tx[u]) /\ Mode(u) = "share"
    BY ModeTypes DEF KInv, KindOK, IInv, Mode
<1>2. tx[u].fired = {}
    BY <1>1, ModeTypes DEF TxOK, ChildrenOK
<1>3. PICK r \in tx[u].todo : v \in Holders(u, r)
    BY <1>2 DEF WaitsFor
<1>4. v # u /\ r \in tx[v].held["delete"] /\ Referenced(r)
    BY <1>1, <1>3 DEF Holders, Clash, Modes, InsertOK
<1>5. Work[v].kind # "insert"
    BY <1>4 DEF KInv, KindOK, InsertOK
<1>6. Work[v].kind # "remove_memory"
    BY <1>4, RemovedRows
<1> QED BY <1>4, <1>5, <1>6, WorkAssumption DEF Kinds, IsDeletion

\* A removal waits for a row that another has deleted, or for another of the same memory.
LEMMA RemovalWaits ==
    ASSUME IInv, KInv, NEW u \in Requests, Work[u].kind = "remove_memory",
           NEW v \in Requests, WaitsFor(u, v)
    PROVE  /\ v # u /\ Work[v].kind # "insert"
           /\ tx[u].done \in 0 .. 4 /\ tx[u].todo # {}
           /\ tx[u].todo \subseteq RowsOf[RemovalTables[tx[u].done + 1]]
           /\ \E r \in tx[u].todo :
                 /\ IF tx[u].done = 4 THEN r = Work[u].subject ELSE Work[u].subject \in Parents[r]
                 /\ \/ r \in tx[v].held["delete"]
                    \/ /\ Work[v].kind = "remove_memory" /\ Work[v].subject = Work[u].subject
                       /\ tx[u].done = 4 /\ tx[v].done >= 4
<1>1. RemovalOK(u, tx[u]) /\ Work[u].subject \in RowsOf["memories"]
    BY WorkAssumption DEF KInv, KindOK
<1>2. PICK r \in tx[u].todo : v \in Holders(u, r)
    BY <1>1 DEF WaitsFor, RemovalOK
<1>3. PICK mode \in Modes : r \in tx[v].held[mode] /\ Clash(Mode(u), mode) /\ v # u
    BY <1>2 DEF Holders
<1>4. /\ tx[u].done \in 0 .. 4 /\ r \in RowsOf[RemovalTables[tx[u].done + 1]]
      /\ IF tx[u].done = 4 THEN r = Work[u].subject ELSE Work[u].subject \in Parents[r]
    BY <1>1 DEF RemovalOK
<1>5. Mode(u) = IF tx[u].done = 4 THEN "update" ELSE "delete"
    BY <1>4 DEF Mode, ModeAt
<1>6. tx[u].todo \subseteq RowsOf[RemovalTables[tx[u].done + 1]]
    BY <1>1 DEF RemovalOK
<1>7. tx[u].done # 4 => ~ Referenced(r) /\ r \notin RowsOf["memories"]
  <2>1. tx[u].done # 4 =>
           \E T \in {"memory_evidence", "memory_feedback", "memory_relations", "gap_memory_links"} :
              r \in RowsOf[T]
      BY <1>4, RemovalTablesAre
  <2> QED BY <2>1, RowsAre, TablesAre DEF Referenced
<1>8. CASE mode = "delete"
  <2>1. Work[v].kind # "insert"
      BY <1>3, <1>8 DEF KInv, KindOK, InsertOK
  <2> QED BY <1>3, <1>4, <1>6, <1>8, <2>1
<1>9. CASE mode = "update"
  <2>1. Work[v].kind = "remove_memory"
      BY <1>3, <1>9, WorkAssumption DEF KInv, KindOK, InsertOK, AccountOK, IsDeletion, Kinds
  <2>2. r = Work[v].subject /\ tx[v].done >= 4 /\ r \in RowsOf["memories"]
      BY <1>3, <1>9, <2>1, WorkAssumption DEF KInv, KindOK, RemovalOK
  <2>3. tx[u].done = 4
      BY <1>7, <2>2
  <2> QED BY <1>3, <1>4, <1>6, <2>1, <2>2, <2>3
<1>10. CASE mode = "share"
  <2>1. Work[v].kind = "insert"
      BY <1>3, <1>10, WorkAssumption DEF KInv, KindOK, RemovalOK, AccountOK, IsDeletion, Kinds
  <2>2. Referenced(r)
      BY <1>3, <1>10, <2>1 DEF KInv, KindOK, InsertOK
  <2> QED BY <1>3, <1>5, <1>7, <1>10, <2>2 DEF Clash
<1> QED BY <1>8, <1>9, <1>10 DEF Modes

LEMMA RemovalsInOrder ==
    ASSUME IInv, KInv, NEW u \in Requests, Work[u].kind = "remove_memory",
           NEW v \in Requests, Work[v].kind = "remove_memory", WaitsFor(u, v)
    PROVE  tx[u].done <= tx[v].done
<1>1. PICK r \in tx[u].todo :
         \/ r \in tx[v].held["delete"]
         \/ tx[u].done = 4 /\ tx[v].done >= 4
    BY RemovalWaits
<1>2. tx[u].done \in 0 .. 4 /\ r \in RowsOf[RemovalTables[tx[u].done + 1]]
    BY RemovalWaits
<1>3. tx[v].done \in Nat
    BY DEF IInv, TypeOK, Transactions
<1>4. CASE r \in tx[v].held["delete"]
    BY <1>2, <1>4, RemovedRows
<1>5. CASE tx[u].done = 4 /\ tx[v].done >= 4
    BY <1>3, <1>5
<1> QED BY <1>1, <1>4, <1>5

\* Two removals that wait for each other remove the same memory: two memories share one
\* row at most.
LEMMA PairsShareTheirMemory ==
    ASSUME IInv, KInv, NEW u \in Requests, Work[u].kind = "remove_memory",
           NEW v \in Requests, Work[v].kind = "remove_memory", WaitsFor(u, v), WaitsFor(v, u)
    PROVE  Work[u].subject = Work[v].subject
<1> SUFFICES ASSUME Work[u].subject # Work[v].subject
             PROVE  FALSE
    OBVIOUS
<1>1. /\ Work[u].subject \in RowsOf["memories"] /\ Work[v].subject \in RowsOf["memories"]
      /\ u # v
    BY WorkAssumption
<1>2. tx[u].done = tx[v].done /\ tx[u].done \in 0 .. 4
  <2>1. tx[u].done <= tx[v].done /\ tx[v].done <= tx[u].done
      BY RemovalsInOrder
  <2>2. tx[u].done \in 0 .. 4 /\ tx[v].done \in 0 .. 4
      BY RemovalWaits
  <2> QED BY <2>1, <2>2
<1>3. PICK r \in tx[u].todo :
         /\ IF tx[u].done = 4 THEN r = Work[u].subject ELSE Work[u].subject \in Parents[r]
         /\ r \in tx[v].held["delete"] /\ r \in RowsOf[RemovalTables[tx[u].done + 1]]
    BY RemovalWaits
<1>4. PICK w \in tx[v].todo :
         /\ IF tx[v].done = 4 THEN w = Work[v].subject ELSE Work[v].subject \in Parents[w]
         /\ w \in tx[u].held["delete"] /\ w \in RowsOf[RemovalTables[tx[v].done + 1]]
    BY RemovalWaits
<1>5. /\ tx[u].done # 4
      /\ {Work[u].subject, Work[v].subject} \subseteq Parents[r]
      /\ {Work[u].subject, Work[v].subject} \subseteq Parents[w]
  <2>1. /\ Work[v].subject \in Parents[r] /\ Work[u].subject \in Parents[w]
        /\ tx[u].done < 4
      BY <1>2, <1>3, <1>4, RemovedRows
  <2> QED BY <1>2, <1>3, <1>4, <2>1
<1>6. r # w
    BY <1>1, <1>3, <1>4, RemovedRows
<1>7. CASE tx[u].done = 2
  <2>1. r \in RowsOf["memory_relations"] /\ w \in RowsOf["memory_relations"]
      BY <1>2, <1>3, <1>4, <1>7, RemovalTablesAre
  <2> QED BY <1>1, <1>5, <1>6, <2>1, TwoMemories
<1>8. CASE tx[u].done # 2
  <2>1. \E T \in {"memory_evidence", "memory_feedback", "gap_memory_links"} : r \in RowsOf[T]
      BY <1>2, <1>3, <1>5, <1>8, RemovalTablesAre
  <2> QED BY <1>1, <1>5, <2>1, OneMemory
<1> QED BY <1>7, <1>8

\* A deletion that nothing disturbs waits for the removal of another's memory only in the
\* statements for the ratings by the account, the relations and the links: what it locks
\* elsewhere names memories of the account, and relations and links that CASCADE or
\* RESTRICT would lead to are gone by then.
LEMMA DeletionWaits ==
    ASSUME IInv, DInv, KInv, NEW t \in Requests, IsDeletion(t), tx[t].state = "within",
           Quiet(t, tx[t]),
           NEW v \in Requests, Work[v].kind = "remove_memory", Work[v].subject \notin Ours(t),
           WaitsFor(t, v)
    PROVE  \E n \in {1, 2, 3} :
              /\ n = 1 => tx[t].done = 0
              /\ n = 2 => tx[t].done = 1
              /\ n = 3 => tx[t].done = 4
              /\ n <= tx[v].done
              /\ tx[t].todo # {} /\ tx[t].todo \subseteq RowsOf[RemovalTables[n + 1]]
<1>1. /\ LevelsOK(t, tx[t]) /\ SweptOK(t, tx[t]) /\ AccountOK(t, tx[t]) /\ RemovalOK(v, tx[v])
      /\ tx[t].done \in Nat /\ t # v /\ live \subseteq Ids
      /\ Work[v].subject \in RowsOf["memories"]
    BY WorkAssumption DEF DInv, DeletionOK, Running, KInv, KindOK, IInv, TypeOK, Transactions, IsDeletion
<1>2. ~ InHomes(t, Work[v].subject)
    BY <1>1, OursIs, RowsAre, TablesAre
<1>3. ASSUME NEW r \in tx[v].held["delete"],
             r \in RowsOf["memory_evidence"] \cup RowsOf["memory_feedback"]
      PROVE  ~ OwnMemory(t, r)
  <2>1. Work[v].subject \in Parents[r]
      BY RemovedRows
  <2> QED BY <1>1, <1>2, <1>3, <2>1, OneMemory DEF OwnMemory
\* Relations and links that name a part of the account are deleted by now.
<1>4. ASSUME NEW r \in tx[v].held["delete"], tx[t].done >= 5,
             \/ r \in RowsOf["memory_relations"] /\ OwnMemory(t, r)
             \/ r \in RowsOf["gap_memory_links"] /\ (OwnMemory(t, r) \/ OwnGap(t, r))
      PROVE  FALSE
  <2>1. r \in live /\ r \notin tx[t].held["delete"]
      BY <1>1, RemovedRows
  <2>2. Swept(t, r, 2) \/ Swept(t, r, 5)
      BY <1>4 DEF Swept
  <2> QED BY <1>1, <1>4, <2>1, <2>2 DEF SweptOK
<1>5. tx[t].todo # {}
  <2>1. SUFFICES ASSUME tx[t].todo = {}
                 PROVE  FALSE
      OBVIOUS
  <2>2. PICK r \in tx[t].fired : Awaited(t, r) \cap Deleted(v) # {}
      BY <2>1 DEF WaitsFor
  <2>3. PICK w : w \in Children(t, r, "restrict") /\ w \in tx[v].held["delete"]
      BY <2>2 DEF Awaited, Deleted
  <2>4. r \in Ours(t) /\ tx[t].done >= 5 /\ r \in Ids
      BY <1>1 DEF LevelsOK, IInv, TypeOK, Transactions
  <2>5. w \in Referring["restrict"][r] /\ r \in Parents[w]
      BY <2>3, <2>4, ReferringRefers DEF Children, Rules
  <2>6. w \in RowsOf["memory_relations"] /\ r \in RowsOf["memories"]
    <3>1. w \notin RowsOf["memories"] \cup RowsOf["experience_gaps"]
        BY <2>3, RemovedRows, RowsAre, TablesAre DEF Referenced
    <3> QED BY <2>4, <2>5, <3>1, RestrictRows
  <2>7. OwnMemory(t, w)
      BY <2>4, <2>5, <2>6, OursIs DEF OwnMemory
  <2> QED BY <1>4, <2>3, <2>4, <2>6, <2>7
<1>6. PICK r \in tx[t].todo : v \in Holders(t, r)
    BY <1>5 DEF WaitsFor
<1>7. PICK mode \in Modes : r \in tx[v].held[mode]
    BY <1>6 DEF Holders
<1>8. mode = "delete"
  <2>1. mode # "share"
      BY <1>1, <1>7 DEF RemovalOK
  <2>2. mode # "update"
    <3>1. SUFFICES ASSUME mode = "update"
                   PROVE  FALSE
        OBVIOUS
    <3>2. r = Work[v].subject /\ Referenced(r)
        BY <1>1, <1>7, <3>1, RowsAre, TablesAre DEF RemovalOK, Referenced
    <3> QED BY <1>1, <3>2 DEF LevelsOK
  <2> QED BY <2>1, <2>2 DEF Modes
<1>9. r \in tx[v].held["delete"]
    BY <1>7, <1>8
<1>10. /\ r \in RowsOf["memory_evidence"] \cup RowsOf["memory_feedback"]
                \cup RowsOf["memory_relations"] \cup RowsOf["gap_memory_links"]
       /\ \A k \in 0 .. 4 : r \in RowsOf[RemovalTables[k + 1]] => k <= tx[v].done
    BY <1>9, RemovedRows
<1>11. CASE r \in RowsOf["memory_evidence"]
    BY <1>1, <1>3, <1>9, <1>11 DEF AccountOK
<1>12. CASE r \in RowsOf["memory_feedback"]
  <2>1. tx[t].done = 0
      BY <1>1, <1>3, <1>9, <1>12 DEF AccountOK
  <2>2. tx[t].todo \subseteq RowsOf[RemovalTables[1 + 1]] /\ 1 <= tx[v].done
      BY <1>1, <1>10, <1>12, <2>1, RemovalTablesAre DEF AccountOK
  <2> QED BY <1>5, <2>1, <2>2
<1>13. CASE r \in RowsOf["memory_relations"]
  <2>1. tx[t].done = 1
      BY <1>1, <1>4, <1>9, <1>13 DEF AccountOK
  <2>2. tx[t].todo \subseteq RowsOf[RemovalTables[2 + 1]] /\ 2 <= tx[v].done
      BY <1>1, <1>10, <1>13, <2>1, RemovalTablesAre DEF AccountOK
  <2> QED BY <1>5, <2>1, <2>2
<1>14. CASE r \in RowsOf["gap_memory_links"]
  <2>1. tx[t].done = 4
      BY <1>1, <1>4, <1>9, <1>14 DEF AccountOK
  <2>2. tx[t].todo \subseteq RowsOf[RemovalTables[3 + 1]] /\ 3 <= tx[v].done
      BY <1>1, <1>10, <1>14, <2>1, RemovalTablesAre DEF AccountOK
  <2> QED BY <1>5, <2>1, <2>2
<1> QED BY <1>10, <1>11, <1>12, <1>13, <1>14

\* And the removal of another's memory waits for a deletion that is at least as far.
LEMMA RemovalWaitsForDeletion ==
    ASSUME IInv, DInv, KInv, NEW t \in Requests, IsDeletion(t), tx[t].state = "within",
           NEW u \in Requests, Work[u].kind = "remove_memory", Work[u].subject \notin Ours(t),
           WaitsFor(u, t)
    PROVE  /\ tx[u].done \in 1 .. 3
           /\ tx[u].done = 2 => tx[t].done >= 1
           /\ tx[u].done = 3 => tx[t].done >= 4
<1>1. /\ LevelsOK(t, tx[t]) /\ AccountOK(t, tx[t]) /\ Work[u].subject \in RowsOf["memories"]
    BY WorkAssumption DEF DInv, DeletionOK, Running, KInv, KindOK, IsDeletion
<1>2. Work[t].kind # "remove_memory"
    BY DEF IsDeletion
<1>3. PICK r \in tx[u].todo :
         /\ IF tx[u].done = 4 THEN r = Work[u].subject ELSE Work[u].subject \in Parents[r]
         /\ r \in tx[t].held["delete"] /\ r \in RowsOf[RemovalTables[tx[u].done + 1]]
         /\ tx[u].done \in 0 .. 4
    BY <1>2, RemovalWaits
<1>4. tx[u].done # 4
  <2>1. Referenced(Work[u].subject)
      BY <1>1, RowsAre, TablesAre DEF Referenced
  <2> QED BY <1>1, <1>3, <2>1 DEF LevelsOK
<1>5. tx[u].done # 0
  <2>1. SUFFICES ASSUME r \in RowsOf["memory_evidence"], Work[u].subject \in Parents[r]
                 PROVE  FALSE
      BY <1>3, RemovalTablesAre
  <2>2. PICK p \in Parents[r] \cap RowsOf["memories"] : InHomes(t, p)
      BY <1>1, <1>3, <2>1 DEF AccountOK, OwnMemory
  <2>3. p = Work[u].subject
      BY <1>1, <2>1, <2>2, OneMemory
  <2> QED BY <1>1, <2>2, <2>3, OursIs, RowsAre, TablesAre
<1>6. tx[u].done = 2 => r \in RowsOf["memory_relations"]
    BY <1>3, RemovalTablesAre
<1>7. tx[u].done = 3 => r \in RowsOf["gap_memory_links"]
    BY <1>3, RemovalTablesAre
<1> QED BY <1>1, <1>3, <1>4, <1>5, <1>6, <1>7 DEF AccountOK

-----------------------------------------------------------------------------
(* Circles.                                                                *)

LEMMA DeadlockIs ==
    ASSUME NEW D \in Deadlocks
    PROVE  /\ D \subseteq Requests /\ D # {}
           /\ \A t \in D : Stuck(t) /\ \E u \in D : WaitsFor(t, u)
           /\ \A E \in SUBSET D :
                 E # {} /\ (\A t \in E : \E u \in E : WaitsFor(t, u)) => E = D
<1> DEFINE Closed == {E \in (SUBSET {t \in Requests : Stuck(t)}) \ {{}} :
                         \A t \in E : \E u \in E : WaitsFor(t, u)}
<1>1. D \in Closed /\ \A E \in Closed : E \subseteq D => E = D
    BY DEF Deadlocks
<1>2. D # {} /\ \A t \in D : t \in Requests /\ Stuck(t)
    BY <1>1
<1>3. ASSUME NEW t \in D
      PROVE  \E u \in D : WaitsFor(t, u)
    BY <1>1
<1>4. ASSUME NEW E \in SUBSET D, E # {}, \A t \in E : \E u \in E : WaitsFor(t, u)
      PROVE  E = D
  <2>1. E \in (SUBSET {t \in Requests : Stuck(t)}) \ {{}}
      BY <1>2, <1>4
  <2>2. E \in Closed
      BY <1>4, <2>1
  <2> QED BY <1>1, <2>2
<1> QED BY <1>2, <1>3, <1>4

LEMMA NobodyWaitsForItself == ASSUME NEW t \in Requests PROVE ~ WaitsFor(t, t)
BY DEF WaitsFor, Holders, Awaited, Children

\* Everyone in a circle is equally far, by any measure that grows along it.
LEMMA OneLevel ==
    ASSUME NEW D \in Deadlocks, NEW f \in [D -> Nat],
           \A t, u \in D : WaitsFor(t, u) => f[t] <= f[u]
    PROVE  \A t, u \in D : f[t] = f[u]
<1>1. ASSUME NEW t \in D, NEW u \in D
      PROVE  f[t] <= f[u]
  <2> DEFINE E == {v \in D : f[t] <= f[v]}
  <2>1. t \in E
      BY DEF E
  <2>2. ASSUME NEW v \in E
        PROVE  \E w \in E : WaitsFor(v, w)
    <3>1. PICK w \in D : WaitsFor(v, w)
        BY DeadlockIs
    <3>2. f[t] <= f[v] /\ f[v] <= f[w]
        BY <3>1
    <3>3. f[t] \in Nat /\ f[v] \in Nat /\ f[w] \in Nat
        OBVIOUS
    <3> QED BY <3>1, <3>2, <3>3
  <2>3. E = D
      BY <2>1, <2>2, DeadlockIs
  <2> QED BY <2>3
<1>2. ASSUME NEW t \in D, NEW u \in D
      PROVE  f[t] = f[u]
    BY <1>1
<1> QED BY <1>2

\* How far a removal is, and how far a deletion is among the tables that they share.
Level(u) ==
    IF ~ IsDeletion(u) THEN tx[u].done
    ELSE IF tx[u].done = 0 THEN 1 ELSE IF tx[u].done < 4 THEN 2 ELSE 3

\* A circle in which a deletion and removals of others' memories wait takes one table.
LEMMA CirclesOfOneDeletion ==
    ASSUME IInv, DInv, KInv, NEW D \in Deadlocks, NEW t \in D, IsDeletion(t), Quiet(t, tx[t]),
           \A u \in D : IsDeletion(u) => u = t,
           \A u \in D : Work[u].kind = "remove_memory" => Work[u].subject \notin Ours(t),
           \E u \in D : Work[u].kind = "remove_memory"
    PROVE  \E table \in Tables :
              \A u \in D : tx[u].todo # {} /\ tx[u].todo \subseteq RowsOf[table]
<1> DEFINE removals == {u \in D : Work[u].kind = "remove_memory"}
<1>1. /\ D \subseteq Requests /\ removals # {} /\ t \notin removals
      /\ \A u \in Requests : tx[u].done \in Nat
      /\ tx[t].state = "within"
    BY DeadlockIs DEF IsDeletion, IInv, TypeOK, Transactions, Stuck
<1>2. \A u \in D : u = t \/ u \in removals \/ Work[u].kind = "insert"
    BY <1>1, WorkAssumption DEF Kinds, IsDeletion
<1>3. ASSUME NEW u \in D, Work[u].kind = "insert"
      PROVE  WaitsFor(u, t)
    BY <1>1, <1>3, DeadlockIs, InsertWaits
\* t waits for no INSERT: the two would be a circle of their own.
<1>4. ASSUME NEW u \in D, Work[u].kind = "insert", WaitsFor(t, u)
      PROVE  FALSE
  <2>1. {t, u} \in SUBSET D /\ {t, u} # {}
      BY <1>4
  <2>2. \A v \in {t, u} : \E w \in {t, u} : WaitsFor(v, w)
      BY <1>3, <1>4
  <2>3. {t, u} = D
      BY <2>1, <2>2, DeadlockIs
  <2> QED BY <1>1, <1>4, <2>3
<1>5. PICK v \in removals : WaitsFor(t, v)
  <2>1. PICK u \in D : WaitsFor(t, u)
      BY DeadlockIs
  <2>2. u # t
      BY <1>1, <2>1, NobodyWaitsForItself
  <2> QED BY <1>2, <1>4, <2>1, <2>2
<1>6. D = {t} \cup removals
  <2>1. ASSUME NEW u \in removals
        PROVE  \E w \in {t} \cup removals : WaitsFor(u, w)
    <3>1. PICK w \in D : WaitsFor(u, w)
        BY DeadlockIs
    <3>2. Work[w].kind # "insert"
        BY <1>1, <3>1, RemovalWaits
    <3> QED BY <1>2, <3>1, <3>2
  <2>2. {t} \cup removals \in SUBSET D /\ {t} \cup removals # {}
      OBVIOUS
  <2>3. \A u \in {t} \cup removals : \E w \in {t} \cup removals : WaitsFor(u, w)
      BY <1>5, <2>1
  <2> QED BY <2>2, <2>3, DeadlockIs
<1>7. PICK n \in {1, 2, 3} :
         /\ n = 1 => tx[t].done = 0
         /\ n = 2 => tx[t].done = 1
         /\ n = 3 => tx[t].done = 4
         /\ tx[t].todo # {} /\ tx[t].todo \subseteq RowsOf[RemovalTables[n + 1]]
    BY <1>1, <1>5, DeletionWaits
<1>8. Level(t) = n
    BY <1>7 DEF Level
<1>9. \A u \in removals : Level(u) = tx[u].done
    BY <1>1 DEF Level, IsDeletion
<1>10. ASSUME NEW u \in D, NEW w \in D, WaitsFor(u, w)
       PROVE  Level(u) <= Level(w)
  <2>1. CASE u = t /\ w \in removals
    <3>1. PICK k \in {1, 2, 3} :
             /\ k = 1 => tx[t].done = 0
             /\ k = 2 => tx[t].done = 1
             /\ k = 3 => tx[t].done = 4
             /\ k <= tx[w].done
        BY <1>1, <1>10, <2>1, DeletionWaits
    <3> QED BY <1>7, <1>8, <1>9, <2>1, <3>1
  <2>2. CASE u \in removals /\ w = t
    <3>1. /\ tx[u].done \in 1 .. 3
          /\ tx[u].done = 2 => tx[t].done >= 1
          /\ tx[u].done = 3 => tx[t].done >= 4
        BY <1>1, <1>10, <2>2, RemovalWaitsForDeletion
    <3> QED BY <1>7, <1>8, <1>9, <2>2, <3>1
  <2>3. CASE u \in removals /\ w \in removals
      BY <1>1, <1>9, <1>10, <2>3, RemovalsInOrder
  <2>4. ~ WaitsFor(t, t)
      BY <1>1, NobodyWaitsForItself
  <2> QED BY <1>6, <1>10, <2>1, <2>2, <2>3, <2>4
<1>11. \A u \in D : Level(u) = n
  <2> DEFINE f == [u \in D |-> Level(u)]
  <2>1. \A u \in D : Level(u) \in Nat
      BY <1>1, <1>6, <1>8, <1>9
  <2>2. f \in [D -> Nat] /\ \A u, w \in D : WaitsFor(u, w) => f[u] <= f[w]
      BY <1>10, <2>1
  <2> HIDE DEF f
  <2>3. \A u, w \in D : f[u] = f[w]
      BY <2>2, OneLevel
  <2> QED BY <1>8, <2>3 DEF f
<1>12. ASSUME NEW u \in D
       PROVE  tx[u].todo # {} /\ tx[u].todo \subseteq RowsOf[RemovalTables[n + 1]]
  <2>1. CASE u = t
      BY <1>7, <2>1
  <2>2. CASE u \in removals
    <3>1. tx[u].done = n
        BY <1>9, <1>11, <2>2
    <3>2. \E w \in D : WaitsFor(u, w)
        BY DeadlockIs
    <3> QED BY <1>1, <2>2, <3>1, <3>2, RemovalWaits
  <2> QED BY <1>6, <2>1, <2>2
<1>13. RemovalTables[n + 1] \in Tables
    BY RemovalTablesAre, TablesAre
<1> QED BY <1>12, <1>13

\* And so does a circle without a deletion, which takes removals.
LEMMA CirclesOfRemovals ==
    ASSUME IInv, KInv, NEW D \in Deadlocks, \A u \in D : ~ IsDeletion(u)
    PROVE  /\ \A u \in D : Work[u].kind = "remove_memory"
           /\ \A u, v \in D : D = {u, v} => Work[u].subject = Work[v].subject
           /\ \E table \in Tables :
                 \A u \in D : tx[u].todo # {} /\ tx[u].todo \subseteq RowsOf[table]
<1>1. D \subseteq Requests /\ D # {}
    BY DeadlockIs
<1>2. ASSUME NEW u \in D
      PROVE  Work[u].kind = "remove_memory"
  <2>1. PICK v \in D : WaitsFor(u, v)
      BY DeadlockIs
  <2>2. Work[u].kind # "insert"
      BY <1>1, <2>1, InsertWaits
  <2> QED BY <1>1, <2>2, WorkAssumption DEF Kinds, IsDeletion
<1>3. ASSUME NEW u \in D, NEW v \in D, D = {u, v}
      PROVE  Work[u].subject = Work[v].subject
  <2>1. ~ WaitsFor(u, u) /\ ~ WaitsFor(v, v)
      BY <1>1, NobodyWaitsForItself
  <2>2. WaitsFor(u, v) /\ WaitsFor(v, u)
      BY <1>3, <2>1, DeadlockIs
  <2> QED BY <1>1, <1>2, <2>2, PairsShareTheirMemory
<1>4. \A u, v \in D : tx[u].done = tx[v].done
  <2> DEFINE f == [u \in D |-> tx[u].done]
  <2>1. f \in [D -> Nat]
      BY <1>1 DEF IInv, TypeOK, Transactions
  <2>2. \A u, v \in D : WaitsFor(u, v) => f[u] <= f[v]
      BY <1>1, <1>2, RemovalsInOrder
  <2> HIDE DEF f
  <2>3. \A u, v \in D : f[u] = f[v]
      BY <2>1, <2>2, OneLevel
  <2> QED BY <2>3 DEF f
<1>5. ASSUME NEW u \in D
      PROVE  /\ tx[u].done \in 0 .. 4 /\ tx[u].todo # {}
             /\ tx[u].todo \subseteq RowsOf[RemovalTables[tx[u].done + 1]]
  <2>1. PICK v \in D : WaitsFor(u, v)
      BY DeadlockIs
  <2> QED BY <1>1, <1>2, <2>1, RemovalWaits
<1>6. PICK w \in D : TRUE
    BY <1>1
<1>7. RemovalTables[tx[w].done + 1] \in Tables
    BY <1>5, RemovalTablesAre, TablesAre
<1>8. \A u \in D : tx[u].todo # {} /\ tx[u].todo \subseteq RowsOf[RemovalTables[tx[w].done + 1]]
  <2>1. \A u \in D : tx[u].done = tx[w].done
      BY <1>4
  <2> QED BY <1>5, <2>1
<1> QED BY <1>2, <1>3, <1>7, <1>8

\* Removals, and removals with the deletion of another's account, wait in a circle in one
\* table only; two removals do it only for the same memory.
THEOREM CirclesTakeOneTable == Spec => []CirclesAreInOneTable
<1>1. ASSUME IInv, DInv, KInv
      PROVE  CirclesAreInOneTable
  <2> SUFFICES ASSUME NEW D \in Deadlocks
               PROVE  LET deletions == {t \in D : IsDeletion(t)}
                          removals == {u \in D : Work[u].kind = "remove_memory"}
                      IN  /\ deletions = {} =>
                                /\ D = removals
                                /\ \A u, v \in D : D = {u, v} => Work[u].subject = Work[v].subject
                          /\ removals # {}
                             /\ (\A t \in deletions :
                                    /\ deletions = {t}
                                    /\ Undisturbed(t)
                                    /\ \A u \in removals :
                                          Work[u].subject \notin Account[Work[t].subject])
                             => \E table \in Tables :
                                   \A u \in D : tx[u].todo # {} /\ tx[u].todo \subseteq RowsOf[table]
      BY DEF CirclesAreInOneTable
  <2> DEFINE deletions == {t \in D : IsDeletion(t)}
             removals == {u \in D : Work[u].kind = "remove_memory"}
  <2>1. CASE deletions = {}
    <3>1. \A u \in D : ~ IsDeletion(u)
        BY <2>1
    <3>2. /\ \A u \in D : Work[u].kind = "remove_memory"
          /\ \A u, v \in D : D = {u, v} => Work[u].subject = Work[v].subject
          /\ \E table \in Tables :
                \A u \in D : tx[u].todo # {} /\ tx[u].todo \subseteq RowsOf[table]
        BY <1>1, <3>1, CirclesOfRemovals
    <3> QED BY <3>2
  <2>2. CASE deletions # {}
    <3>1. SUFFICES ASSUME removals # {},
                          \A t \in deletions :
                             /\ deletions = {t}
                             /\ Undisturbed(t)
                             /\ \A u \in removals : Work[u].subject \notin Account[Work[t].subject]
                   PROVE  \E table \in Tables :
                             \A u \in D : tx[u].todo # {} /\ tx[u].todo \subseteq RowsOf[table]
        BY <2>2
    <3>2. PICK t \in deletions : TRUE
        BY <2>2
    <3>3. Quiet(t, tx[t]) /\ \A u \in removals : Work[u].subject \notin Ours(t)
        BY <3>1 DEF Undisturbed, Quiet, Ours
    <3>4. t \in D /\ IsDeletion(t) /\ \A u \in D : IsDeletion(u) => u = t
        BY <3>1
    <3> QED BY <1>1, <3>1, <3>3, <3>4, CirclesOfOneDeletion
  <2> QED BY <2>1, <2>2
<1>2. Spec => [](IInv /\ DInv /\ KInv)
    BY DeletionInvariance, InitDeletions, NextDeletions, InitKinds, NextKinds, PTL DEF Spec
<1> QED BY <1>1, <1>2, PTL
=============================================================================
