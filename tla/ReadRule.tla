------------------------------ MODULE ReadRule ------------------------------
(***************************************************************************)
(* Who may read a row of `memories` or of `experience_gaps`.               *)
(*                                                                         *)
(* The server writes this rule down several times: twice in Rust, over a   *)
(* row that was loaded first (can_read_row, can_read_row_principal), and   *)
(* once more in every SQL statement that selects readable rows (GAP_SCOPE, *)
(* LINK_READABLE, the two search channels, the backlinks of get_memory),   *)
(* there over the three lists that read_scope makes of the caller, and in  *)
(* two shorter forms in list_memories.  A check made with one copy guards  *)
(* data selected with another, so all of them have to agree.               *)
(***************************************************************************)

CONSTANTS
    Workspaces,     \* workspace ids
    Agents,         \* agent ids
    WorkspaceOf,    \* agents.workspace_id: set when the agent is inserted, never updated
    NoAgent         \* the NULL that read_scope binds when the caller is no agent

ASSUME WorkspaceOfAssumption == WorkspaceOf \in [Agents -> Workspaces]
ASSUME NoAgentAssumption == NoAgent \notin Agents

Visibilities == {"agent_private", "developer_shared", "public"}

\* MemoryAccessRow.  `removed` stands for removed_at IS NOT NULL.
AccessRows == [workspace: Workspaces, author: Agents,
               visibility: Visibilities, removed: BOOLEAN]

-----------------------------------------------------------------------------
(* The caller, as resolve_read_principal returns it.                       *)

AgentPrincipal(a) == [kind |-> "agent", agent |-> a, workspaces |-> {WorkspaceOf[a]}]
DeveloperPrincipal(owned) == [kind |-> "developer", agent |-> NoAgent, workspaces |-> owned]
Anonymous == [kind |-> "anonymous", agent |-> NoAgent, workspaces |-> {}]

Principals == {AgentPrincipal(a) : a \in Agents}
                 \cup {DeveloperPrincipal(owned) : owned \in SUBSET Workspaces}
                 \cup {Anonymous}

-----------------------------------------------------------------------------
(* The rule in Rust, over a loaded row.                                    *)

AgentReaches(row, p) ==
    \/ row.visibility = "developer_shared" /\ row.workspace \in p.workspaces
    \/ row.visibility = "agent_private" /\ row.author = p.agent

\* can_read_row takes an optional agent: Anonymous is its None.
CanReadRow(row, p) ==
    /\ ~row.removed
    /\ \/ row.visibility = "public"
       \/ p.kind = "agent" /\ AgentReaches(row, p)

CanReadRowPrincipal(row, p) ==
    /\ ~row.removed
    /\ \/ row.visibility = "public"
       \/ p.kind = "agent" /\ AgentReaches(row, p)
       \/ p.kind = "developer" /\ row.workspace \in p.workspaces

-----------------------------------------------------------------------------
(* The rule in SQL, over the lists read_scope makes of the caller.         *)

ReadScope(p) ==
    CASE p.kind = "agent"     -> [shared |-> p.workspaces, full |-> {}, agent |-> p.agent]
      [] p.kind = "developer" -> [shared |-> {}, full |-> p.workspaces, agent |-> NoAgent]
      [] OTHER                -> [shared |-> {}, full |-> {}, agent |-> NoAgent]

\* GAP_SCOPE without the developer's alternative, the fault of forgetting one list.
ScopeWithoutFull(row, scope) ==
    /\ ~row.removed
    /\ \/ row.visibility = "public"
       \/ row.workspace \in scope.shared /\ row.visibility = "developer_shared"
       \/ /\ scope.agent # NoAgent
          /\ row.author = scope.agent
          /\ row.visibility = "agent_private"

SelectedBySql(row, scope) ==
    /\ ~row.removed
    /\ \/ row.visibility = "public"
       \/ row.workspace \in scope.shared /\ row.visibility = "developer_shared"
       \/ row.workspace \in scope.full
       \/ /\ scope.agent # NoAgent
          /\ row.author = scope.agent
          /\ row.visibility = "agent_private"

\* The two WHERE clauses of list_memories.
ListedForAgent(row, p) ==
    /\ ~row.removed
    /\ \/ row.visibility = "public"
       \/ row.workspace \in p.workspaces /\ row.visibility = "developer_shared"
       \/ row.author = p.agent /\ row.visibility = "agent_private"

ListedForDeveloper(row, p) == ~row.removed /\ row.workspace \in p.workspaces

-----------------------------------------------------------------------------
\* The copies say the same of every row and every caller.  What list_memories adds to
\* an agent is exactly what it may read; to a developer it lists the workspace, which
\* leaves out what other workspaces publish.
CopiesAgree(row, p) ==
    /\ SelectedBySql(row, ReadScope(p)) <=> CanReadRowPrincipal(row, p)
    /\ p.kind # "developer" => (CanReadRow(row, p) <=> CanReadRowPrincipal(row, p))
    /\ p.kind = "agent" => (ListedForAgent(row, p) <=> CanReadRowPrincipal(row, p))
    /\ p.kind = "developer" =>
          (ListedForDeveloper(row, p) <=>
              CanReadRowPrincipal(row, p) /\ row.workspace \in p.workspaces)
=============================================================================
