------------------------------ MODULE Accounts ------------------------------
(***************************************************************************)
(* Workspaces, the developers who own them, their agents, and the          *)
(* credentials of both: claim codes, invites, agent keys and sessions.  As *)
(* in Memories, an action is one statement of a handler, or a run of       *)
(* statements that no other handler can tell apart; what an open           *)
(* transaction has done stays in the locals of its request until it        *)
(* commits; and a request that fails or is cancelled is a Drop.            *)
(*                                                                         *)
(* Rows are identified by what the server draws at random (UUIDs, tokens), *)
(* so an id that was used is not used again.  delete_developer_account is  *)
(* its commit here: the order of its statements, and what makes one of     *)
(* them fail, is a matter of the schema alone.                             *)
(***************************************************************************)
EXTENDS Naturals, FiniteSets

CONSTANTS
    Workspaces, Developers, Agents, Keys, Sessions,    \* row ids
    Logins,                         \* login names
    NoDeveloper, NoWorkspace, NoAgent, NoLogin,
    Claims,                         \* slots of claim_workspace
    Joins,                          \* slots of register_agent with an invite and create_agent
    Rotations,                      \* slots of rotate_agent_key
    Renewals,                       \* slots of rotate_workspace_invite
    Entries,                        \* slots of login
    InviteMaximum                   \* bound of the model: invites of a workspace

ASSUME NullsAssumption ==
    /\ NoDeveloper \notin Developers
    /\ NoWorkspace \notin Workspaces
    /\ NoAgent \notin Agents
    /\ NoLogin \notin Logins
ASSUME InviteMaximumAssumption == InviteMaximum \in Nat \ {0}

VARIABLES
    workspace, developer, agent, key, session,          \* tables
    claiming, joining, rotating, renewing, entering     \* requests in flight

tables == <<workspace, developer, agent, key, session>>
requests == <<claiming, joining, rotating, renewing, entering>>
vars == <<workspace, developer, agent, key, session,
          claiming, joining, rotating, renewing, entering>>

-----------------------------------------------------------------------------
(* Rows.  `state` is "unused" before the row is inserted and "gone" after  *)
(* it was deleted.                                                         *)

States == {"unused", "live", "gone"}

\* claimable is claim_token_hash IS NOT NULL, invite 0 is invite_token_hash IS NULL.
WorkspaceRows == [state: States, owner: Developers \cup {NoDeveloper},
                  claimable: BOOLEAN, invite: 0 .. InviteMaximum]
DeveloperRows == [state: States, login: Logins \cup {NoLogin}]
AgentRows == [state: States, workspace: Workspaces \cup {NoWorkspace}]
KeyRows == [state: States \cup {"revoked"}, agent: Agents \cup {NoAgent}]
SessionRows == [state: States \cup {"expired"}, developer: Developers \cup {NoDeveloper}]

NewWorkspace == [state |-> "live", owner |-> NoDeveloper, claimable |-> TRUE, invite |-> 0]
AgentIn(w) == [state |-> "live", workspace |-> w]
KeyOf(a) == [state |-> "live", agent |-> a]
SessionOf(d) == [state |-> "live", developer |-> d]

Gone(row) == [row EXCEPT !.state = "gone"]
Without(table, ids) == [id \in DOMAIN table |-> IF id \in ids THEN Gone(table[id]) ELSE table[id]]

Live(table) == {id \in DOMAIN table : table[id].state = "live"}
LiveKeys(a) == {k \in Keys : key[k] = KeyOf(a)}

\* require_developer: the caller shows the token of a session that has not expired.
SignedIn(d) == \E s \in Sessions : session[s] = SessionOf(d)

\* ensure_workspace_owner
Owns(d, w) == w \in Live(workspace) /\ workspace[w].owner = d

-----------------------------------------------------------------------------
(* Requests in flight.                                                     *)

ClaimStates == [pc: {"idle", "insert", "commit"}, workspace: Workspaces \cup {NoWorkspace},
                developer: Developers \cup {NoDeveloper}, login: Logins \cup {NoLogin}]
JoinStates == [pc: {"idle", "insert"}, workspace: Workspaces \cup {NoWorkspace}]
RotateStates == [pc: {"idle", "revoke", "commit"}, agent: Agents \cup {NoAgent},
                 revoked: SUBSET Keys]
RenewStates == [pc: {"idle", "update"}, workspace: Workspaces \cup {NoWorkspace}]
EntryStates == [pc: {"idle", "insert"}, developer: Developers \cup {NoDeveloper}]

IdleClaim == [pc |-> "idle", workspace |-> NoWorkspace, developer |-> NoDeveloper,
              login |-> NoLogin]
IdleJoin == [pc |-> "idle", workspace |-> NoWorkspace]
IdleRotate == [pc |-> "idle", agent |-> NoAgent, revoked |-> {}]
IdleRenew == [pc |-> "idle", workspace |-> NoWorkspace]
IdleEntry == [pc |-> "idle", developer |-> NoDeveloper]

\* SELECT ... FOR UPDATE holds its rows until the transaction ends: a claim the
\* workspace, a rotation the agent and, by the join, its workspace.
ClaimHolds(w) == \E c \in Claims : claiming[c].pc # "idle" /\ claiming[c].workspace = w
RotationHolds(a) == \E r \in Rotations : rotating[r].pc # "idle" /\ rotating[r].agent = a
RotationHoldsIn(w) == \E a \in Agents : agent[a].workspace = w /\ RotationHolds(a)

Drawn(d) == developer[d].state # "unused" \/ \E c \in Claims : claiming[c].developer = d

Init ==
    /\ workspace = [w \in Workspaces |-> [state |-> "unused", owner |-> NoDeveloper,
                                          claimable |-> FALSE, invite |-> 0]]
    /\ developer = [d \in Developers |-> [state |-> "unused", login |-> NoLogin]]
    /\ agent = [a \in Agents |-> [state |-> "unused", workspace |-> NoWorkspace]]
    /\ key = [k \in Keys |-> [state |-> "unused", agent |-> NoAgent]]
    /\ session = [s \in Sessions |-> [state |-> "unused", developer |-> NoDeveloper]]
    /\ claiming = [c \in Claims |-> IdleClaim]
    /\ joining = [j \in Joins |-> IdleJoin]
    /\ rotating = [r \in Rotations |-> IdleRotate]
    /\ renewing = [n \in Renewals |-> IdleRenew]
    /\ entering = [e \in Entries |-> IdleEntry]

-----------------------------------------------------------------------------
(* register_agent without an invite: three INSERTs of rows nobody knows.   *)

RegisterNew(w, a, k) ==
    /\ workspace[w].state = "unused" /\ agent[a].state = "unused" /\ key[k].state = "unused"
    /\ workspace' = [workspace EXCEPT ![w] = NewWorkspace]
    /\ agent' = [agent EXCEPT ![a] = AgentIn(w)]
    /\ key' = [key EXCEPT ![k] = KeyOf(a)]
    /\ UNCHANGED <<developer, session, requests>>

-----------------------------------------------------------------------------
(* claim_workspace.                                                        *)

\* The SELECT without its FOR UPDATE.
BeginClaimUnlocked(c, w, d, login) ==
    /\ claiming[c].pc = "idle"
    /\ workspace[w].state = "live" /\ workspace[w].claimable /\ workspace[w].owner = NoDeveloper
    /\ ~Drawn(d)
    /\ claiming' = [claiming EXCEPT ![c] =
           [pc |-> "insert", workspace |-> w, developer |-> d, login |-> login]]
    /\ UNCHANGED <<tables, joining, rotating, renewing, entering>>

\* SELECT ... FOR UPDATE: it waits for another claim of the workspace, and then
\* looks at the row that one has left.
BeginClaim(c, w, d, login) ==
    /\ claiming[c].pc = "idle"
    /\ ~ClaimHolds(w)
    /\ workspace[w].state = "live" /\ workspace[w].claimable /\ workspace[w].owner = NoDeveloper
    /\ ~Drawn(d)
    /\ claiming' = [claiming EXCEPT ![c] =
           [pc |-> "insert", workspace |-> w, developer |-> d, login |-> login]]
    /\ UNCHANGED <<tables, joining, rotating, renewing, entering>>

\* The login name is free; an INSERT of the same name that is not committed yet
\* makes this one wait.  (A name that is taken is a 409: a DropClaim.)
InsertDeveloper(c) ==
    /\ claiming[c].pc = "insert"
    /\ \A d \in Live(developer) : developer[d].login # claiming[c].login
    /\ \A o \in Claims : claiming[o].pc = "commit" => claiming[o].login # claiming[c].login
    /\ claiming' = [claiming EXCEPT ![c].pc = "commit"]
    /\ UNCHANGED <<tables, joining, rotating, renewing, entering>>

\* The workspace as the UPDATE of a claim leaves it, when it forgets the code.
ClaimedReusable(w, d) == [workspace[w] EXCEPT !.owner = d, !.invite = 1]

Claimed(w, d) == [workspace[w] EXCEPT !.owner = d, !.claimable = FALSE, !.invite = 1]

\* The UPDATE of the workspace, create_developer_session, and the commit.
CommitClaim(c, s) ==
    LET req == claiming[c] IN
    /\ req.pc = "commit"
    /\ session[s].state = "unused"
    /\ developer' = [developer EXCEPT ![req.developer] = [state |-> "live", login |-> req.login]]
    /\ workspace' = [workspace EXCEPT ![req.workspace] = Claimed(req.workspace, req.developer)]
    /\ session' = [session EXCEPT ![s] = SessionOf(req.developer)]
    /\ claiming' = [claiming EXCEPT ![c] = IdleClaim]
    /\ UNCHANGED <<agent, key, joining, rotating, renewing, entering>>

DropClaim(c) ==
    /\ claiming[c].pc # "idle"
    /\ claiming' = [claiming EXCEPT ![c] = IdleClaim]
    /\ UNCHANGED <<tables, joining, rotating, renewing, entering>>

-----------------------------------------------------------------------------
(* register_agent with an invite, and create_agent.                        *)

\* The SELECT by invite_token_hash takes no lock.
BeginJoin(j, w) ==
    /\ joining[j].pc = "idle"
    /\ workspace[w].state = "live" /\ workspace[w].owner # NoDeveloper
    /\ workspace[w].invite # 0
    /\ joining' = [joining EXCEPT ![j] = [pc |-> "insert", workspace |-> w]]
    /\ UNCHANGED <<tables, claiming, rotating, renewing, entering>>

\* An owner adds an agent.
BeginCreateAgent(j, d, w) ==
    /\ joining[j].pc = "idle"
    /\ SignedIn(d) /\ Owns(d, w)
    /\ joining' = [joining EXCEPT ![j] = [pc |-> "insert", workspace |-> w]]
    /\ UNCHANGED <<tables, claiming, rotating, renewing, entering>>

\* The INSERTs without the foreign key on workspaces.
InsertAgentAnywhere(j, a, k) ==
    /\ joining[j].pc = "insert"
    /\ agent[a].state = "unused" /\ key[k].state = "unused"
    /\ agent' = [agent EXCEPT ![a] = AgentIn(joining[j].workspace)]
    /\ key' = [key EXCEPT ![k] = KeyOf(a)]
    /\ joining' = [joining EXCEPT ![j] = IdleJoin]
    /\ UNCHANGED <<workspace, developer, session, claiming, rotating, renewing, entering>>

\* The INSERTs and the commit: the foreign key wants the workspace to be there, and
\* waits for a rotation that holds its row.
InsertAgent(j, a, k) ==
    LET w == joining[j].workspace IN
    /\ joining[j].pc = "insert"
    /\ agent[a].state = "unused" /\ key[k].state = "unused"
    /\ w \in Live(workspace) /\ ~RotationHoldsIn(w)
    /\ agent' = [agent EXCEPT ![a] = AgentIn(w)]
    /\ key' = [key EXCEPT ![k] = KeyOf(a)]
    /\ joining' = [joining EXCEPT ![j] = IdleJoin]
    /\ UNCHANGED <<workspace, developer, session, claiming, rotating, renewing, entering>>

DropJoin(j) ==
    /\ joining[j].pc # "idle"
    /\ joining' = [joining EXCEPT ![j] = IdleJoin]
    /\ UNCHANGED <<tables, claiming, rotating, renewing, entering>>

-----------------------------------------------------------------------------
(* rotate_agent_key.                                                       *)

\* The SELECT without its FOR UPDATE.
BeginRotateUnlocked(r, a) ==
    LET w == agent[a].workspace IN
    /\ rotating[r].pc = "idle"
    /\ a \in Live(agent) /\ \E d \in Developers : SignedIn(d) /\ Owns(d, w)
    /\ rotating' = [rotating EXCEPT ![r] = [pc |-> "revoke", agent |-> a, revoked |-> {}]]
    /\ UNCHANGED <<tables, claiming, joining, renewing, entering>>

\* SELECT ... JOIN ... FOR UPDATE: it locks the agent and its workspace.
BeginRotate(r, a) ==
    LET w == agent[a].workspace IN
    /\ rotating[r].pc = "idle"
    /\ a \in Live(agent) /\ \E d \in Developers : SignedIn(d) /\ Owns(d, w)
    /\ ~RotationHoldsIn(w)
    /\ rotating' = [rotating EXCEPT ![r] = [pc |-> "revoke", agent |-> a, revoked |-> {}]]
    /\ UNCHANGED <<tables, claiming, joining, renewing, entering>>

\* The UPDATE: its snapshot has the keys that are committed by now.
RevokeKeys(r) ==
    /\ rotating[r].pc = "revoke"
    /\ rotating' = [rotating EXCEPT ![r].pc = "commit", ![r].revoked = LiveKeys(rotating[r].agent)]
    /\ UNCHANGED <<tables, claiming, joining, renewing, entering>>

\* The INSERT of the new key, and the commit.
CommitRotate(r, k) ==
    /\ rotating[r].pc = "commit"
    /\ key[k].state = "unused"
    /\ key' = [i \in Keys |-> CASE i = k -> KeyOf(rotating[r].agent)
                               [] i \in rotating[r].revoked -> [key[i] EXCEPT !.state = "revoked"]
                               [] OTHER -> key[i]]
    /\ rotating' = [rotating EXCEPT ![r] = IdleRotate]
    /\ UNCHANGED <<workspace, developer, agent, session, claiming, joining, renewing, entering>>

DropRotate(r) ==
    /\ rotating[r].pc # "idle"
    /\ rotating' = [rotating EXCEPT ![r] = IdleRotate]
    /\ UNCHANGED <<tables, claiming, joining, renewing, entering>>

-----------------------------------------------------------------------------
(* rotate_workspace_invite.                                                *)

BeginRenew(n, d, w) ==
    /\ renewing[n].pc = "idle"
    /\ SignedIn(d) /\ Owns(d, w)
    /\ renewing' = [renewing EXCEPT ![n] = [pc |-> "update", workspace |-> w]]
    /\ UNCHANGED <<tables, claiming, joining, rotating, entering>>

\* UPDATE ... WHERE id: a workspace that was deleted meanwhile has no row to update,
\* and the owner gets an invite all the same.
UpdateInvite(n) ==
    LET w == renewing[n].workspace IN
    /\ renewing[n].pc = "update"
    /\ \/ /\ w \in Live(workspace) /\ ~RotationHoldsIn(w)
          /\ workspace[w].invite < InviteMaximum
          /\ workspace' = [workspace EXCEPT ![w].invite = @ + 1]
       \/ w \notin Live(workspace) /\ UNCHANGED workspace
    /\ renewing' = [renewing EXCEPT ![n] = IdleRenew]
    /\ UNCHANGED <<developer, agent, key, session, claiming, joining, rotating, entering>>

DropRenew(n) ==
    /\ renewing[n].pc # "idle"
    /\ renewing' = [renewing EXCEPT ![n] = IdleRenew]
    /\ UNCHANGED <<tables, claiming, joining, rotating, entering>>

-----------------------------------------------------------------------------
(* login, the life of a session, and its cleanup every six hours.          *)

BeginEntry(e, d) ==
    /\ entering[e].pc = "idle"
    /\ d \in Live(developer)
    /\ entering' = [entering EXCEPT ![e] = [pc |-> "insert", developer |-> d]]
    /\ UNCHANGED <<tables, claiming, joining, rotating, renewing>>

\* create_developer_session without the foreign key on developers.
InsertSessionAnyway(e, s) ==
    /\ entering[e].pc = "insert"
    /\ session[s].state = "unused"
    /\ session' = [session EXCEPT ![s] = SessionOf(entering[e].developer)]
    /\ entering' = [entering EXCEPT ![e] = IdleEntry]
    /\ UNCHANGED <<workspace, developer, agent, key, claiming, joining, rotating, renewing>>

\* create_developer_session and the commit: the foreign key wants the developer.
InsertSession(e, s) ==
    /\ entering[e].pc = "insert"
    /\ entering[e].developer \in Live(developer)
    /\ session[s].state = "unused"
    /\ session' = [session EXCEPT ![s] = SessionOf(entering[e].developer)]
    /\ entering' = [entering EXCEPT ![e] = IdleEntry]
    /\ UNCHANGED <<workspace, developer, agent, key, claiming, joining, rotating, renewing>>

DropEntry(e) ==
    /\ entering[e].pc # "idle"
    /\ entering' = [entering EXCEPT ![e] = IdleEntry]
    /\ UNCHANGED <<tables, claiming, joining, rotating, renewing>>

\* Fourteen days pass.
Expire(s) ==
    /\ session[s].state = "live"
    /\ session' = [session EXCEPT ![s].state = "expired"]
    /\ UNCHANGED <<workspace, developer, agent, key, requests>>

\* The cleanup deletes what expired a while ago; revoked_at is never set.
Cleanup ==
    LET expired == {s \in Sessions : session[s].state = "expired"} IN
    \E old \in SUBSET expired :
        /\ old # {}
        /\ session' = Without(session, old)
        /\ UNCHANGED <<workspace, developer, agent, key, requests>>

-----------------------------------------------------------------------------
(* delete_developer_account, at its commit.  The ids that it read before   *)
(* its transaction may miss an agent; the foreign keys of agents, keys and *)
(* sessions cascade, so that those go all the same.                        *)

DeleteAccount(d) ==
    LET owned == {w \in Workspaces : Owns(d, w)}
        agents == {a \in Live(agent) : agent[a].workspace \in owned}
        keys == {k \in Keys : key[k].state \in {"live", "revoked"} /\ key[k].agent \in agents}
        sessions == {s \in Sessions : session[s].state \in {"live", "expired"} /\ session[s].developer = d}
    IN
    /\ SignedIn(d)
    /\ \A w \in owned : ~RotationHoldsIn(w)
    /\ workspace' = Without(workspace, owned)
    /\ agent' = Without(agent, agents)
    /\ key' = Without(key, keys)
    /\ session' = Without(session, sessions)
    /\ developer' = Without(developer, {d})
    /\ UNCHANGED requests

-----------------------------------------------------------------------------
ClaimStep(c) ==
    \/ \E w \in Workspaces, d \in Developers, login \in Logins : BeginClaim(c, w, d, login)
    \/ InsertDeveloper(c)
    \/ \E s \in Sessions : CommitClaim(c, s)
    \/ DropClaim(c)

JoinStep(j) ==
    \/ \E w \in Workspaces : BeginJoin(j, w)
    \/ \E d \in Developers, w \in Workspaces : BeginCreateAgent(j, d, w)
    \/ \E a \in Agents, k \in Keys : InsertAgent(j, a, k)
    \/ DropJoin(j)

RotateStep(r) ==
    \/ \E a \in Agents : BeginRotate(r, a)
    \/ RevokeKeys(r)
    \/ \E k \in Keys : CommitRotate(r, k)
    \/ DropRotate(r)

RenewStep(n) ==
    \/ \E d \in Developers, w \in Workspaces : BeginRenew(n, d, w)
    \/ UpdateInvite(n)
    \/ DropRenew(n)

EnterStep(e) ==
    \/ \E d \in Developers : BeginEntry(e, d)
    \/ \E s \in Sessions : InsertSession(e, s)
    \/ DropEntry(e)

Next ==
    \/ \E w \in Workspaces, a \in Agents, k \in Keys : RegisterNew(w, a, k)
    \/ \E c \in Claims : ClaimStep(c)
    \/ \E j \in Joins : JoinStep(j)
    \/ \E r \in Rotations : RotateStep(r)
    \/ \E n \in Renewals : RenewStep(n)
    \/ \E e \in Entries : EnterStep(e)
    \/ \E s \in Sessions : Expire(s)
    \/ Cleanup
    \/ \E d \in Developers : DeleteAccount(d)

Spec == Init /\ [][Next]_vars

-----------------------------------------------------------------------------
(* Properties.                                                             *)

\* Tables and requests in flight keep their types.
TypeOK ==
    /\ workspace \in [Workspaces -> WorkspaceRows]
    /\ developer \in [Developers -> DeveloperRows]
    /\ agent \in [Agents -> AgentRows]
    /\ key \in [Keys -> KeyRows]
    /\ session \in [Sessions -> SessionRows]
    /\ claiming \in [Claims -> ClaimStates]
    /\ joining \in [Joins -> JoinStates]
    /\ rotating \in [Rotations -> RotateStates]
    /\ renewing \in [Renewals -> RenewStates]
    /\ entering \in [Entries -> EntryStates]

\* An agent has one key that opens the API: two rotations at once leave one live key
\* and not two (a key the owner believes revoked) or none (an agent locked out).
OneLiveKey == \A a \in Live(agent) : \E k \in Keys : LiveKeys(a) = {k}

\* Deletion and the inserts that race with it leave no agent without its workspace,
\* no key without its agent, no session without its developer and no workspace whose
\* owner is gone.
NoOrphans ==
    /\ \A a \in Live(agent) : agent[a].workspace \in Live(workspace)
    /\ \A k \in Live(key) : key[k].agent \in Live(agent)
    /\ \A s \in Live(session) : session[s].developer \in Live(developer)
    /\ \A w \in Live(workspace) : workspace[w].owner \in Live(developer) \cup {NoDeveloper}

\* Every account owns one workspace: of two claims of a workspace one wins, and the
\* other leaves no account behind.
DeveloperOwnsOne ==
    \A d \in Live(developer) : \E w \in Workspaces : {v \in Workspaces : Owns(d, v)} = {w}

\* There is a way into every workspace, and one only: its claim code until somebody
\* owns it, an invite from then on.
OneWayIn ==
    \A w \in Live(workspace) :
        /\ workspace[w].claimable <=> workspace[w].owner = NoDeveloper
        /\ workspace[w].claimable <=> workspace[w].invite = 0

\* A workspace that was claimed keeps its owner for as long as it is there: a claim
\* that was checked before another one committed may not take it over.
OwnershipIsFinal ==
    [][\A w \in Live(workspace) :
           workspace[w].owner # NoDeveloper /\ w \in Live(workspace)' =>
               workspace'[w].owner = workspace[w].owner]_vars

\* An open claim has its workspace to itself and an account nobody else has drawn.
ClaimsOK ==
    \A c \in Claims : claiming[c].pc # "idle" =>
        /\ claiming[c].workspace \in Live(workspace)
        /\ workspace[claiming[c].workspace].owner = NoDeveloper
        /\ claiming[c].developer \in Developers
        /\ developer[claiming[c].developer].state = "unused"
        /\ \A o \in Claims \ {c} : claiming[o].pc # "idle" =>
               /\ claiming[o].workspace # claiming[c].workspace
               /\ claiming[o].developer # claiming[c].developer

\* An open rotation has its agent to itself, and has revoked every key of it.
RotationsOK ==
    \A r \in Rotations : rotating[r].pc # "idle" =>
        /\ rotating[r].agent \in Live(agent)
        /\ rotating[r].pc = "commit" => rotating[r].revoked = LiveKeys(rotating[r].agent)
        /\ \A o \in Rotations \ {r} : rotating[o].pc # "idle" => rotating[o].agent # rotating[r].agent

\* A workspace whose invite is about to be renewed has been claimed.
RenewalsOK ==
    \A n \in Renewals : renewing[n].pc # "idle" =>
        /\ renewing[n].workspace \in Workspaces
        /\ workspace[renewing[n].workspace].state # "unused"
        /\ workspace[renewing[n].workspace].owner # NoDeveloper

\* What every step keeps: the four invariants, and what the locks are for.
IInv ==
    /\ TypeOK
    /\ OneLiveKey
    /\ NoOrphans
    /\ DeveloperOwnsOne
    /\ OneWayIn
    /\ ClaimsOK
    /\ RotationsOK
    /\ RenewalsOK

=============================================================================
