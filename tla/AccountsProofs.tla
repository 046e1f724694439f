--------------------------- MODULE AccountsProofs ---------------------------
(***************************************************************************)
(* Theorems about Accounts for every set of rows, login names and request  *)
(* slots.                                                                  *)
(***************************************************************************)
EXTENDS Accounts, TLAPS

USE NullsAssumption, InviteMaximumAssumption

\* The parts of IInv besides the types.
Facts ==
    /\ OneLiveKey
    /\ NoOrphans
    /\ DeveloperOwnsOne
    /\ OneWayIn
    /\ ClaimsOK
    /\ RotationsOK
    /\ RenewalsOK

-----------------------------------------------------------------------------
(* Types.                                                                  *)

LEMMA IdleTypes ==
    /\ IdleClaim \in ClaimStates
    /\ IdleJoin \in JoinStates
    /\ IdleRotate \in RotateStates
    /\ IdleRenew \in RenewStates
    /\ IdleEntry \in EntryStates
BY DEF IdleClaim, IdleJoin, IdleRotate, IdleRenew, IdleEntry,
       ClaimStates, JoinStates, RotateStates, RenewStates, EntryStates

LEMMA RowTypes ==
    /\ NewWorkspace \in WorkspaceRows
    /\ \A w \in Workspaces : AgentIn(w) \in AgentRows
    /\ \A a \in Agents : KeyOf(a) \in KeyRows
    /\ \A d \in Developers : SessionOf(d) \in SessionRows
BY DEF NewWorkspace, AgentIn, KeyOf, SessionOf, WorkspaceRows, AgentRows, KeyRows, SessionRows, States

LEMMA InitInv == Init => IInv
<1> SUFFICES ASSUME Init PROVE IInv
  OBVIOUS
<1>1. TypeOK
  <2>1. /\ [state |-> "unused", owner |-> NoDeveloper, claimable |-> FALSE, invite |-> 0] \in WorkspaceRows
        /\ [state |-> "unused", login |-> NoLogin] \in DeveloperRows
        /\ [state |-> "unused", workspace |-> NoWorkspace] \in AgentRows
        /\ [state |-> "unused", agent |-> NoAgent] \in KeyRows
        /\ [state |-> "unused", developer |-> NoDeveloper] \in SessionRows
    BY DEF WorkspaceRows, DeveloperRows, AgentRows, KeyRows, SessionRows, States
  <2> QED
    BY <2>1, IdleTypes DEF Init, TypeOK
<1>2. /\ Live(workspace) = {} /\ Live(developer) = {} /\ Live(agent) = {}
      /\ Live(key) = {} /\ Live(session) = {}
  BY DEF Init, Live
<1>3. ClaimsOK /\ RotationsOK /\ RenewalsOK
  BY DEF Init, ClaimsOK, RotationsOK, RenewalsOK, IdleClaim, IdleRotate, IdleRenew
<1> QED
  BY <1>1, <1>2, <1>3 DEF IInv, OneLiveKey, NoOrphans, DeveloperOwnsOne, OneWayIn

LEMMA WithoutType ==
    ASSUME NEW S, NEW T, NEW table \in [S -> T], NEW ids,
           \A id \in S : Gone(table[id]) \in T
    PROVE  Without(table, ids) \in [S -> T]
BY DEF Without

LEMMA GoneTypes ==
    /\ \A row \in WorkspaceRows : Gone(row) \in WorkspaceRows
    /\ \A row \in DeveloperRows : Gone(row) \in DeveloperRows
    /\ \A row \in AgentRows : Gone(row) \in AgentRows
    /\ \A row \in KeyRows : Gone(row) \in KeyRows
    /\ \A row \in SessionRows : Gone(row) \in SessionRows
BY DEF Gone, WorkspaceRows, DeveloperRows, AgentRows, KeyRows, SessionRows, States

LEMMA TypeStep ==
    ASSUME TypeOK, ClaimsOK, RotationsOK, [Next]_vars
    PROVE  TypeOK'
<1> USE IdleTypes, RowTypes DEF tables, requests
<1>1. ASSUME NEW w \in Workspaces, NEW a \in Agents, NEW k \in Keys, RegisterNew(w, a, k)
      PROVE  TypeOK'
  BY <1>1 DEF RegisterNew, TypeOK
<1>2. ASSUME NEW c \in Claims, ClaimStep(c) PROVE TypeOK'
  <2>1. ASSUME NEW w \in Workspaces, NEW d \in Developers, NEW login \in Logins,
               BeginClaim(c, w, d, login)
        PROVE  TypeOK'
    BY <2>1 DEF BeginClaim, TypeOK, ClaimStates
  <2>2. CASE InsertDeveloper(c)
    BY <2>2 DEF InsertDeveloper, TypeOK, ClaimStates
  <2>3. ASSUME NEW s \in Sessions, CommitClaim(c, s) PROVE TypeOK'
    <3>1. /\ claiming[c].workspace \in Workspaces
          /\ claiming[c].developer \in Developers
          /\ claiming[c].login \in Logins \cup {NoLogin}
      BY <2>3 DEF CommitClaim, ClaimsOK, Live, TypeOK, ClaimStates
    <3>2. Claimed(claiming[c].workspace, claiming[c].developer) \in WorkspaceRows
      <4> DEFINE row == workspace[claiming[c].workspace]
      <4>1. row \in WorkspaceRows
        BY <3>1 DEF TypeOK
      <4>2. 1 \in 0 .. InviteMaximum
        BY DEF InviteMaximumAssumption
      <4> HIDE DEF row
      <4>3. [row EXCEPT !.owner = claiming[c].developer, !.claimable = FALSE, !.invite = 1] \in WorkspaceRows
        BY <3>1, <4>1, <4>2 DEF WorkspaceRows
      <4> QED
        BY <4>3 DEF Claimed, row
    <3>3. [state |-> "live", login |-> claiming[c].login] \in DeveloperRows
      BY <3>1 DEF DeveloperRows, States
    <3> QED
      BY <2>3, <3>1, <3>2, <3>3 DEF CommitClaim, TypeOK
  <2>4. CASE DropClaim(c)
    BY <2>4 DEF DropClaim, TypeOK
  <2> QED
    BY <1>2, <2>1, <2>2, <2>3, <2>4 DEF ClaimStep
<1>3. ASSUME NEW j \in Joins, JoinStep(j) PROVE TypeOK'
  <2>1. ASSUME NEW w \in Workspaces, BeginJoin(j, w) PROVE TypeOK'
    BY <2>1 DEF BeginJoin, TypeOK, JoinStates, WorkspaceRows
  <2>2. ASSUME NEW d \in Developers, NEW w \in Workspaces, BeginCreateAgent(j, d, w) PROVE TypeOK'
    BY <2>2 DEF BeginCreateAgent, TypeOK, JoinStates
  <2>3. ASSUME NEW a \in Agents, NEW k \in Keys, InsertAgent(j, a, k) PROVE TypeOK'
    <3>1. AgentIn(joining[j].workspace) \in AgentRows
      BY DEF TypeOK, JoinStates, AgentIn, AgentRows, States
    <3> QED
      BY <2>3, <3>1 DEF InsertAgent, TypeOK
  <2>4. CASE DropJoin(j)
    BY <2>4 DEF DropJoin, TypeOK
  <2> QED
    BY <1>3, <2>1, <2>2, <2>3, <2>4 DEF JoinStep
<1>4. ASSUME NEW r \in Rotations, RotateStep(r) PROVE TypeOK'
  <2>1. ASSUME NEW a \in Agents, BeginRotate(r, a) PROVE TypeOK'
    BY <2>1 DEF BeginRotate, TypeOK, RotateStates
  <2>2. CASE RevokeKeys(r)
    BY <2>2 DEF RevokeKeys, TypeOK, RotateStates, LiveKeys
  <2>3. ASSUME NEW k \in Keys, CommitRotate(r, k) PROVE TypeOK'
    <3>1. rotating[r].agent \in Agents
      BY <2>3 DEF CommitRotate, RotationsOK, Live, TypeOK
    <3>2. \A i \in Keys : [key[i] EXCEPT !.state = "revoked"] \in KeyRows
      BY DEF TypeOK, KeyRows
    <3> QED
      BY <2>3, <3>1, <3>2 DEF CommitRotate, TypeOK
  <2>4. CASE DropRotate(r)
    BY <2>4 DEF DropRotate, TypeOK
  <2> QED
    BY <1>4, <2>1, <2>2, <2>3, <2>4 DEF RotateStep
<1>5. ASSUME NEW n \in Renewals, RenewStep(n) PROVE TypeOK'
  <2>1. ASSUME NEW d \in Developers, NEW w \in Workspaces, BeginRenew(n, d, w) PROVE TypeOK'
    BY <2>1 DEF BeginRenew, TypeOK, RenewStates
  <2>2. CASE UpdateInvite(n)
    <3>1. workspace' \in [Workspaces -> WorkspaceRows]
      <4> DEFINE w == renewing[n].workspace
      <4>1. CASE w \in Live(workspace) /\ workspace[w].invite < InviteMaximum
        <5>1. w \in Workspaces /\ workspace[w] \in WorkspaceRows
          BY <4>1 DEF Live, TypeOK
        <5>2. [workspace[w] EXCEPT !.invite = @ + 1] \in WorkspaceRows
          BY <4>1, <5>1 DEF WorkspaceRows, InviteMaximumAssumption
        <5> QED
          BY <2>2, <4>1, <5>1, <5>2 DEF UpdateInvite, TypeOK
      <4> QED
        BY <2>2, <4>1 DEF UpdateInvite, TypeOK
    <3> QED
      BY <2>2, <3>1 DEF UpdateInvite, TypeOK
  <2>3. CASE DropRenew(n)
    BY <2>3 DEF DropRenew, TypeOK
  <2> QED
    BY <1>5, <2>1, <2>2, <2>3 DEF RenewStep
<1>6. ASSUME NEW e \in Entries, EnterStep(e) PROVE TypeOK'
  <2>1. ASSUME NEW d \in Developers, BeginEntry(e, d) PROVE TypeOK'
    BY <2>1 DEF BeginEntry, TypeOK, EntryStates
  <2>2. ASSUME NEW s \in Sessions, InsertSession(e, s) PROVE TypeOK'
    BY <2>2 DEF InsertSession, TypeOK, Live
  <2>3. CASE DropEntry(e)
    BY <2>3 DEF DropEntry, TypeOK
  <2> QED
    BY <1>6, <2>1, <2>2, <2>3 DEF EnterStep
<1>7. ASSUME NEW s \in Sessions, Expire(s) PROVE TypeOK'
  BY <1>7 DEF Expire, TypeOK, SessionRows
<1>8. CASE Cleanup
  <2>1. session' \in [Sessions -> SessionRows]
    <3>1. PICK old : session' = Without(session, old)
      BY <1>8 DEF Cleanup
    <3> QED
      BY <3>1, WithoutType, GoneTypes DEF TypeOK
  <2> QED
    BY <1>8, <2>1 DEF Cleanup, TypeOK
<1>9. ASSUME NEW d \in Developers, DeleteAccount(d) PROVE TypeOK'
  <2>1. /\ workspace' \in [Workspaces -> WorkspaceRows]
        /\ developer' \in [Developers -> DeveloperRows]
    BY <1>9, WithoutType, GoneTypes DEF DeleteAccount, TypeOK
  <2>2. /\ agent' \in [Agents -> AgentRows]
        /\ key' \in [Keys -> KeyRows]
        /\ session' \in [Sessions -> SessionRows]
    BY <1>9, WithoutType, GoneTypes DEF DeleteAccount, TypeOK
  <2> QED
    BY <1>9, <2>1, <2>2 DEF DeleteAccount, TypeOK
<1>10. CASE UNCHANGED vars
  BY <1>10 DEF vars, TypeOK
<1> QED
  BY <1>1, <1>2, <1>3, <1>4, <1>5, <1>6, <1>7, <1>8, <1>9, <1>10 DEF Next

-----------------------------------------------------------------------------
(* Each fact depends on a few of the variables only.                       *)

LEMMA SameKeys ==
    ASSUME UNCHANGED <<agent, key>>
    PROVE  /\ OneLiveKey => OneLiveKey'
           /\ \A a : LiveKeys(a)' = LiveKeys(a)
BY DEF OneLiveKey, Live, LiveKeys, KeyOf

LEMMA SameTables ==
    ASSUME UNCHANGED <<workspace, developer, agent, key, session>>
    PROVE  /\ NoOrphans => NoOrphans'
           /\ Live(workspace)' = Live(workspace) /\ Live(agent)' = Live(agent)
BY DEF NoOrphans, Live

LEMMA SameOwners ==
    ASSUME UNCHANGED <<workspace, developer>>
    PROVE  /\ DeveloperOwnsOne => DeveloperOwnsOne'
           /\ OneWayIn => OneWayIn'
           /\ ClaimsOK /\ UNCHANGED claiming => ClaimsOK'
           /\ RenewalsOK /\ UNCHANGED renewing => RenewalsOK'
BY DEF DeveloperOwnsOne, OneWayIn, ClaimsOK, RenewalsOK, Owns, Live

LEMMA SameRotations ==
    ASSUME UNCHANGED <<rotating, agent, key>>
    PROVE  RotationsOK => RotationsOK'
BY DEF RotationsOK, Live, LiveKeys, KeyOf

LEMMA Untouched ==
    ASSUME Facts, UNCHANGED <<workspace, developer, agent, key, session, claiming, rotating, renewing>>
    PROVE  Facts'
BY SameKeys, SameTables, SameOwners, SameRotations DEF Facts

\* What the INSERTs of an agent and its key do to the facts about keys.
LEMMA NewAgent ==
    ASSUME TypeOK, Facts,
           NEW w \in Workspaces, NEW a \in Agents, NEW k \in Keys,
           agent[a].state = "unused", key[k].state = "unused",
           agent' = [agent EXCEPT ![a] = AgentIn(w)],
           key' = [key EXCEPT ![k] = KeyOf(a)],
           UNCHANGED rotating
    PROVE  /\ OneLiveKey' /\ RotationsOK'
           /\ Live(agent)' = Live(agent) \cup {a}
           /\ \A b \in Live(agent) : agent'[b] = agent[b]
           /\ agent'[a] = AgentIn(w)
           /\ \A i \in Live(key)' : key'[i].agent \in Live(agent)'
<1> USE DEF TypeOK
<1>1. a \notin Live(agent) /\ k \notin Live(key)
  BY DEF Live
<1>2. /\ Live(agent)' = Live(agent) \cup {a}
      /\ \A b \in Live(agent) : agent'[b] = agent[b]
      /\ agent'[a] = AgentIn(w)
  BY <1>1 DEF Live, AgentIn
<1>3. LiveKeys(a) = {}
  BY <1>1 DEF LiveKeys, KeyOf, Facts, NoOrphans, Live
<1>4. LiveKeys(a)' = {k}
  BY <1>3 DEF LiveKeys, KeyOf
<1>5. ASSUME NEW b \in Agents, b # a PROVE LiveKeys(b)' = LiveKeys(b)
  BY <1>5 DEF LiveKeys, KeyOf
<1>6. OneLiveKey'
  <2> SUFFICES ASSUME NEW b \in Live(agent)' PROVE (\E i \in Keys : LiveKeys(b) = {i})'
    BY DEF OneLiveKey
  <2>1. CASE b = a
    BY <2>1, <1>4
  <2>2. CASE b # a
    <3>1. b \in Live(agent) /\ b \in Agents
      BY <2>2, <1>2 DEF Live
    <3> QED
      BY <2>2, <3>1, <1>5 DEF Facts, OneLiveKey
  <2> QED
    BY <2>1, <2>2
<1>7. RotationsOK'
  BY <1>1, <1>2, <1>5 DEF Facts, RotationsOK, Live
<1>8. \A i \in Live(key)' : key'[i].agent \in Live(agent)'
  BY <1>2 DEF Facts, NoOrphans, Live, KeyOf
<1> QED
  BY <1>2, <1>6, <1>7, <1>8

-----------------------------------------------------------------------------
(* One lemma per action that touches what the facts are about.             *)

LEMMA RegisterNewStep ==
    ASSUME TypeOK, Facts, NEW w \in Workspaces, NEW a \in Agents, NEW k \in Keys,
           RegisterNew(w, a, k)
    PROVE  Facts'
<1> USE DEF TypeOK, RegisterNew, requests
<1>1. /\ Live(workspace)' = Live(workspace) \cup {w} /\ w \notin Live(workspace)
      /\ \A v \in Live(workspace) : workspace'[v] = workspace[v]
      /\ workspace'[w] = NewWorkspace
  BY DEF Live, NewWorkspace
<1>2. /\ OneLiveKey' /\ RotationsOK'
      /\ Live(agent)' = Live(agent) \cup {a}
      /\ \A b \in Live(agent) : agent'[b] = agent[b]
      /\ agent'[a] = AgentIn(w)
      /\ \A i \in Live(key)' : key'[i].agent \in Live(agent)'
  BY NewAgent
<1>3. NoOrphans'
  <2>1. \A b \in Live(agent)' : agent'[b].workspace \in Live(workspace)'
    BY <1>1, <1>2 DEF Facts, NoOrphans, AgentIn
  <2>2. \A s \in Live(session)' : session'[s].developer \in Live(developer)'
    BY DEF Facts, NoOrphans, Live
  <2>3. \A v \in Live(workspace)' : workspace'[v].owner \in Live(developer)' \cup {NoDeveloper}
    <3>1. Live(developer)' = Live(developer)
      BY DEF Live
    <3> QED
      BY <1>1, <3>1 DEF Facts, NoOrphans, NewWorkspace
  <2> QED
    BY <1>2, <2>1, <2>2, <2>3 DEF NoOrphans
<1>4. DeveloperOwnsOne'
  <2>1. \A d \in Developers, v \in Workspaces : Owns(d, v)' <=> Owns(d, v)
    BY <1>1 DEF Owns, NewWorkspace, NullsAssumption
  <2> QED
    BY <2>1 DEF Facts, DeveloperOwnsOne, Live
<1>5. OneWayIn'
  BY <1>1 DEF Facts, OneWayIn, NewWorkspace
<1>6. ClaimsOK'
  <2>1. UNCHANGED <<claiming, developer>>
    OBVIOUS
  <2> HIDE DEF TypeOK, RegisterNew, requests
  <2> QED
    BY <1>1, <2>1 DEF Facts, ClaimsOK
<1>7. RenewalsOK'
  <2>1. UNCHANGED renewing /\ \A v \in Workspaces : workspace[v].state # "unused" => workspace'[v] = workspace[v]
    OBVIOUS
  <2> HIDE DEF TypeOK, RegisterNew, requests
  <2> QED
    BY <2>1 DEF Facts, RenewalsOK
<1> QED
  BY <1>2, <1>3, <1>4, <1>5, <1>6, <1>7 DEF Facts

LEMMA InsertAgentStep ==
    ASSUME TypeOK, Facts, NEW j \in Joins, NEW a \in Agents, NEW k \in Keys, InsertAgent(j, a, k)
    PROVE  Facts'
<1> DEFINE w == joining[j].workspace
<1> USE DEF TypeOK, InsertAgent
<1>1. w \in Workspaces /\ w \in Live(workspace)
  BY DEF Live
<1>2. /\ OneLiveKey' /\ RotationsOK'
      /\ Live(agent)' = Live(agent) \cup {a}
      /\ \A b \in Live(agent) : agent'[b] = agent[b]
      /\ agent'[a] = AgentIn(w)
      /\ \A i \in Live(key)' : key'[i].agent \in Live(agent)'
  BY <1>1, NewAgent
<1>3. NoOrphans'
  <2>1. \A b \in Live(agent)' : agent'[b].workspace \in Live(workspace)'
    BY <1>1, <1>2 DEF Facts, NoOrphans, AgentIn
  <2> QED
    BY <1>2, <2>1 DEF Facts, NoOrphans, Live
<1> QED
  BY <1>2, <1>3, SameOwners DEF Facts

LEMMA BeginClaimStep ==
    ASSUME TypeOK, Facts, NEW c \in Claims, NEW w \in Workspaces, NEW d \in Developers,
           NEW login \in Logins, BeginClaim(c, w, d, login)
    PROVE  Facts'
<1>1. UNCHANGED <<workspace, developer, agent, key, session, rotating, renewing>>
  BY DEF BeginClaim, tables
<1>2. /\ w \in Live(workspace) /\ workspace[w].owner = NoDeveloper
      /\ developer[d].state = "unused"
      /\ \A o \in Claims : claiming[o].pc # "idle" =>
             claiming[o].workspace # w /\ claiming[o].developer # d
  BY DEF BeginClaim, ClaimHolds, Drawn, Live, TypeOK
<1>3. /\ claiming'[c].workspace = w /\ claiming'[c].developer = d
      /\ \A o \in Claims \ {c} : claiming'[o] = claiming[o]
  BY DEF BeginClaim, TypeOK
<1>4. ClaimsOK'
  <2>1. Live(workspace)' = Live(workspace)
    BY <1>1 DEF Live
  <2> QED
    BY <1>1, <1>2, <1>3, <2>1 DEF Facts, ClaimsOK
<1> QED
  BY <1>1, <1>4, SameKeys, SameTables, SameOwners, SameRotations DEF Facts

LEMMA InsertDeveloperStep ==
    ASSUME TypeOK, Facts, NEW c \in Claims, InsertDeveloper(c)
    PROVE  Facts'
<1>1. UNCHANGED <<workspace, developer, agent, key, session, rotating, renewing>>
  BY DEF InsertDeveloper, tables
<1>2. \A o \in Claims :
          /\ claiming'[o].pc # "idle" => claiming[o].pc # "idle"
          /\ claiming'[o].workspace = claiming[o].workspace
          /\ claiming'[o].developer = claiming[o].developer
  BY DEF InsertDeveloper, TypeOK, ClaimStates
<1>3. ClaimsOK'
  <2>1. Live(workspace)' = Live(workspace)
    BY <1>1 DEF Live
  <2> QED
    BY <1>1, <1>2, <2>1 DEF Facts, ClaimsOK
<1> QED
  BY <1>1, <1>3, SameKeys, SameTables, SameOwners, SameRotations DEF Facts

LEMMA DropClaimStep ==
    ASSUME TypeOK, Facts, NEW c \in Claims, DropClaim(c)
    PROVE  Facts'
<1>1. UNCHANGED <<workspace, developer, agent, key, session, rotating, renewing>>
  BY DEF DropClaim, tables
<1>2. claiming'[c].pc = "idle" /\ \A o \in Claims \ {c} : claiming'[o] = claiming[o]
  BY DEF DropClaim, TypeOK, IdleClaim
<1>3. ClaimsOK'
  <2>1. Live(workspace)' = Live(workspace)
    BY <1>1 DEF Live
  <2> QED
    BY <1>1, <1>2, <2>1 DEF Facts, ClaimsOK
<1> QED
  BY <1>1, <1>3, SameKeys, SameTables, SameOwners, SameRotations DEF Facts

LEMMA CommitClaimStep ==
    ASSUME TypeOK, Facts, NEW c \in Claims, NEW s \in Sessions, CommitClaim(c, s)
    PROVE  Facts'
<1>0. PICK w \in Workspaces, d \in Developers :
          w = claiming[c].workspace /\ d = claiming[c].developer
  BY DEF CommitClaim, Facts, ClaimsOK, Live, TypeOK
<1>1. /\ w \in Live(workspace) /\ workspace[w].owner = NoDeveloper
      /\ developer[d].state = "unused" /\ d \notin Live(developer)
      /\ \A o \in Claims \ {c} : claiming[o].pc # "idle" =>
             claiming[o].workspace # w /\ claiming[o].developer # d
  BY <1>0 DEF CommitClaim, Facts, ClaimsOK, Live, TypeOK
<1>2. /\ Live(workspace)' = Live(workspace)
      /\ workspace'[w].owner = d /\ workspace'[w].claimable = FALSE /\ workspace'[w].invite = 1
      /\ \A v \in Workspaces \ {w} : workspace'[v] = workspace[v]
  <2>1. workspace[w] \in WorkspaceRows /\ workspace[w].state = "live"
    BY <1>1 DEF TypeOK, Live
  <2>2. /\ workspace'[w] = [workspace[w] EXCEPT !.owner = d, !.claimable = FALSE, !.invite = 1]
        /\ \A v \in Workspaces \ {w} : workspace'[v] = workspace[v]
        /\ DOMAIN workspace' = Workspaces
    BY <1>0 DEF CommitClaim, Claimed, TypeOK
  <2>3. /\ workspace'[w].owner = d /\ workspace'[w].claimable = FALSE /\ workspace'[w].invite = 1
        /\ workspace'[w].state = "live"
    BY <2>1, <2>2 DEF WorkspaceRows
  <2>4. Live(workspace)' = Live(workspace)
    <3>1. \A v \in Workspaces : workspace'[v].state = "live" <=> workspace[v].state = "live"
      BY <2>1, <2>2, <2>3
    <3> QED
      BY <2>2, <3>1 DEF Live, TypeOK
  <2> QED
    BY <2>2, <2>3, <2>4
<1>3. /\ Live(developer)' = Live(developer) \cup {d}
      /\ \A e \in Developers \ {d} : developer'[e] = developer[e]
  BY <1>0, <1>1 DEF CommitClaim, Live, TypeOK
<1>4. /\ UNCHANGED <<agent, key, rotating>>
      /\ Live(session)' = Live(session) \cup {s} /\ s \notin Live(session)
      /\ \A t \in Live(session) : session'[t] = session[t]
      /\ session'[s].developer = d
  BY <1>0 DEF CommitClaim, Live, TypeOK, SessionOf
<1>5. NoOrphans'
  <2>1. Live(agent)' = Live(agent) /\ Live(key)' = Live(key)
    BY <1>4 DEF Live
  <2>2. \A v \in Live(workspace)' : workspace'[v].owner \in Live(developer)' \cup {NoDeveloper}
    BY <1>2, <1>3 DEF Facts, NoOrphans, Live, TypeOK
  <2>3. \A t \in Live(session)' : session'[t].developer \in Live(developer)'
    BY <1>3, <1>4 DEF Facts, NoOrphans
  <2> QED
    BY <1>2, <1>4, <2>1, <2>2, <2>3 DEF Facts, NoOrphans
<1>6. DeveloperOwnsOne'
  <2>1. \A v \in Workspaces : Owns(d, v)' <=> v = w
    BY <1>1, <1>2, NullsAssumption DEF Owns, Facts, NoOrphans, NullsAssumption
  <2>2. \A e \in Developers \ {d}, v \in Workspaces : Owns(e, v)' <=> Owns(e, v)
    BY <1>1, <1>2, NullsAssumption DEF Owns, NullsAssumption
  <2>3. ASSUME NEW e \in Live(developer)'
        PROVE  (\E v \in Workspaces : {u \in Workspaces : Owns(e, u)} = {v})'
    <3>1. CASE e = d
      BY <1>1, <2>1, <3>1
    <3>2. CASE e # d
      <4>1. e \in Live(developer) /\ e \in Developers
        BY <1>3, <3>2 DEF Live, TypeOK
      <4> QED
        BY <2>2, <3>2, <4>1 DEF Facts, DeveloperOwnsOne
    <3> QED
      BY <3>1, <3>2
  <2> QED
    BY <2>3 DEF DeveloperOwnsOne
<1>7. OneWayIn'
  <2>1. ASSUME NEW v \in Live(workspace)', v # w
        PROVE  /\ workspace'[v].claimable <=> workspace'[v].owner = NoDeveloper
               /\ workspace'[v].claimable <=> workspace'[v].invite = 0
    <3>1. v \in Live(workspace) /\ v \in Workspaces \ {w}
      BY <1>2, <2>1 DEF Live, TypeOK
    <3>2. workspace'[v] = workspace[v]
      BY <1>2, <3>1
    <3> QED
      BY <3>1, <3>2, Zenon DEF Facts, OneWayIn
  <2>2. d # NoDeveloper /\ 1 # 0
    BY NullsAssumption DEF NullsAssumption
  <2> QED
    BY <1>2, <2>1, <2>2 DEF OneWayIn
<1>8. ClaimsOK'
  <2>1. claiming'[c].pc = "idle" /\ \A o \in Claims \ {c} : claiming'[o] = claiming[o]
    BY DEF CommitClaim, TypeOK, IdleClaim
  <2> QED
    BY <1>1, <1>2, <1>3, <2>1 DEF Facts, ClaimsOK, Live, TypeOK
<1>9. RenewalsOK'
  <2>1. UNCHANGED renewing /\ w \in Live(workspace)'
    BY <1>1, <1>2 DEF CommitClaim
  <2>2. workspace'[w].state # "unused" /\ d # NoDeveloper
    BY <2>1, NullsAssumption DEF Live, NullsAssumption
  <2> QED
    BY <1>2, <2>1, <2>2 DEF Facts, RenewalsOK
<1> QED
  BY <1>4, <1>5, <1>6, <1>7, <1>8, <1>9, SameKeys, SameRotations DEF Facts

LEMMA BeginRotateStep ==
    ASSUME TypeOK, Facts, NEW r \in Rotations, NEW a \in Agents, BeginRotate(r, a)
    PROVE  Facts'
<1>1. UNCHANGED <<workspace, developer, agent, key, session, claiming, renewing>>
  BY DEF BeginRotate, tables
<1>2. /\ a \in Live(agent)
      /\ \A o \in Rotations : rotating[o].pc # "idle" => rotating[o].agent # a
  BY DEF BeginRotate, RotationHoldsIn, RotationHolds
<1>3. /\ rotating'[r].pc = "revoke" /\ rotating'[r].agent = a
      /\ \A o \in Rotations \ {r} : rotating'[o] = rotating[o]
  BY DEF BeginRotate, TypeOK
<1>4. RotationsOK'
  <2>1. Live(agent)' = Live(agent)
    BY <1>1 DEF Live
  <2> QED
    BY <1>1, <1>2, <1>3, <2>1, SameKeys DEF Facts, RotationsOK
<1> QED
  BY <1>1, <1>4, SameKeys, SameTables, SameOwners DEF Facts

LEMMA RevokeKeysStep ==
    ASSUME TypeOK, Facts, NEW r \in Rotations, RevokeKeys(r)
    PROVE  Facts'
<1>1. UNCHANGED <<workspace, developer, agent, key, session, claiming, renewing>>
  BY DEF RevokeKeys, tables
<1>2. /\ rotating[r].pc # "idle"
      /\ rotating'[r].agent = rotating[r].agent /\ rotating'[r].revoked = LiveKeys(rotating[r].agent)
      /\ \A o \in Rotations \ {r} : rotating'[o] = rotating[o]
  BY DEF RevokeKeys, TypeOK, RotateStates
<1>3. RotationsOK'
  <2>1. Live(agent)' = Live(agent)
    BY <1>1 DEF Live
  <2> QED
    BY <1>1, <1>2, <2>1, SameKeys DEF Facts, RotationsOK
<1> QED
  BY <1>1, <1>3, SameKeys, SameTables, SameOwners DEF Facts

LEMMA DropRotateStep ==
    ASSUME TypeOK, Facts, NEW r \in Rotations, DropRotate(r)
    PROVE  Facts'
<1>1. UNCHANGED <<workspace, developer, agent, key, session, claiming, renewing>>
  BY DEF DropRotate, tables
<1>2. rotating'[r].pc = "idle" /\ \A o \in Rotations \ {r} : rotating'[o] = rotating[o]
  BY DEF DropRotate, TypeOK, IdleRotate
<1>3. RotationsOK'
  <2>1. Live(agent)' = Live(agent)
    BY <1>1 DEF Live
  <2> QED
    BY <1>1, <1>2, <2>1, SameKeys DEF Facts, RotationsOK
<1> QED
  BY <1>1, <1>3, SameKeys, SameTables, SameOwners DEF Facts

LEMMA CommitRotateStep ==
    ASSUME TypeOK, Facts, NEW r \in Rotations, NEW k \in Keys, CommitRotate(r, k)
    PROVE  Facts'
<1>0. PICK a \in Agents : a = rotating[r].agent
  BY DEF CommitRotate, Facts, RotationsOK, Live, TypeOK
<1>1. /\ a \in Live(agent) /\ rotating[r].revoked = LiveKeys(a)
      /\ \A o \in Rotations \ {r} : rotating[o].pc # "idle" => rotating[o].agent # a
  BY <1>0 DEF CommitRotate, Facts, RotationsOK
<1>2. /\ UNCHANGED <<workspace, developer, agent, session, claiming, renewing>>
      /\ Live(agent)' = Live(agent) /\ Live(workspace)' = Live(workspace)
      /\ Live(developer)' = Live(developer) /\ Live(session)' = Live(session)
  BY DEF CommitRotate, Live
<1>3. /\ key'[k] = KeyOf(a) /\ DOMAIN key' = Keys
      /\ \A i \in LiveKeys(a) : key'[i].state = "revoked"
      /\ \A i \in Keys \ (LiveKeys(a) \cup {k}) : key'[i] = key[i]
  <2>1. \A i \in LiveKeys(a) : i \in Keys /\ i # k /\ key[i] = KeyOf(a)
    BY DEF CommitRotate, LiveKeys, KeyOf
  <2>2. \A i \in LiveKeys(a) : key'[i] = [key[i] EXCEPT !.state = "revoked"]
    BY <1>0, <1>1, <2>1 DEF CommitRotate
  <2> QED
    BY <1>0, <1>1, <2>1, <2>2 DEF CommitRotate, KeyOf
<1>4. key[k].state = "unused" /\ k \notin Live(key)
  BY DEF CommitRotate, Live
<1>5. LiveKeys(a)' = {k}
  BY <1>3 DEF LiveKeys, KeyOf
<1>6. ASSUME NEW b \in Agents, b # a PROVE LiveKeys(b)' = LiveKeys(b)
  <2>1. \A i \in LiveKeys(a) : key[i] = KeyOf(a)
    BY DEF LiveKeys
  <2> QED
    BY <1>3, <1>4, <1>6, <2>1 DEF LiveKeys, KeyOf
<1>7. OneLiveKey'
  <2> SUFFICES ASSUME NEW b \in Live(agent)' PROVE (\E i \in Keys : LiveKeys(b) = {i})'
    BY DEF OneLiveKey
  <2>1. b \in Live(agent) /\ b \in Agents
    BY <1>2 DEF Live, TypeOK
  <2>2. CASE b = a
    BY <2>2, <1>5
  <2>3. CASE b # a
    BY <2>1, <2>3, <1>6 DEF Facts, OneLiveKey
  <2> QED
    BY <2>2, <2>3
<1>8. NoOrphans'
  <2>1. ASSUME NEW i \in Live(key)' PROVE key'[i].agent \in Live(agent)'
    <3>1. CASE i = k
      BY <1>1, <1>2, <1>3, <3>1 DEF KeyOf
    <3>2. CASE i # k
      <4>1. i \in Keys /\ key'[i].state = "live"
        BY <1>3 DEF Live
      <4>2. i \notin LiveKeys(a)
        BY <1>3, <4>1
      <4>3. key'[i] = key[i] /\ i \in Live(key)
        BY <1>3, <3>2, <4>1, <4>2 DEF Live, TypeOK
      <4> QED
        BY <1>2, <4>3 DEF Facts, NoOrphans
    <3> QED
      BY <3>1, <3>2
  <2> QED
    BY <1>2, <2>1 DEF Facts, NoOrphans
<1>9. RotationsOK'
  <2>1. rotating'[r].pc = "idle" /\ \A o \in Rotations \ {r} : rotating'[o] = rotating[o]
    BY DEF CommitRotate, TypeOK, IdleRotate
  <2>2. \A o \in Rotations \ {r} : rotating[o].pc # "idle" =>
            /\ rotating[o].agent \in Live(agent) /\ rotating[o].agent \in Agents
            /\ rotating[o].agent # a
    BY <1>1 DEF Facts, RotationsOK, Live, TypeOK
  <2> QED
    BY <1>2, <1>6, <2>1, <2>2 DEF Facts, RotationsOK
<1> QED
  BY <1>2, <1>7, <1>8, <1>9, SameOwners DEF Facts

LEMMA BeginRenewStep ==
    ASSUME TypeOK, Facts, NEW n \in Renewals, NEW d \in Developers, NEW w \in Workspaces,
           BeginRenew(n, d, w)
    PROVE  Facts'
<1>1. UNCHANGED <<workspace, developer, agent, key, session, claiming, rotating>>
  BY DEF BeginRenew, tables
<1>2. /\ renewing'[n].workspace = w /\ \A o \in Renewals \ {n} : renewing'[o] = renewing[o]
      /\ workspace[w].state # "unused" /\ workspace[w].owner # NoDeveloper
  BY NullsAssumption DEF BeginRenew, TypeOK, Owns, Live, NullsAssumption
<1>3. RenewalsOK'
  BY <1>1, <1>2 DEF Facts, RenewalsOK
<1> QED
  BY <1>1, <1>3, SameKeys, SameTables, SameOwners, SameRotations DEF Facts

LEMMA DropRenewStep ==
    ASSUME TypeOK, Facts, NEW n \in Renewals, DropRenew(n)
    PROVE  Facts'
<1>1. UNCHANGED <<workspace, developer, agent, key, session, claiming, rotating>>
  BY DEF DropRenew, tables
<1>2. renewing'[n].pc = "idle" /\ \A o \in Renewals \ {n} : renewing'[o] = renewing[o]
  BY DEF DropRenew, TypeOK, IdleRenew
<1>3. RenewalsOK'
  BY <1>1, <1>2 DEF Facts, RenewalsOK
<1> QED
  BY <1>1, <1>3, SameKeys, SameTables, SameOwners, SameRotations DEF Facts

LEMMA UpdateInviteStep ==
    ASSUME TypeOK, Facts, NEW n \in Renewals, UpdateInvite(n)
    PROVE  Facts'
<1>0. PICK w \in Workspaces : /\ w = renewing[n].workspace /\ workspace[w].owner # NoDeveloper
  BY DEF UpdateInvite, Facts, RenewalsOK
<1>1. UNCHANGED <<developer, agent, key, session, claiming, rotating>>
  BY DEF UpdateInvite
<1>2. /\ \A v \in Workspaces : /\ workspace'[v].state = workspace[v].state
                               /\ workspace'[v].owner = workspace[v].owner
                               /\ workspace'[v].claimable = workspace[v].claimable
      /\ \A v \in Workspaces \ {w} : workspace'[v] = workspace[v]
      /\ DOMAIN workspace' = Workspaces
      /\ workspace'[w] = workspace[w] \/ workspace'[w].invite = workspace[w].invite + 1
      /\ workspace[w].invite \in Nat
  <2>1. workspace[w] \in WorkspaceRows
    BY DEF TypeOK
  <2>2. CASE workspace' = [workspace EXCEPT ![w].invite = @ + 1]
    BY <2>1, <2>2 DEF TypeOK, WorkspaceRows
  <2>3. CASE UNCHANGED workspace
    BY <2>1, <2>3 DEF TypeOK, WorkspaceRows
  <2> QED
    BY <1>0, <2>2, <2>3 DEF UpdateInvite
<1>3. /\ Live(workspace)' = Live(workspace) /\ Live(developer)' = Live(developer)
      /\ Live(agent)' = Live(agent) /\ Live(key)' = Live(key) /\ Live(session)' = Live(session)
      /\ Live(workspace) \subseteq Workspaces
  BY <1>1, <1>2 DEF Live, TypeOK
<1>4. NoOrphans'
  BY <1>1, <1>2, <1>3 DEF Facts, NoOrphans
<1>5. DeveloperOwnsOne'
  <2>1. \A d, v : v \in Workspaces => (Owns(d, v)' <=> Owns(d, v))
    BY <1>2, <1>3 DEF Owns
  <2> QED
    BY <1>3, <2>1 DEF Facts, DeveloperOwnsOne
<1>6. OneWayIn'
  <2>1. ASSUME w \in Live(workspace)
        PROVE  ~workspace'[w].claimable /\ workspace'[w].invite # 0
    <3>1. ~workspace[w].claimable /\ workspace[w].invite # 0
      BY <1>0, <2>1, Zenon DEF Facts, OneWayIn
    <3> QED
      BY <1>2, <3>1
  <2>2. ASSUME NEW v \in Live(workspace)
        PROVE  /\ workspace'[v].claimable <=> workspace'[v].owner = NoDeveloper
               /\ workspace'[v].claimable <=> workspace'[v].invite = 0
    <3>1. CASE v = w
      BY <1>0, <1>2, <2>1, <2>2, <3>1
    <3>2. CASE v # w
      <4>1. workspace'[v] = workspace[v]
        BY <1>2, <1>3, <3>2
      <4> QED
        BY <4>1, Zenon DEF Facts, OneWayIn
    <3> QED
      BY <3>1, <3>2
  <2> QED
    BY <1>3, <2>2 DEF OneWayIn
<1>7. ClaimsOK'
  <2>1. \A c \in Claims : claiming[c].workspace \in Live(workspace) =>
            workspace'[claiming[c].workspace].owner = workspace[claiming[c].workspace].owner
    BY <1>2, <1>3
  <2> QED
    BY <1>1, <1>3, <2>1 DEF Facts, ClaimsOK
<1>8. RenewalsOK'
  <2>1. renewing'[n].pc = "idle" /\ \A o \in Renewals \ {n} : renewing'[o] = renewing[o]
    BY DEF UpdateInvite, TypeOK, IdleRenew
  <2> QED
    BY <1>2, <2>1 DEF Facts, RenewalsOK
<1> QED
  BY <1>1, <1>4, <1>5, <1>6, <1>7, <1>8, SameKeys, SameRotations DEF Facts

LEMMA GoneStates ==
    /\ \A row \in WorkspaceRows : /\ Gone(row).state = "gone"
                                 /\ Gone(row).owner = row.owner
    /\ \A row \in DeveloperRows : Gone(row).state = "gone"
    /\ \A row \in AgentRows : Gone(row).state = "gone"
    /\ \A row \in KeyRows : Gone(row).state = "gone"
    /\ \A row \in SessionRows : Gone(row).state = "gone"
BY DEF Gone, WorkspaceRows, DeveloperRows, AgentRows, KeyRows, SessionRows

LEMMA LiveWithout ==
    ASSUME NEW table, NEW ids, \A id \in DOMAIN table : Gone(table[id]).state = "gone"
    PROVE  /\ Live(Without(table, ids)) = Live(table) \ ids
           /\ DOMAIN Without(table, ids) = DOMAIN table
           /\ \A id \in DOMAIN table \ ids : Without(table, ids)[id] = table[id]
           /\ \A id \in ids \cap DOMAIN table : Without(table, ids)[id] = Gone(table[id])
<1>1. \A id \in DOMAIN table \cap ids : Without(table, ids)[id].state # "live"
  BY DEF Without
<1> QED
  BY <1>1 DEF Without, Live

\* Sessions come and go; a live one is of a developer that is there.
LEMMA SessionsOnly ==
    ASSUME Facts, UNCHANGED <<workspace, developer, agent, key, claiming, rotating, renewing>>,
           \A s \in Live(session)' : session'[s].developer \in Live(developer)
    PROVE  Facts'
<1>1. /\ Live(workspace)' = Live(workspace) /\ Live(agent)' = Live(agent) /\ Live(key)' = Live(key)
      /\ Live(developer)' = Live(developer)
  BY DEF Live
<1>2. NoOrphans'
  BY <1>1 DEF Facts, NoOrphans
<1> QED
  BY <1>2, SameKeys, SameOwners, SameRotations DEF Facts

LEMMA SessionSteps ==
    ASSUME TypeOK, Facts
    PROVE  /\ \A e \in Entries, s \in Sessions : InsertSession(e, s) => Facts'
           /\ \A s \in Sessions : Expire(s) => Facts'
           /\ Cleanup => Facts'
<1>1. ASSUME NEW e \in Entries, NEW s \in Sessions, InsertSession(e, s) PROVE Facts'
  <2>1. session'[s].developer \in Live(developer)
    BY <1>1 DEF InsertSession, TypeOK, SessionOf
  <2>2. \A t \in Sessions \ {s} : session'[t] = session[t]
    BY <1>1 DEF InsertSession, TypeOK
  <2>3. \A t \in Live(session)' : t \in Sessions /\ (t # s => t \in Live(session))
    BY <1>1, <2>2 DEF InsertSession, TypeOK, Live
  <2> QED
    BY <1>1, <2>1, <2>2, <2>3, SessionsOnly DEF InsertSession, Facts, NoOrphans
<1>2. ASSUME NEW s \in Sessions, Expire(s) PROVE Facts'
  <2>1. \A t \in Live(session)' : t \in Live(session) /\ session'[t] = session[t]
    BY <1>2 DEF Expire, TypeOK, Live
  <2> QED
    BY <1>2, <2>1, SessionsOnly DEF Expire, requests, Facts, NoOrphans
<1>3. CASE Cleanup
  <2>1. \A t \in Live(session)' : t \in Live(session) /\ session'[t] = session[t]
    <3>1. PICK old : session' = Without(session, old)
      BY <1>3 DEF Cleanup
    <3>2. \A t \in DOMAIN session : Gone(session[t]).state = "gone"
      BY GoneStates DEF TypeOK
    <3>3. Live(session') = Live(session) \ old /\ \A t \in DOMAIN session \ old : session'[t] = session[t]
      BY <3>1, <3>2, LiveWithout
    <3> QED
      BY <3>3 DEF Live
  <2> QED
    BY <1>3, <2>1, SessionsOnly DEF Cleanup, requests, Facts, NoOrphans
<1> QED
  BY <1>1, <1>2, <1>3

LEMMA DeleteAccountStep ==
    ASSUME TypeOK, Facts, NEW d \in Developers, DeleteAccount(d)
    PROVE  Facts'
<1> DEFINE owned == {w \in Workspaces : Owns(d, w)}
           agents == {a \in Live(agent) : agent[a].workspace \in owned}
           keys == {k \in Keys : key[k].state \in {"live", "revoked"} /\ key[k].agent \in agents}
           sessions == {s \in Sessions : session[s].state \in {"live", "expired"} /\ session[s].developer = d}
<1>1. PICK W, A, K, S : W = owned /\ A = agents /\ K = keys /\ S = sessions
  OBVIOUS
<1>2. /\ W = {w \in Live(workspace) : workspace[w].owner = d}
      /\ A = {a \in Live(agent) : agent[a].workspace \in W}
      /\ Live(key) \cap K = {k \in Live(key) : key[k].agent \in A}
      /\ Live(session) \cap S = {s \in Live(session) : session[s].developer = d}
      /\ W \subseteq Workspaces /\ A \subseteq Agents /\ K \subseteq Keys
      /\ \A k \in K : key[k].agent \in A
  BY <1>1 DEF Owns, Live, TypeOK
<1>3. /\ workspace' = Without(workspace, W) /\ agent' = Without(agent, A) /\ key' = Without(key, K)
      /\ session' = Without(session, S) /\ developer' = Without(developer, {d})
      /\ UNCHANGED <<claiming, rotating, renewing>>
      /\ \A w \in W : ~RotationHoldsIn(w)
  BY <1>1 DEF DeleteAccount, requests
<1> HIDE DEF owned, agents, keys, sessions
<1>4. /\ workspace \in [Workspaces -> WorkspaceRows] /\ agent \in [Agents -> AgentRows]
      /\ key \in [Keys -> KeyRows] /\ session \in [Sessions -> SessionRows]
      /\ developer \in [Developers -> DeveloperRows]
  BY DEF TypeOK
<1>5. /\ Live(workspace)' = Live(workspace) \ W /\ Live(agent)' = Live(agent) \ A
      /\ Live(key)' = Live(key) \ K /\ Live(session)' = Live(session) \ S
      /\ Live(developer)' = Live(developer) \ {d}
      /\ \A w \in Workspaces \ W : workspace'[w] = workspace[w]
      /\ \A a \in Agents \ A : agent'[a] = agent[a]
      /\ \A k \in Keys \ K : key'[k] = key[k]
      /\ \A s \in Sessions \ S : session'[s] = session[s]
      /\ \A e \in Developers \ {d} : developer'[e] = developer[e]
      /\ \A w \in W : workspace'[w].state = "gone" /\ workspace'[w].owner = workspace[w].owner
      /\ \A k \in K : key'[k].state = "gone"
  <2>1. /\ Live(workspace') = Live(workspace) \ W
        /\ \A id \in Workspaces \ W : workspace'[id] = workspace[id]
        /\ \A id \in W \cap Workspaces : workspace'[id] = Gone(workspace[id])
    <3>1. DOMAIN workspace = Workspaces /\ \A id \in DOMAIN workspace : Gone(workspace[id]).state = "gone"
      BY <1>4, GoneStates
    <3>2. workspace' = Without(workspace, W)
      BY <1>3
    <3> QED
      BY <3>1, <3>2, LiveWithout
  <2>2. /\ Live(agent') = Live(agent) \ A
        /\ \A id \in Agents \ A : agent'[id] = agent[id]
        /\ \A id \in A \cap Agents : agent'[id] = Gone(agent[id])
    <3>1. DOMAIN agent = Agents /\ \A id \in DOMAIN agent : Gone(agent[id]).state = "gone"
      BY <1>4, GoneStates
    <3>2. agent' = Without(agent, A)
      BY <1>3
    <3> QED
      BY <3>1, <3>2, LiveWithout
  <2>3. /\ Live(key') = Live(key) \ K
        /\ \A id \in Keys \ K : key'[id] = key[id]
        /\ \A id \in K \cap Keys : key'[id] = Gone(key[id])
    <3>1. DOMAIN key = Keys /\ \A id \in DOMAIN key : Gone(key[id]).state = "gone"
      BY <1>4, GoneStates
    <3>2. key' = Without(key, K)
      BY <1>3
    <3> QED
      BY <3>1, <3>2, LiveWithout
  <2>4. /\ Live(session') = Live(session) \ S
        /\ \A id \in Sessions \ S : session'[id] = session[id]
        /\ \A id \in S \cap Sessions : session'[id] = Gone(session[id])
    <3>1. DOMAIN session = Sessions /\ \A id \in DOMAIN session : Gone(session[id]).state = "gone"
      BY <1>4, GoneStates
    <3>2. session' = Without(session, S)
      BY <1>3
    <3> QED
      BY <3>1, <3>2, LiveWithout
  <2>5. /\ Live(developer') = Live(developer) \ {d}
        /\ \A id \in Developers \ {d} : developer'[id] = developer[id]
        /\ \A id \in {d} \cap Developers : developer'[id] = Gone(developer[id])
    <3>1. DOMAIN developer = Developers /\ \A id \in DOMAIN developer : Gone(developer[id]).state = "gone"
      BY <1>4, GoneStates
    <3>2. developer' = Without(developer, {d})
      BY <1>3
    <3> QED
      BY <3>1, <3>2, LiveWithout
  <2>6. \A w \in W : workspace'[w].state = "gone" /\ workspace'[w].owner = workspace[w].owner
    BY <1>2, <1>4, <2>1, GoneStates
  <2>7. \A k \in K : key'[k].state = "gone"
    BY <1>2, <1>4, <2>3, GoneStates
  <2> QED
    BY <2>1, <2>2, <2>3, <2>4, <2>5, <2>6, <2>7 DEF Live
<1>8. /\ Live(workspace) \subseteq Workspaces /\ Live(agent) \subseteq Agents /\ Live(key) \subseteq Keys
      /\ Live(session) \subseteq Sessions /\ Live(developer) \subseteq Developers
  BY <1>4 DEF Live
<1>9. ASSUME NEW b \in Agents \ A PROVE LiveKeys(b)' = LiveKeys(b)
  <2>1. \A k \in K : key'[k] # KeyOf(b) /\ key[k] # KeyOf(b)
    BY <1>2, <1>5 DEF KeyOf
  <2> QED
    BY <1>2, <1>5, <2>1 DEF LiveKeys, KeyOf
<1>10. OneLiveKey'
  <2> SUFFICES ASSUME NEW b \in Live(agent)' PROVE (\E i \in Keys : LiveKeys(b) = {i})'
    BY DEF OneLiveKey
  <2> QED
    BY <1>5, <1>8, <1>9 DEF Facts, OneLiveKey
<1>11. NoOrphans'
  <2>1. \A a \in Live(agent)' : agent'[a].workspace \in Live(workspace)'
    BY <1>2, <1>5, <1>8 DEF Facts, NoOrphans
  <2>2. \A k \in Live(key)' : key'[k].agent \in Live(agent)'
    BY <1>2, <1>5, <1>8 DEF Facts, NoOrphans
  <2>3. \A s \in Live(session)' : session'[s].developer \in Live(developer)'
    BY <1>2, <1>5, <1>8 DEF Facts, NoOrphans
  <2>4. \A w \in Live(workspace)' : workspace'[w].owner \in Live(developer)' \cup {NoDeveloper}
    BY <1>2, <1>5, <1>8 DEF Facts, NoOrphans
  <2> QED
    BY <2>1, <2>2, <2>3, <2>4 DEF NoOrphans
<1>12. DeveloperOwnsOne'
  <2> SUFFICES ASSUME NEW e \in Live(developer)'
               PROVE  (\E v \in Workspaces : {u \in Workspaces : Owns(e, u)} = {v})'
    BY DEF DeveloperOwnsOne
  <2>1. e \in Live(developer) /\ e # d
    BY <1>5
  <2>2. \A v \in Workspaces : Owns(e, v)' <=> Owns(e, v)
    BY <1>2, <1>5, <2>1 DEF Owns
  <2> QED
    BY <2>1, <2>2 DEF Facts, DeveloperOwnsOne
<1>13. OneWayIn'
  <2>1. ASSUME NEW w \in Live(workspace)'
        PROVE  /\ workspace'[w].claimable <=> workspace'[w].owner = NoDeveloper
               /\ workspace'[w].claimable <=> workspace'[w].invite = 0
    <3>1. w \in Live(workspace) /\ workspace'[w] = workspace[w]
      BY <1>5, <1>8, <2>1
    <3> QED
      BY <3>1, Zenon DEF Facts, OneWayIn
  <2> QED
    BY <2>1 DEF OneWayIn
<1>14. ClaimsOK'
  <2>1. d \in Live(developer) /\ developer[d].state = "live"
    BY <1>8 DEF DeleteAccount, SignedIn, SessionOf, Facts, NoOrphans, Live, TypeOK
  <2>2. ASSUME NEW c \in Claims, claiming[c].pc # "idle"
        PROVE  /\ claiming[c].workspace \in Live(workspace)'
               /\ workspace'[claiming[c].workspace] = workspace[claiming[c].workspace]
               /\ developer'[claiming[c].developer] = developer[claiming[c].developer]
    <3>1. /\ claiming[c].workspace \in Live(workspace)
          /\ workspace[claiming[c].workspace].owner = NoDeveloper
          /\ claiming[c].developer \in Developers /\ claiming[c].developer # d
      BY <2>1, <2>2 DEF Facts, ClaimsOK
    <3>2. claiming[c].workspace \notin W
      BY <1>2, <3>1, NullsAssumption DEF NullsAssumption
    <3> QED
      BY <1>5, <1>8, <3>1, <3>2
  <2> QED
    BY <1>3, <2>2 DEF Facts, ClaimsOK
<1>15. RotationsOK'
  <2>1. ASSUME NEW r \in Rotations, rotating[r].pc # "idle"
        PROVE  rotating[r].agent \in Live(agent) /\ rotating[r].agent \in Agents \ A
    <3>1. rotating[r].agent \in Live(agent) /\ rotating[r].agent \in Agents
      BY <1>8, <2>1 DEF Facts, RotationsOK
    <3>2. RotationHoldsIn(agent[rotating[r].agent].workspace)
      BY <2>1, <3>1 DEF RotationHoldsIn, RotationHolds
    <3> QED
      BY <1>2, <1>3, <3>1, <3>2
  <2> QED
    BY <1>3, <1>5, <1>9, <2>1 DEF Facts, RotationsOK
<1>16. RenewalsOK'
  BY <1>3, <1>5 DEF Facts, RenewalsOK
<1> QED
  BY <1>10, <1>11, <1>12, <1>13, <1>14, <1>15, <1>16 DEF Facts

-----------------------------------------------------------------------------
(* The invariant, and what follows from it.                                *)

LEMMA FactsStep ==
    ASSUME TypeOK, Facts, [Next]_vars
    PROVE  Facts'
<1>1. ASSUME NEW c \in Claims, ClaimStep(c) PROVE Facts'
  BY <1>1, BeginClaimStep, InsertDeveloperStep, CommitClaimStep, DropClaimStep DEF ClaimStep
<1>2. ASSUME NEW j \in Joins, JoinStep(j) PROVE Facts'
  <2>1. CASE \E a \in Agents, k \in Keys : InsertAgent(j, a, k)
    BY <2>1, InsertAgentStep
  <2>2. CASE ~\E a \in Agents, k \in Keys : InsertAgent(j, a, k)
    BY <1>2, <2>2, Untouched DEF JoinStep, BeginJoin, BeginCreateAgent, DropJoin, tables
  <2> QED
    BY <2>1, <2>2
<1>3. ASSUME NEW r \in Rotations, RotateStep(r) PROVE Facts'
  BY <1>3, BeginRotateStep, RevokeKeysStep, CommitRotateStep, DropRotateStep DEF RotateStep
<1>4. ASSUME NEW n \in Renewals, RenewStep(n) PROVE Facts'
  BY <1>4, BeginRenewStep, UpdateInviteStep, DropRenewStep DEF RenewStep
<1>5. ASSUME NEW e \in Entries, EnterStep(e) PROVE Facts'
  <2>1. CASE \E s \in Sessions : InsertSession(e, s)
    BY <2>1, SessionSteps
  <2>2. CASE ~\E s \in Sessions : InsertSession(e, s)
    BY <1>5, <2>2, Untouched DEF EnterStep, BeginEntry, DropEntry, tables
  <2> QED
    BY <2>1, <2>2
<1>6. CASE UNCHANGED vars
  BY <1>6, Untouched DEF vars
<1> QED
  BY <1>1, <1>2, <1>3, <1>4, <1>5, <1>6, RegisterNewStep, SessionSteps, DeleteAccountStep DEF Next

LEMMA NextInv == IInv /\ [Next]_vars => IInv'
<1> SUFFICES ASSUME IInv, [Next]_vars PROVE IInv'
  OBVIOUS
<1>1. TypeOK /\ Facts /\ ClaimsOK /\ RotationsOK
  BY DEF IInv, Facts
<1>2. TypeOK' /\ Facts'
  BY <1>1, TypeStep, FactsStep
<1> QED
  BY <1>2 DEF IInv, Facts

\* The inductive invariant holds for any number of rows and requests in flight.
THEOREM Invariance == Spec => []IInv
<1> QED
  BY InitInv, NextInv, PTL DEF Spec

\* Tables and requests in flight keep their types.
THEOREM TypeCorrect == Spec => []TypeOK
<1>1. IInv => TypeOK
  BY DEF IInv
<1> QED
  BY <1>1, Invariance, PTL

\* rotate_agent_key: every agent has one live key, whatever rotations run at once.
THEOREM KeysAreSingle == Spec => []OneLiveKey
<1>1. IInv => OneLiveKey
  BY DEF IInv
<1> QED
  BY <1>1, Invariance, PTL

\* delete_developer_account against register, create, rotate and login: no orphans.
THEOREM NothingIsOrphaned == Spec => []NoOrphans
<1>1. IInv => NoOrphans
  BY DEF IInv
<1> QED
  BY <1>1, Invariance, PTL

\* claim_workspace: every account owns one workspace.
THEOREM AccountsOwnOne == Spec => []DeveloperOwnsOne
<1>1. IInv => DeveloperOwnsOne
  BY DEF IInv
<1> QED
  BY <1>1, Invariance, PTL

\* claim_workspace and register_agent: every workspace has one way in.
THEOREM WaysInAreSingle == Spec => []OneWayIn
<1>1. IInv => OneWayIn
  BY DEF IInv
<1> QED
  BY <1>1, Invariance, PTL

LEMMA OwnerStays ==
    ASSUME IInv, [Next]_vars, NEW w \in Live(workspace), workspace[w].owner # NoDeveloper,
           w \in Live(workspace)'
    PROVE  workspace'[w].owner = workspace[w].owner
<1>1. w \in Workspaces /\ workspace[w] \in WorkspaceRows /\ workspace[w].state = "live"
  BY DEF IInv, TypeOK, Live
<1>2. ASSUME NEW v \in Workspaces, NEW a \in Agents, NEW k \in Keys, RegisterNew(v, a, k)
      PROVE  workspace'[w] = workspace[w]
  BY <1>1, <1>2 DEF RegisterNew, IInv, TypeOK
<1>3. ASSUME NEW c \in Claims, NEW s \in Sessions, CommitClaim(c, s)
      PROVE  workspace'[w] = workspace[w]
  <2>1. claiming[c].workspace # w
    BY <1>3 DEF CommitClaim, IInv, ClaimsOK
  <2> QED
    BY <1>1, <1>3, <2>1 DEF CommitClaim, IInv, TypeOK
<1>4. ASSUME NEW n \in Renewals, UpdateInvite(n) PROVE workspace'[w].owner = workspace[w].owner
  BY <1>1, <1>4 DEF UpdateInvite, IInv, TypeOK, WorkspaceRows
<1>5. ASSUME NEW d \in Developers, DeleteAccount(d) PROVE workspace'[w].owner = workspace[w].owner
  <2>1. PICK ids : workspace' = Without(workspace, ids)
    BY <1>5 DEF DeleteAccount
  <2> QED
    BY <1>1, <2>1, GoneStates DEF Without, IInv, TypeOK
<1>6. CASE UNCHANGED workspace
  BY <1>6
<1> QED
  BY <1>2, <1>3, <1>4, <1>5, <1>6
     DEF Next, vars, tables, requests, ClaimStep, JoinStep, RotateStep, RenewStep, EnterStep,
         BeginClaim, InsertDeveloper, DropClaim, BeginJoin, BeginCreateAgent, InsertAgent, DropJoin,
         BeginRotate, RevokeKeys, CommitRotate, DropRotate, BeginRenew, DropRenew,
         BeginEntry, InsertSession, DropEntry, Expire, Cleanup

\* claim_workspace: a workspace that was claimed keeps its owner while it is there.
THEOREM OwnersAreFinal == Spec => OwnershipIsFinal
<1>1. IInv /\ [Next]_vars =>
          [\A w \in Live(workspace) :
               workspace[w].owner # NoDeveloper /\ w \in Live(workspace)' =>
                   workspace'[w].owner = workspace[w].owner]_vars
  BY OwnerStays
<1> QED
  BY <1>1, Invariance, PTL DEF Spec, OwnershipIsFinal
=============================================================================
