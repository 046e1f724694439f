--------------------------- MODULE MemoriesProofs ---------------------------
(***************************************************************************)
(* Theorems about Memories for every set of agents, memories, inputs and   *)
(* request slots.                                                          *)
(***************************************************************************)
EXTENDS Memories, TLAPS

-----------------------------------------------------------------------------
(* The copies of the read rule agree for every set of agents and           *)
(* workspaces, and for rows and callers the schema would allow although no *)
(* handler makes them: a row of a workspace its author is not in, and a    *)
(* developer with several workspaces.                                      *)

\* The rule of the SQL statements, over the lists of read_scope, and the two short
\* forms of list_memories select exactly the rows that can_read_row_principal lets
\* the same caller read.
THEOREM RuleCopiesAgree ==
    ASSUME NEW row \in AccessRows, NEW p \in Principals
    PROVE  CopiesAgree(row, p)
<1> USE DEF CopiesAgree, SelectedBySql, CanReadRow, CanReadRowPrincipal, ListedForAgent,
            ListedForDeveloper, AgentReaches, ReadScope, AccessRows, Visibilities
<1>1. ASSUME NEW a \in Agents, p = AgentPrincipal(a) PROVE CopiesAgree(row, p)
  <2>1. p.kind = "agent" /\ p.agent = a /\ p.agent # NoAgent
    BY <1>1, NoAgentAssumption DEF AgentPrincipal
  <2>2. ReadScope(p) = [shared |-> p.workspaces, full |-> {}, agent |-> p.agent]
    BY <2>1
  <2> QED
    BY <2>1, <2>2
<1>2. ASSUME NEW owned \in SUBSET Workspaces, p = DeveloperPrincipal(owned)
      PROVE  CopiesAgree(row, p)
  <2>1. p.kind = "developer"
    BY <1>2 DEF DeveloperPrincipal
  <2>2. ReadScope(p) = [shared |-> {}, full |-> p.workspaces, agent |-> NoAgent]
    BY <2>1
  <2> QED
    BY <2>1, <2>2
<1>3. CASE p = Anonymous
  <2>1. p.kind = "anonymous"
    BY <1>3 DEF Anonymous
  <2>2. ReadScope(p) = [shared |-> {}, full |-> {}, agent |-> NoAgent]
    BY <2>1
  <2> QED
    BY <2>1, <2>2
<1> QED
  BY <1>1, <1>2, <1>3 DEF Principals

-----------------------------------------------------------------------------
(* Rows and locals have their types.                                       *)

LEMMA IdleTypes ==
    /\ IdleImport \in ImportStates
    /\ IdlePublish \in PublishStates
    /\ IdleRemove \in RemoveStates
    /\ IdleRate \in RateStates
    /\ IdleRead \in ReadStates
    /\ NoMemoryRow \in MemoryRows
    /\ NoGapRow \in GapRows
BY DEF IdleImport, IdlePublish, IdleRemove, IdleRate, IdleRead, NoMemoryRow, NoGapRow,
       ImportStates, PublishStates, RemoveStates, RateStates, ReadStates, MemoryRows,
       GapRows, Visibilities, Principals

LEMMA InitType == Init => TypeOK
BY IdleTypes DEF Init, TypeOK, Policies

LEMMA InsertedTypes ==
    ASSUME NEW a \in Agents, NEW auto \in BOOLEAN, NEW m \in Memories, NEW input \in Inputs
    PROVE  /\ InsertedRow(a, auto, input) \in MemoryRows
           /\ InsertedChildren(m, input) \subseteq ChildRows
BY InputsAssumption
   DEF InsertedRow, InsertedChildren, Audience, MemoryRows, ChildRows, InputType, Visibilities

LEMMA TypeStep ==
    ASSUME TypeOK, ImportsOK, TargetsOK, [Next]_vars
    PROVE  TypeOK'
<1> USE IdleTypes DEF tables, requests
<1>1. CASE \E w \in Workspaces : Claim(w)
    BY <1>1 DEF Claim, TypeOK
<1>2. CASE \E w \in Workspaces, p \in Policies : UpdatePolicy(w, p)
    BY <1>2 DEF UpdatePolicy, TypeOK
<1>3. CASE \E a \in Agents, g \in Gaps, v \in Visibilities : CreateGap(a, g, v)
    BY <1>3 DEF CreateGap, TypeOK, GapRows
<1>4. ASSUME NEW i \in Imports, ImportStep(i) PROVE TypeOK'
  <2>1. ASSUME NEW a \in Agents, NEW ids \in SUBSET Memories,
               NEW batch \in [ids -> Inputs], BeginImport(i, a, batch)
        PROVE  TypeOK'
    BY <2>1 DEF BeginImport, TypeOK, ImportStates, IdleImport
  <2>2. ASSUME NEW m \in Memories, StartItem(i, m) PROVE TypeOK'
    <3>1. importing[i].batch[m] \in Inputs
      BY <2>2 DEF StartItem, TypeOK, ImportStates, Batch
    <3>2. importing[i].batch[m].relations \in SUBSET Memories
      BY <3>1, InputsAssumption DEF InputType
    <3>3. importing'[i] \in ImportStates
      BY <2>2, <3>2 DEF StartItem, TypeOK, ImportStates
    <3> QED
      BY <2>2, <3>3 DEF StartItem, TypeOK
  <2>3. ASSUME NEW t \in Memories, CheckRelation(i, t) PROVE TypeOK'
    BY <2>3 DEF CheckRelation, TypeOK, ImportStates
  <2>4. CASE StageItem(i)
    <3>1. importing[i].item \in Memories
      BY <2>4 DEF StageItem, ImportsOK, Accepted, Batch
    <3>2. importing'[i] \in ImportStates
      BY <2>4, <3>1 DEF StageItem, TypeOK, ImportStates
    <3> QED
      BY <2>4, <3>2 DEF StageItem, TypeOK
  <2>5. CASE CommitImport(i)
    <3>1. importing[i].agent \in Agents /\ importing[i].auto \in BOOLEAN
      BY <2>5 DEF CommitImport, ImportsOK, TypeOK, ImportStates
    <3>2. ASSUME NEW m \in importing[i].staged
          PROVE  m \in Memories /\ importing[i].batch[m] \in Inputs
      BY <2>5 DEF CommitImport, Batch, TypeOK, ImportStates
    <3>3. memory' \in [Memories -> MemoryRows]
      BY <2>5, <3>1, <3>2, InsertedTypes DEF CommitImport, TypeOK
    <3>4. children' \subseteq ChildRows
      BY <2>5, <3>1, <3>2, InsertedTypes DEF CommitImport, TypeOK
    <3> QED
      BY <2>5, <3>3, <3>4 DEF CommitImport, TypeOK
  <2>6. CASE DropImport(i)
    BY <2>6 DEF DropImport, TypeOK
  <2> QED
    BY <1>4, <2>1, <2>2, <2>3, <2>4, <2>5, <2>6 DEF ImportStep
<1>5. ASSUME NEW p \in Publications, PublishStep(p) PROVE TypeOK'
  <2>1. ASSUME NEW m \in Memories, BeginPublish(p, m) PROVE TypeOK'
    BY <2>1 DEF BeginPublish, TypeOK, PublishStates
  <2>2. CASE UpdatePublish(p)
    BY <2>2 DEF UpdatePublish, TypeOK, MemoryRows, Visibilities
  <2>3. CASE DropPublish(p)
    BY <2>3 DEF DropPublish, TypeOK
  <2> QED
    BY <1>5, <2>1, <2>2, <2>3 DEF PublishStep
<1>6. ASSUME NEW d \in Removals, RemoveStep(d) PROVE TypeOK'
  <2>1. ASSUME NEW m \in Memories, BeginRemove(d, m) PROVE TypeOK'
    BY <2>1 DEF BeginRemove, TypeOK, RemoveStates, FirstTable, Tables
  <2>2. CASE DeleteRows(d)
    <3>1. After[removing[d].pc] \in {"scrub"} \cup Tables
      BY <2>2 DEF DeleteRows, After, Tables
    <3>2. RowsOf(removing[d].pc, removing[d].target) \subseteq ChildRows
      BY DEF RowsOf, TypeOK
    <3>3. removing'[d] \in RemoveStates
      BY <2>2, <3>1, <3>2 DEF DeleteRows, TypeOK, RemoveStates
    <3> QED
      BY <2>2, <3>3 DEF DeleteRows, TypeOK
  <2>3. CASE ScrubRow(d)
    BY <2>3 DEF ScrubRow, TypeOK, RemoveStates
  <2>4. CASE CommitRemove(d)
    BY <2>4 DEF CommitRemove, TypeOK, MemoryRows
  <2>5. CASE DropRemove(d)
    BY <2>5 DEF DropRemove, TypeOK
  <2> QED
    BY <1>6, <2>1, <2>2, <2>3, <2>4, <2>5 DEF RemoveStep
<1>7. ASSUME NEW f \in Ratings, RateStep(f) PROVE TypeOK'
  <2>1. ASSUME NEW m \in Memories, BeginDeveloperRate(f, m) PROVE TypeOK'
    BY <2>1 DEF BeginDeveloperRate, TypeOK, RateStates
  <2>2. ASSUME NEW m \in Memories, NEW a \in Agents, BeginAgentRate(f, m, a) PROVE TypeOK'
    BY <2>2 DEF BeginAgentRate, TypeOK, RateStates
  <2>3. CASE CheckRate(f)
    BY <2>3 DEF CheckRate, TypeOK, RateStates
  <2>4. CASE InsertRate(f)
    <3>1. rating[f].target \in Memories /\ rating[f].source \in {"agent", "human"}
      BY <2>4 DEF InsertRate, TargetsOK, Exists, TypeOK, RateStates
    <3>2. FeedbackRow(rating[f].target, rating[f].source) \in ChildRows
      BY <3>1 DEF ChildRows
    <3> QED
      BY <2>4, <3>2 DEF InsertRate, TypeOK
  <2>5. CASE DropRate(f)
    BY <2>5 DEF DropRate, TypeOK
  <2> QED
    BY <1>7, <2>1, <2>2, <2>3, <2>4, <2>5 DEF RateStep
<1>8. ASSUME NEW r \in Reads, ReadStep(r) PROVE TypeOK'
  <2>1. ASSUME NEW p \in Callers, NEW m \in Memories, BeginRead(r, p, m) PROVE TypeOK'
    <3>1. p \in Principals
      BY DEF Callers, Principals, TypeOK
    <3> QED
      BY <2>1, <3>1 DEF BeginRead, TypeOK, ReadStates
  <2>2. CASE FetchSummary(r)
    <3>1. (EvidenceRow(reading[r].target) \in children) \in BOOLEAN
      OBVIOUS
    <3>2. reading'[r] \in ReadStates
      BY <2>2, <3>1 DEF FetchSummary, TypeOK, ReadStates
    <3> QED
      BY <2>2, <3>2 DEF FetchSummary, TypeOK
  <2>3. CASE FetchDetails(r)
    BY <2>3 DEF FetchDetails, TypeOK
  <2>4. CASE DropRead(r)
    BY <2>4 DEF DropRead, TypeOK
  <2> QED
    BY <1>8, <2>1, <2>2, <2>3, <2>4 DEF ReadStep
<1>9. CASE UNCHANGED vars
    BY <1>9 DEF vars, TypeOK
<1> QED
    BY <1>1, <1>2, <1>3, <1>4, <1>5, <1>6, <1>7, <1>8, <1>9 DEF Next

-----------------------------------------------------------------------------
(* Which steps write which variables.                                      *)

\* What of the tables `memories` and its children changes, changes in one of
\* these four steps.
Writes ==
    \/ UNCHANGED <<memory, children>>
    \/ \E i \in Imports : CommitImport(i)
    \/ \E p \in Publications : UpdatePublish(p)
    \/ \E d \in Removals : CommitRemove(d)
    \/ \E f \in Ratings : InsertRate(f)

\* Each kind of request moves by its own steps only, and a claim is never undone.
Moves ==
    /\ claimed \subseteq claimed'
    /\ importing' = importing \/ \E i \in Imports : ImportStep(i)
    /\ publishing' = publishing \/ \E p \in Publications : PublishStep(p)
    /\ removing' = removing \/ \E d \in Removals : RemoveStep(d)
    /\ rating' = rating \/ \E f \in Ratings : RateStep(f)
    /\ reading' = reading \/ \E r \in Reads : ReadStep(r)

LEMMA StepWrites == ASSUME [Next]_vars PROVE Writes
<1> USE DEF tables, requests
<1>1. ASSUME NEW i \in Imports, ImportStep(i) PROVE Writes
  BY <1>1 DEF ImportStep, BeginImport, StartItem, CheckRelation, StageItem, DropImport, Writes
<1>2. ASSUME NEW p \in Publications, PublishStep(p) PROVE Writes
  BY <1>2 DEF PublishStep, BeginPublish, DropPublish, Writes
<1>3. ASSUME NEW d \in Removals, RemoveStep(d) PROVE Writes
  BY <1>3 DEF RemoveStep, BeginRemove, DeleteRows, ScrubRow, DropRemove, Writes
<1>4. ASSUME NEW f \in Ratings, RateStep(f) PROVE Writes
  BY <1>4 DEF RateStep, BeginDeveloperRate, BeginAgentRate, CheckRate, DropRate, Writes
<1>5. ASSUME NEW r \in Reads, ReadStep(r) PROVE Writes
  BY <1>5 DEF ReadStep, BeginRead, FetchSummary, FetchDetails, DropRead, Writes
<1>6. CASE \E w \in Workspaces : Claim(w)
  BY <1>6 DEF Claim, Writes
<1>7. CASE \E w \in Workspaces, p \in Policies : UpdatePolicy(w, p)
  BY <1>7 DEF UpdatePolicy, Writes
<1>8. CASE \E a \in Agents, g \in Gaps, v \in Visibilities : CreateGap(a, g, v)
  BY <1>8 DEF CreateGap, Writes
<1>9. CASE UNCHANGED vars
  BY <1>9 DEF vars, Writes
<1> QED
  BY <1>1, <1>2, <1>3, <1>4, <1>5, <1>6, <1>7, <1>8, <1>9 DEF Next

LEMMA StepMoves == ASSUME [Next]_vars PROVE Moves
<1> USE DEF tables, requests
<1>1. ASSUME NEW i \in Imports, ImportStep(i) PROVE Moves
  BY <1>1 DEF ImportStep, BeginImport, StartItem, CheckRelation, StageItem, CommitImport,
              DropImport, Moves
<1>2. ASSUME NEW p \in Publications, PublishStep(p) PROVE Moves
  BY <1>2 DEF PublishStep, BeginPublish, UpdatePublish, DropPublish, Moves
<1>3. ASSUME NEW d \in Removals, RemoveStep(d) PROVE Moves
  BY <1>3 DEF RemoveStep, BeginRemove, DeleteRows, ScrubRow, CommitRemove, DropRemove, Moves
<1>4. ASSUME NEW f \in Ratings, RateStep(f) PROVE Moves
  BY <1>4 DEF RateStep, BeginDeveloperRate, BeginAgentRate, CheckRate, InsertRate, DropRate,
              Moves
<1>5. ASSUME NEW r \in Reads, ReadStep(r) PROVE Moves
  BY <1>5 DEF ReadStep, BeginRead, FetchSummary, FetchDetails, DropRead, Moves
<1>6. CASE \E w \in Workspaces : Claim(w)
  BY <1>6 DEF Claim, Moves
<1>7. CASE \E w \in Workspaces, p \in Policies : UpdatePolicy(w, p)
  BY <1>7 DEF UpdatePolicy, Moves
<1>8. CASE \E a \in Agents, g \in Gaps, v \in Visibilities : CreateGap(a, g, v)
  BY <1>8 DEF CreateGap, Moves
<1>9. CASE UNCHANGED vars
  BY <1>9 DEF vars, Moves
<1> QED
  BY <1>1, <1>2, <1>3, <1>4, <1>5, <1>6, <1>7, <1>8, <1>9 DEF Next

-----------------------------------------------------------------------------
(* What a step may do to a memory that exists: its audience widens, or it  *)
(* is removed.                                                             *)

Widens(m) ==
    /\ memory'[m].author = memory[m].author
    /\ memory'[m].state \in {memory[m].state, "removed"}
    /\ memory'[m].visibility \in {memory[m].visibility, "public"}

\* An import writes rows that did not exist, with an author, and nothing else.
LEMMA CommitImportRows ==
    ASSUME IInv, NEW i \in Imports, CommitImport(i)
    PROVE  /\ importing[i].agent \in Agents
           /\ \A m \in importing[i].staged :
                 /\ m \in Memories
                 /\ importing[i].batch[m] \in Inputs
                 /\ importing[i].batch[m].visibility # "public"
                 /\ memory[m].state = "absent"
                 /\ memory'[m] = InsertedRow(importing[i].agent, importing[i].auto,
                                             importing[i].batch[m])
           /\ \A m \in Memories \ importing[i].staged : memory'[m] = memory[m]
<1>1. importing[i].pc = "item" /\ importing[i].staged = Batch(i)
  BY DEF CommitImport
<1>2. importing[i] \in ImportStates
  BY DEF IInv, TypeOK
<1>3. importing[i].agent \in Agents
  BY <1>1 DEF IInv, ImportsOK
<1>4. ASSUME NEW m \in importing[i].staged
      PROVE  /\ m \in Memories
             /\ importing[i].batch[m] \in Inputs
             /\ importing[i].batch[m].visibility # "public"
             /\ memory[m].state = "absent"
  BY <1>1, <1>2 DEF IInv, ImportsOK, Accepted, Batch, ImportStates
<1> QED
  BY <1>3, <1>4 DEF CommitImport

LEMMA MemoryWidens ==
    ASSUME IInv, Writes, NEW m \in Memories, memory[m].state # "absent"
    PROVE  Widens(m)
<1>0. memory \in [Memories -> MemoryRows]
  BY DEF IInv, TypeOK
<1>1. CASE UNCHANGED <<memory, children>>
  BY <1>1 DEF Widens
<1>2. ASSUME NEW i \in Imports, CommitImport(i) PROVE Widens(m)
  BY <1>2, CommitImportRows DEF Widens
<1>3. ASSUME NEW p \in Publications, UpdatePublish(p) PROVE Widens(m)
  BY <1>0, <1>3 DEF UpdatePublish, Widens, MemoryRows
<1>4. ASSUME NEW d \in Removals, CommitRemove(d) PROVE Widens(m)
  BY <1>0, <1>4 DEF CommitRemove, Widens, MemoryRows
<1>5. ASSUME NEW f \in Ratings, InsertRate(f) PROVE Widens(m)
  BY <1>5 DEF InsertRate, Widens
<1> QED
  BY <1>1, <1>2, <1>3, <1>4, <1>5 DEF Writes

LEMMA StaysReadable ==
    ASSUME NEW m \in Memories, NEW p, StillReadable(m, p), memory[m].state # "absent", Widens(m)
    PROVE  StillReadable(m, p)'
BY DEF StillReadable, CanReadMemory, CanReadRowPrincipal, AgentReaches, AccessRow, Widens

LEMMA StaysOwned ==
    ASSUME NEW m \in Memories, OwnerMayManage(m), Widens(m), claimed \subseteq claimed'
    PROVE  OwnerMayManage(m)'
BY DEF OwnerMayManage, Widens

-----------------------------------------------------------------------------
(* The requests in flight.                                                 *)

\* Only an import turns an absent row into another.
LEMMA StaysAbsent ==
    ASSUME IInv, Writes, NEW m \in Memories, memory[m].state = "absent",
           \A i \in Imports : CommitImport(i) => m \notin importing[i].staged
    PROVE  memory'[m] = memory[m]
<1>1. ASSUME NEW i \in Imports, CommitImport(i) PROVE memory'[m] = memory[m]
  BY <1>1, CommitImportRows
<1>2. ASSUME NEW p \in Publications, UpdatePublish(p) PROVE memory'[m] = memory[m]
  <2>1. publishing[p].target # m
    BY <1>2 DEF UpdatePublish, IInv, TargetsOK, Exists
  <2> QED
    BY <1>2, <2>1 DEF UpdatePublish, IInv, TypeOK
<1>3. ASSUME NEW d \in Removals, CommitRemove(d) PROVE memory'[m] = memory[m]
  <2>1. removing[d].target # m
    BY <1>3 DEF CommitRemove, IInv, TargetsOK, Exists
  <2> QED
    BY <1>3, <2>1 DEF CommitRemove, IInv, TypeOK
<1> QED
  BY <1>1, <1>2, <1>3 DEF Writes, InsertRate

\* A row that exists goes on existing.
LEMMA StaysThere ==
    ASSUME IInv, Writes, NEW m, Exists(m)
    PROVE  Exists(m)'
<1>1. m \in Memories /\ memory[m].state # "absent"
  BY DEF Exists
<1>2. Widens(m)
  BY <1>1, MemoryWidens
<1> QED
  BY <1>1, <1>2 DEF Widens, Exists

LEMMA ImportsStep ==
    ASSUME IInv, [Next]_vars
    PROVE  ImportsOK'
<1>0. Writes /\ importing \in [Imports -> ImportStates] /\ memory \in [Memories -> MemoryRows]
  BY StepWrites DEF IInv, TypeOK
<1>. DEFINE OK(i) ==
        /\ importing[i].pc = "idle" => importing[i] = IdleImport
        /\ importing[i].pc # "idle" => importing[i].agent \in Agents
        /\ Accepted(i) \subseteq Batch(i)
        /\ \A m \in Accepted(i) : importing[i].batch[m].visibility # "public"
        /\ \A m \in Batch(i) : memory[m].state = "absent"
<1>1. \A i \in Imports : OK(i)
  BY DEF IInv, ImportsOK
<1>2. \A i, j \in Imports : i # j => Batch(i) \cap Batch(j) = {}
  BY DEF IInv, ImportsOK
<1>3. ASSUME NEW j \in Imports, importing'[j] = importing[j],
             \A i \in Imports : CommitImport(i) => i # j
      PROVE  OK(j)'
  <2>1. \A m \in Batch(j) : memory'[m] = memory[m]
    <3> SUFFICES ASSUME NEW m \in Batch(j) PROVE memory'[m] = memory[m]
      OBVIOUS
    <3>1. m \in Memories /\ memory[m].state = "absent"
      BY <1>1 DEF Batch
    <3>2. \A i \in Imports : CommitImport(i) => m \notin importing[i].staged
      BY <1>2, <1>3 DEF CommitImport
    <3> QED
      BY <1>0, <3>1, <3>2, StaysAbsent
  <2> QED
    BY <1>1, <1>3, <2>1 DEF Accepted, Batch
<1>4. CASE importing' = importing
  <2>1. \A i \in Imports : ~CommitImport(i)
    BY <1>0, <1>4 DEF CommitImport, IdleImport
  <2> QED
    BY <1>2, <1>3, <1>4, <2>1 DEF ImportsOK, Batch
<1>5. ASSUME NEW i \in Imports, ImportStep(i) PROVE ImportsOK'
  <2>1. \A j \in Imports \ {i} : importing'[j] = importing[j]
    BY <1>0, <1>5 DEF ImportStep, BeginImport, StartItem, CheckRelation, StageItem, CommitImport,
                      DropImport
  <2>2. \A j \in Imports \ {i} : ~CommitImport(j)
    BY <1>0, <2>1 DEF CommitImport, IdleImport
  <2>3. ASSUME NEW j \in Imports \ {i} PROVE OK(j)'
    BY <1>3, <2>1, <2>2
  <2>4. SUFFICES OK(i)' /\ \A j \in Imports \ {i} : Batch(i)' \cap Batch(j) = {}
    BY <1>2, <2>1, <2>3 DEF ImportsOK, Batch
  <2>5. ASSUME importing'[i].batch = importing[i].batch, UNCHANGED memory, OK(i)'
        PROVE  OK(i)' /\ \A j \in Imports \ {i} : Batch(i)' \cap Batch(j) = {}
    BY <1>2, <2>5 DEF Batch
  <2>6. ASSUME NEW a \in Agents, NEW ids \in SUBSET Memories,
               NEW batch \in [ids -> Inputs], BeginImport(i, a, batch)
        PROVE  OK(i)' /\ \A j \in Imports \ {i} : Batch(i)' \cap Batch(j) = {}
    <3>1. importing'[i] = [IdleImport EXCEPT
               !.pc = "item", !.agent = a,
               !.auto = WorkspaceOf[a] \in claimed /\ policy[WorkspaceOf[a]] = "auto",
               !.batch = [m \in Memories |-> IF m \in DOMAIN batch THEN batch[m] ELSE NoInput]]
      BY <1>0, <2>6 DEF BeginImport
    <3>2. Batch(i)' = ids
      BY <3>1, NoInputAssumption DEF Batch, IdleImport
    <3>3. Accepted(i)' = {}
      BY <3>1 DEF Accepted, IdleImport
    <3>4. \A m \in ids : Unused(m)
      BY <2>6 DEF BeginImport
    <3>5. \A m \in ids : memory'[m].state = "absent" /\ \A j \in Imports : m \notin Batch(j)
      BY <2>6, <3>4 DEF BeginImport, Unused, tables
    <3>6. importing'[i].pc = "item" /\ importing'[i].agent = a
      BY <3>1 DEF IdleImport
    <3>7. OK(i)'
      BY <3>2, <3>3, <3>5, <3>6
    <3> QED
      BY <3>2, <3>5, <3>7
  <2>7. ASSUME NEW m \in Memories, StartItem(i, m) PROVE OK(i)' /\ importing'[i].batch = importing[i].batch /\ UNCHANGED memory
    <3>1. /\ importing'[i].pc = "check"
          /\ importing'[i].item = m
          /\ importing'[i].staged = importing[i].staged
          /\ importing'[i].batch = importing[i].batch
          /\ importing'[i].agent = importing[i].agent
          /\ UNCHANGED memory
      BY <1>0, <2>7 DEF StartItem, ImportStates, tables
    <3>2. importing[i].pc = "item" /\ m \in Batch(i) /\ importing[i].batch[m].visibility # "public"
      BY <2>7 DEF StartItem
    <3>3. Batch(i)' = Batch(i) /\ Accepted(i)' = Accepted(i) \cup {m}
      BY <3>1, <3>2 DEF Batch, Accepted
    <3> QED
      BY <1>1, <3>1, <3>2, <3>3
  <2>8. ASSUME NEW t \in Memories, CheckRelation(i, t)
        PROVE  OK(i)' /\ importing'[i].batch = importing[i].batch /\ UNCHANGED memory
    <3>1. /\ importing[i].pc = "check"
          /\ importing'[i].pc = "check"
          /\ importing'[i].item = importing[i].item
          /\ importing'[i].staged = importing[i].staged
          /\ importing'[i].batch = importing[i].batch
          /\ importing'[i].agent = importing[i].agent
          /\ UNCHANGED memory
      BY <1>0, <2>8 DEF CheckRelation, ImportStates, tables
    <3>2. Batch(i)' = Batch(i) /\ Accepted(i)' = Accepted(i)
      BY <3>1 DEF Batch, Accepted
    <3> QED
      BY <1>1, <3>1, <3>2
  <2>9. ASSUME StageItem(i)
        PROVE  OK(i)' /\ importing'[i].batch = importing[i].batch /\ UNCHANGED memory
    <3>1. /\ importing[i].pc = "check"
          /\ importing'[i].pc = "item"
          /\ importing'[i].staged = importing[i].staged \cup {importing[i].item}
          /\ importing'[i].batch = importing[i].batch
          /\ importing'[i].agent = importing[i].agent
          /\ UNCHANGED memory
      BY <1>0, <2>9 DEF StageItem, ImportStates, tables
    <3>2. Batch(i)' = Batch(i) /\ Accepted(i)' = Accepted(i)
      BY <3>1 DEF Batch, Accepted
    <3> QED
      BY <1>1, <3>1, <3>2
  <2>10. CASE CommitImport(i) \/ DropImport(i)
    <3>1. importing'[i] = IdleImport
      BY <1>0, <2>10 DEF CommitImport, DropImport
    <3>2. Batch(i)' = {} /\ Accepted(i)' = {}
      BY <3>1 DEF Batch, Accepted, IdleImport
    <3> QED
      BY <3>1, <3>2 DEF IdleImport
  <2> QED
    BY <1>5, <2>5, <2>6, <2>7, <2>8, <2>9, <2>10 DEF ImportStep
<1> QED
  BY <1>4, <1>5, StepMoves DEF Moves

LEMMA TargetsStep ==
    ASSUME IInv, [Next]_vars
    PROVE  TargetsOK'
<1>0. Writes /\ Moves /\ TypeOK /\ TargetsOK
  BY StepWrites, StepMoves DEF IInv
<1>1. \A m : Exists(m) => Exists(m)'
  BY <1>0, StaysThere
<1>2. \A p \in Publications : publishing'[p].pc # "idle" => Exists(publishing[p].target)'
  <2>1. ASSUME NEW q \in Publications, PublishStep(q), NEW p \in Publications,
               publishing'[p].pc # "idle"
        PROVE  Exists(publishing[p].target)'
    <3>1. publishing'[p] = publishing[p] \/ \E m \in Memories : BeginPublish(p, m)
      BY <1>0, <2>1 DEF PublishStep, BeginPublish, UpdatePublish, DropPublish, IdlePublish, TypeOK
    <3>2. ASSUME NEW m \in Memories, BeginPublish(p, m) PROVE Exists(publishing[p].target)'
      BY <1>0, <3>2 DEF BeginPublish, OwnerMayManage, TypeOK, Exists, tables
    <3> QED
      BY <1>0, <1>1, <2>1, <3>1, <3>2 DEF TargetsOK
  <2> QED
    BY <1>0, <1>1, <2>1 DEF Moves, TargetsOK
<1>3. \A d \in Removals : removing'[d].pc # "idle" => Exists(removing[d].target)'
  <2>1. ASSUME NEW e \in Removals, RemoveStep(e), NEW d \in Removals, removing'[d].pc # "idle"
        PROVE  Exists(removing[d].target)'
    <3>1. \/ removing[d].pc # "idle" /\ removing'[d].target = removing[d].target
          \/ \E m \in Memories : BeginRemove(d, m)
      BY <1>0, <2>1 DEF RemoveStep, BeginRemove, DeleteRows, ScrubRow, CommitRemove, DropRemove,
                        IdleRemove, TypeOK, RemoveStates, Tables
    <3>2. ASSUME NEW m \in Memories, BeginRemove(d, m) PROVE Exists(removing[d].target)'
      BY <1>0, <3>2 DEF BeginRemove, OwnerMayManage, TypeOK, Exists, tables
    <3> QED
      BY <1>0, <1>1, <2>1, <3>1, <3>2 DEF TargetsOK
  <2> QED
    BY <1>0, <1>1, <2>1 DEF Moves, TargetsOK
<1>4. \A f \in Ratings :
          rating'[f].pc # "idle" =>
              /\ Exists(rating[f].target)'
              /\ rating'[f].pc = "check" => rating'[f].source = "agent"
              /\ rating'[f].source = "agent" => rating'[f].agent \in Agents
  <2>1. ASSUME NEW g \in Ratings, RateStep(g), NEW f \in Ratings, rating'[f].pc # "idle"
        PROVE  /\ Exists(rating[f].target)'
               /\ rating'[f].pc = "check" => rating'[f].source = "agent"
               /\ rating'[f].source = "agent" => rating'[f].agent \in Agents
    <3>1. \/ /\ rating[f].pc # "idle" /\ rating'[f].target = rating[f].target
             /\ rating'[f].pc = "check" => rating[f].pc = "check"
             /\ rating'[f].source = rating[f].source /\ rating'[f].agent = rating[f].agent
          \/ \E m \in Memories : BeginDeveloperRate(f, m)
          \/ \E m \in Memories, a \in Agents : BeginAgentRate(f, m, a)
      BY <1>0, <2>1 DEF RateStep, BeginDeveloperRate, BeginAgentRate, CheckRate, InsertRate,
                        DropRate, IdleRate, TypeOK, RateStates
    <3>2. ASSUME NEW m \in Memories, BeginDeveloperRate(f, m)
          PROVE  Exists(rating[f].target)' /\ rating'[f].source # "agent" /\ rating'[f].pc # "check"
      BY <1>0, <3>2 DEF BeginDeveloperRate, OwnerMayManage, TypeOK, Exists, tables
    <3>3. ASSUME NEW m \in Memories, NEW a \in Agents, BeginAgentRate(f, m, a)
          PROVE  Exists(rating[f].target)' /\ rating'[f].agent \in Agents /\ rating'[f].source = "agent"
      BY <1>0, <3>3 DEF BeginAgentRate, TypeOK, Exists, tables
    <3> QED
      BY <1>0, <1>1, <2>1, <3>1, <3>2, <3>3 DEF TargetsOK
  <2> QED
    BY <1>0, <1>1, <2>1 DEF Moves, TargetsOK
<1>5. \A r \in Reads : reading'[r].pc # "idle" => Exists(reading[r].target)'
  <2>1. ASSUME NEW q \in Reads, ReadStep(q), NEW r \in Reads, reading'[r].pc # "idle"
        PROVE  Exists(reading[r].target)'
    <3>1. \/ reading[r].pc # "idle" /\ reading'[r].target = reading[r].target
          \/ \E p \in Callers, m \in Memories : BeginRead(r, p, m)
      BY <1>0, <2>1 DEF ReadStep, BeginRead, FetchSummary, FetchDetails, DropRead, IdleRead,
                        TypeOK, ReadStates
    <3>2. ASSUME NEW p \in Callers, NEW m \in Memories, BeginRead(r, p, m)
          PROVE  Exists(reading[r].target)'
      BY <1>0, <3>2 DEF BeginRead, CanReadMemory, TypeOK, Exists, tables
    <3> QED
      BY <1>0, <1>1, <2>1, <3>1, <3>2 DEF TargetsOK
  <2> QED
    BY <1>0, <1>1, <2>1 DEF Moves, TargetsOK
<1> QED
  BY <1>2, <1>3, <1>4, <1>5 DEF TargetsOK

-----------------------------------------------------------------------------
(* The rows.                                                               *)

\* Only the import that writes a memory inserts its evidence, its relations and
\* its gap links.
LEMMA OwnRowsShrink ==
    ASSUME IInv, Writes, NEW m \in Memories,
           \A i \in Imports : CommitImport(i) => m \notin importing[i].staged
    PROVE  OwnRows(m)' \subseteq OwnRows(m)
<1>1. CASE UNCHANGED <<memory, children>>
  BY <1>1 DEF OwnRows
<1>2. ASSUME NEW i \in Imports, CommitImport(i) PROVE OwnRows(m)' \subseteq OwnRows(m)
  <2>1. ASSUME NEW n \in importing[i].staged, NEW c \in InsertedChildren(n, importing[i].batch[n])
        PROVE  c.memory = n
    BY <2>1 DEF InsertedChildren, EvidenceRow, RelationRow, LinkRow
  <2>2. ASSUME NEW c \in children', c \notin children
        PROVE  \E n \in importing[i].staged : c \in InsertedChildren(n, importing[i].batch[n])
    BY <1>2, <2>2 DEF CommitImport
  <2> QED
    BY <1>2, <2>1, <2>2 DEF OwnRows
<1>3. ASSUME NEW p \in Publications, UpdatePublish(p) PROVE OwnRows(m)' \subseteq OwnRows(m)
  BY <1>3 DEF UpdatePublish, OwnRows
<1>4. ASSUME NEW d \in Removals, CommitRemove(d) PROVE OwnRows(m)' \subseteq OwnRows(m)
  BY <1>4 DEF CommitRemove, OwnRows
<1>5. ASSUME NEW f \in Ratings, InsertRate(f) PROVE OwnRows(m)' \subseteq OwnRows(m)
  BY <1>5 DEF InsertRate, OwnRows, FeedbackRow
<1> QED
  BY <1>1, <1>2, <1>3, <1>4, <1>5 DEF Writes

LEMMA RowsStep ==
    ASSUME IInv, Writes
    PROVE  RowsOK'
<1> SUFFICES ASSUME NEW m \in Memories
             PROVE  /\ memory'[m].state # "absent" => memory'[m].author \in Agents
                    /\ memory'[m].state = "absent" =>
                          memory'[m] = NoMemoryRow /\ OwnRows(m)' = {}
  BY DEF RowsOK
<1>1. CASE memory[m].state # "absent"
  BY <1>1, MemoryWidens DEF Widens, IInv, RowsOK
<1>2. ASSUME NEW i \in Imports, CommitImport(i), m \in importing[i].staged
      PROVE  memory'[m].state = "live" /\ memory'[m].author \in Agents
  <2>1. memory'[m] = InsertedRow(importing[i].agent, importing[i].auto, importing[i].batch[m])
    BY <1>2, CommitImportRows
  <2>2. importing[i].agent \in Agents
    BY <1>2, CommitImportRows
  <2> QED
    BY <2>1, <2>2 DEF InsertedRow
<1>3. CASE /\ memory[m].state = "absent"
           /\ \A i \in Imports : CommitImport(i) => m \notin importing[i].staged
  BY <1>3, StaysAbsent, OwnRowsShrink DEF IInv, RowsOK
<1> QED
  BY <1>1, <1>2, <1>3

\* Once it is removed, a memory keeps none of the rows its writer inserted.
LEMMA StrippedStep ==
    ASSUME IInv, Writes
    PROVE  RemovedIsStripped'
<1> SUFFICES ASSUME NEW m \in Memories, memory'[m].state = "removed"
             PROVE  OwnRows(m)' = {}
  BY DEF RemovedIsStripped
<1>1. \A i \in Imports : CommitImport(i) => m \notin importing[i].staged
  <2> SUFFICES ASSUME NEW i \in Imports, CommitImport(i), m \in importing[i].staged PROVE FALSE
    OBVIOUS
  <2>1. memory'[m] = InsertedRow(importing[i].agent, importing[i].auto, importing[i].batch[m])
    BY CommitImportRows
  <2> QED
    BY <2>1 DEF InsertedRow
<1>2. OwnRows(m)' \subseteq OwnRows(m)
  BY <1>1, OwnRowsShrink
<1>3. CASE memory[m].state = "removed"
  BY <1>2, <1>3 DEF IInv, RemovedIsStripped
<1>4. CASE memory[m].state # "removed"
  <2>1. PICK d \in Removals : CommitRemove(d) /\ removing[d].target = m
    <3>1. ~UNCHANGED <<memory, children>>
      BY <1>4
    <3>2. ASSUME NEW i \in Imports, CommitImport(i) PROVE FALSE
      BY <1>1, <1>4, <3>2, CommitImportRows
    <3>3. ASSUME NEW p \in Publications, UpdatePublish(p) PROVE FALSE
      BY <1>4, <3>3 DEF UpdatePublish, IInv, TypeOK, MemoryRows
    <3>4. ASSUME NEW f \in Ratings, InsertRate(f) PROVE FALSE
      BY <1>4, <3>4 DEF InsertRate
    <3>5. ASSUME NEW d \in Removals, CommitRemove(d) PROVE removing[d].target = m
      BY <1>4, <3>5 DEF CommitRemove, IInv, TypeOK, MemoryRows
    <3> QED
      BY <3>1, <3>2, <3>3, <3>4, <3>5 DEF Writes
  <2>2. \A c \in OwnRows(m) : c.table \in Tables
    BY DEF OwnRows, IInv, TypeOK, ChildRows, EvidenceRow, FeedbackRow, RelationRow, LinkRow, Tables
  <2>3. OwnRows(m) \subseteq removing[d].cut
    BY <2>1, <2>2 DEF CommitRemove, IInv, RemovalsOK, Emptied
  <2> QED
    BY <1>2, <2>1, <2>3 DEF CommitRemove, OwnRows
<1> QED
  BY <1>3, <1>4

\* A memory becomes public in an import that saw the policy "auto", or by its owner.
LEMMA PublicStep ==
    ASSUME IInv, Writes, claimed \subseteq claimed'
    PROVE  PublicHasOwner'
<1> SUFFICES ASSUME NEW m \in Memories, memory'[m].visibility = "public"
             PROVE  WorkspaceOf[memory'[m].author] \in claimed
  BY DEF PublicHasOwner
<1>1. CASE UNCHANGED <<memory, children>>
  BY <1>1 DEF IInv, PublicHasOwner
<1>2. ASSUME NEW i \in Imports, CommitImport(i) PROVE WorkspaceOf[memory'[m].author] \in claimed
  <2>1. CASE m \in importing[i].staged
    BY <1>2, <2>1, CommitImportRows
       DEF InsertedRow, Audience, IInv, ChecksHold, CommitImport
  <2>2. CASE m \notin importing[i].staged
    BY <1>2, <2>2, CommitImportRows DEF IInv, PublicHasOwner
  <2> QED
    BY <2>1, <2>2
<1>3. ASSUME NEW p \in Publications, UpdatePublish(p)
      PROVE  WorkspaceOf[memory'[m].author] \in claimed
  <2>1. OwnerMayManage(publishing[p].target)
    BY <1>3 DEF UpdatePublish, IInv, ChecksHold
  <2> QED
    BY <1>3, <2>1 DEF UpdatePublish, OwnerMayManage, IInv, PublicHasOwner, TypeOK, MemoryRows
<1>4. ASSUME NEW d \in Removals, CommitRemove(d) PROVE WorkspaceOf[memory'[m].author] \in claimed
  BY <1>4 DEF CommitRemove, IInv, PublicHasOwner, TypeOK, MemoryRows
<1>5. ASSUME NEW f \in Ratings, InsertRate(f) PROVE WorkspaceOf[memory'[m].author] \in claimed
  BY <1>5 DEF InsertRate, IInv, PublicHasOwner
<1> QED
  BY <1>1, <1>2, <1>3, <1>4, <1>5 DEF Writes

\* A request for the public that the policy does not grant is kept as a request.
LEMMA InsertedPending ==
    ASSUME NEW a, NEW auto \in BOOLEAN, NEW input \in Inputs,
           InsertedRow(a, auto, input).requested
    PROVE  InsertedRow(a, auto, input).visibility = "developer_shared"
<1>1. input.request_public \in BOOLEAN
  BY InputsAssumption DEF InputType
<1>2. CASE input.request_public = TRUE /\ auto = FALSE
  BY <1>2 DEF InsertedRow, Audience
<1>3. CASE input.request_public = FALSE
  BY <1>3 DEF InsertedRow
<1>4. CASE auto = TRUE
  BY <1>4 DEF InsertedRow
<1> QED
  BY <1>1, <1>2, <1>3, <1>4

LEMMA PendingStep ==
    ASSUME IInv, Writes
    PROVE  PendingIsShared'
<1> SUFFICES ASSUME NEW m \in Memories, memory'[m].requested
             PROVE  memory'[m].visibility = "developer_shared"
  BY DEF PendingIsShared
<1>1. CASE UNCHANGED <<memory, children>>
  BY <1>1 DEF IInv, PendingIsShared
<1>2. ASSUME NEW i \in Imports, CommitImport(i) PROVE memory'[m].visibility = "developer_shared"
  <2>1. CASE m \in importing[i].staged
    <3>1. memory'[m] = InsertedRow(importing[i].agent, importing[i].auto, importing[i].batch[m])
      BY <1>2, <2>1, CommitImportRows
    <3>2. importing[i].batch[m] \in Inputs /\ importing[i].auto \in BOOLEAN
      BY <1>2, <2>1, CommitImportRows DEF IInv, TypeOK, ImportStates
    <3> QED
      BY <3>1, <3>2, InsertedPending
  <2>2. CASE m \notin importing[i].staged
    <3>1. memory'[m] = memory[m]
      BY <1>2, <2>2, CommitImportRows
    <3> QED
      BY <3>1 DEF IInv, PendingIsShared
  <2> QED
    BY <2>1, <2>2
<1>3. ASSUME NEW p \in Publications, UpdatePublish(p)
      PROVE  memory'[m].visibility = "developer_shared"
  BY <1>3 DEF UpdatePublish, IInv, PendingIsShared, TypeOK, MemoryRows
<1>4. ASSUME NEW d \in Removals, CommitRemove(d) PROVE memory'[m].visibility = "developer_shared"
  BY <1>4 DEF CommitRemove, IInv, PendingIsShared, TypeOK, MemoryRows
<1>5. ASSUME NEW f \in Ratings, InsertRate(f) PROVE memory'[m].visibility = "developer_shared"
  BY <1>5 DEF InsertRate, IInv, PendingIsShared
<1> QED
  BY <1>1, <1>2, <1>3, <1>4, <1>5 DEF Writes

-----------------------------------------------------------------------------
(* What a removal has deleted so far.                                      *)

LEMMA RemovalsStep ==
    ASSUME IInv, [Next]_vars
    PROVE  RemovalsOK'
<1>0. Writes /\ Moves /\ TypeOK /\ TargetsOK /\ RemovalsOK /\ removing \in [Removals -> RemoveStates]
  BY StepWrites, StepMoves DEF IInv, TypeOK
<1> DEFINE OK(d) ==
        /\ \A c \in removing[d].cut : Refers(c, removing[d].target)
        /\ \A c \in OwnRows(removing[d].target) :
              c.table \in Emptied(removing[d].pc) => c \in removing[d].cut
<1>1. ASSUME NEW m, Exists(m)
      PROVE  OwnRows(m)' \subseteq OwnRows(m)
  <2>1. ASSUME NEW i \in Imports, CommitImport(i) PROVE m \notin importing[i].staged
    BY <1>1, <2>1, CommitImportRows DEF Exists
  <2> QED
    BY <1>0, <1>1, <2>1, OwnRowsShrink DEF Exists
<1>2. ASSUME NEW d \in Removals, removing'[d] = removing[d]
      PROVE  OK(d)'
  <2>1. CASE removing[d].pc = "idle"
    BY <1>0, <1>2, <2>1 DEF RemovalsOK, Emptied, Refers
  <2>2. CASE removing[d].pc # "idle"
    <3>1. OwnRows(removing[d].target)' \subseteq OwnRows(removing[d].target)
      <4>1. Exists(removing[d].target)
        BY <1>0, <2>2 DEF TargetsOK
      <4>2. OwnRows(removing[d].target)' = {c \in children' : c.memory = removing[d].target
                                                 /\ c.table # "memory_feedback"}
        BY <1>2 DEF OwnRows
      <4> QED
        BY <1>1, <4>1, <4>2 DEF OwnRows
    <3> QED
      BY <1>0, <1>2, <3>1 DEF RemovalsOK, Refers
  <2> QED
    BY <2>1, <2>2
<1>3. ASSUME NEW e \in Removals, RemoveStep(e), NEW d \in Removals
      PROVE  OK(d)'
  <2>1. CASE d # e
    <3>1. removing'[d] = removing[d]
      BY <1>0, <1>3, <2>1 DEF RemoveStep, BeginRemove, DeleteRows, ScrubRow, CommitRemove, DropRemove
    <3> QED
      BY <1>2, <3>1
  <2>2. ASSUME NEW m \in Memories, BeginRemove(d, m) PROVE OK(d)'
    <3>1. removing'[d] = [pc |-> "memory_evidence", target |-> m, cut |-> {}]
      BY <1>0, <2>2 DEF BeginRemove, FirstTable
    <3> QED
      BY <3>1 DEF Emptied
  <2>3. CASE DeleteRows(d)
    <3>1. /\ removing[d].pc \in Tables
          /\ removing'[d].pc = After[removing[d].pc]
          /\ removing'[d].target = removing[d].target
          /\ removing'[d].cut = removing[d].cut \cup RowsOf(removing[d].pc, removing[d].target)
          /\ children' = children
      BY <1>0, <2>3 DEF DeleteRows, RemoveStates, tables
    <3>2. Emptied(removing'[d].pc) = Emptied(removing[d].pc) \cup {removing[d].pc}
      BY <3>1 DEF Emptied, After, Tables
    <3>3. \A c \in RowsOf(removing[d].pc, removing[d].target) : Refers(c, removing[d].target)
      BY DEF RowsOf
    <3>4. OwnRows(removing[d].target)' = OwnRows(removing[d].target)
      BY <3>1 DEF OwnRows
    <3>5. \A c \in OwnRows(removing[d].target) :
              c.table = removing[d].pc => c \in RowsOf(removing[d].pc, removing[d].target)
      BY DEF OwnRows, RowsOf, Refers
    <3> QED
      BY <1>0, <3>1, <3>2, <3>3, <3>4, <3>5 DEF RemovalsOK, Refers
  <2>4. CASE ScrubRow(d)
    <3>1. /\ removing[d].pc = "scrub"
          /\ removing'[d].pc = "commit"
          /\ removing'[d].target = removing[d].target
          /\ removing'[d].cut = removing[d].cut
          /\ children' = children
      BY <1>0, <2>4 DEF ScrubRow, RemoveStates, tables
    <3>2. Emptied(removing'[d].pc) = Emptied(removing[d].pc)
      BY <3>1 DEF Emptied
    <3>3. OwnRows(removing[d].target)' = OwnRows(removing[d].target)
      BY <3>1 DEF OwnRows
    <3> QED
      BY <1>0, <3>1, <3>2, <3>3 DEF RemovalsOK, Refers
  <2>5. CASE CommitRemove(d) \/ DropRemove(d)
    <3>1. removing'[d] = IdleRemove
      BY <1>0, <2>5 DEF CommitRemove, DropRemove
    <3> QED
      BY <3>1 DEF IdleRemove, Emptied
  <2> QED
    BY <1>3, <2>1, <2>2, <2>3, <2>4, <2>5 DEF RemoveStep
<1>4. CASE removing' = removing
  BY <1>2, <1>4 DEF RemovalsOK
<1> QED
  BY <1>0, <1>3, <1>4 DEF Moves, RemovalsOK

-----------------------------------------------------------------------------
(* What a handler has checked.                                             *)

LEMMA ReadableThroughout ==
    ASSUME IInv, Writes, NEW m \in Memories, NEW p, StillReadable(m, p)
    PROVE  StillReadable(m, p)'
<1>1. memory[m].state # "absent"
  BY DEF StillReadable, CanReadMemory
<1> QED
  BY <1>1, MemoryWidens, StaysReadable

LEMMA OwnedThroughout ==
    ASSUME IInv, Writes, claimed \subseteq claimed', NEW m \in Memories, OwnerMayManage(m)
    PROVE  OwnerMayManage(m)'
<1>1. memory[m].state # "absent"
  BY DEF OwnerMayManage
<1> QED
  BY <1>1, MemoryWidens, StaysOwned

LEMMA ImportChecksStep ==
    ASSUME IInv, [Next]_vars, NEW i \in Imports, importing'[i].pc # "idle"
    PROVE  /\ importing'[i].auto => WorkspaceOf[importing'[i].agent] \in claimed'
           /\ \A t \in Checked(i)' :
                 StillReadable(t, AgentPrincipal(importing[i].agent))'
<1>0. Writes /\ Moves /\ importing \in [Imports -> ImportStates]
  BY StepWrites, StepMoves DEF IInv, TypeOK
<1>1. ASSUME importing[i].pc # "idle",
             importing'[i].agent = importing[i].agent,
             importing'[i].auto = importing[i].auto,
             Checked(i)' \subseteq Checked(i)
      PROVE  /\ importing'[i].auto => WorkspaceOf[importing'[i].agent] \in claimed'
             /\ \A t \in Checked(i)' :
                   StillReadable(t, AgentPrincipal(importing[i].agent))'
  <2>1. ASSUME NEW t \in Checked(i)
        PROVE  StillReadable(t, AgentPrincipal(importing[i].agent))'
    <3>1. t \in Memories
      BY <2>1 DEF Checked
    <3>2. StillReadable(t, AgentPrincipal(importing[i].agent))
      BY <1>1, <2>1 DEF IInv, ChecksHold
    <3>3. ASSUME NEW p, p = AgentPrincipal(importing[i].agent)
          PROVE  StillReadable(t, p)'
      BY <1>0, <3>1, <3>2, <3>3, ReadableThroughout
    <3>4. AgentPrincipal(importing[i].agent)' = AgentPrincipal(importing[i].agent)
      BY <1>1 DEF AgentPrincipal
    <3> QED
      BY <3>3, <3>4 DEF StillReadable, CanReadMemory
  <2> QED
    BY <1>0, <1>1, <2>1 DEF IInv, ChecksHold, Moves
<1>2. CASE importing'[i] = importing[i]
  <2>1. Checked(i)' = Checked(i)
    BY <1>2 DEF Checked
  <2> QED
    BY <1>1, <1>2, <2>1
<1>3. ASSUME NEW j \in Imports, ImportStep(j), importing'[i] # importing[i]
      PROVE  /\ importing'[i].auto => WorkspaceOf[importing'[i].agent] \in claimed'
             /\ \A t \in Checked(i)' :
                   StillReadable(t, AgentPrincipal(importing[i].agent))'
  <2>1. i = j
    BY <1>0, <1>3 DEF ImportStep, BeginImport, StartItem, CheckRelation, StageItem, CommitImport,
                      DropImport
  <2>2. ASSUME NEW a \in Agents, NEW ids \in SUBSET Memories,
               NEW batch \in [ids -> Inputs], BeginImport(i, a, batch)
        PROVE  /\ importing'[i].auto => WorkspaceOf[importing'[i].agent] \in claimed'
               /\ Checked(i)' = {}
    <3>1. importing'[i] = [IdleImport EXCEPT
               !.pc = "item", !.agent = a,
               !.auto = WorkspaceOf[a] \in claimed /\ policy[WorkspaceOf[a]] = "auto",
               !.batch = [m \in Memories |-> IF m \in DOMAIN batch THEN batch[m] ELSE NoInput]]
      BY <1>0, <2>2 DEF BeginImport
    <3>2. Checked(i)' = {}
      BY <3>1 DEF Checked, IdleImport
    <3>3. claimed' = claimed
      BY <2>2 DEF BeginImport, tables
    <3>4. importing'[i].agent = a
      BY <3>1 DEF IdleImport
    <3>5. importing'[i].auto = (WorkspaceOf[a] \in claimed /\ policy[WorkspaceOf[a]] = "auto")
      BY <3>1 DEF IdleImport
    <3>6. importing'[i].auto => WorkspaceOf[a] \in claimed
      BY <3>5, Zenon
    <3> QED
      BY <3>2, <3>3, <3>4, <3>6
  <2>3. ASSUME NEW m \in Memories, StartItem(i, m)
        PROVE  /\ importing[i].pc # "idle"
               /\ importing'[i].agent = importing[i].agent
               /\ importing'[i].auto = importing[i].auto
               /\ Checked(i)' \subseteq Checked(i)
    <3>1. /\ importing[i].pc = "item"
          /\ importing'[i].pc = "check"
          /\ importing'[i].agent = importing[i].agent
          /\ importing'[i].auto = importing[i].auto
          /\ importing'[i].item = m
          /\ importing'[i].unchecked = importing[i].batch[m].relations
          /\ importing'[i].staged = importing[i].staged
          /\ importing'[i].batch = importing[i].batch
      BY <1>0, <2>3 DEF StartItem, ImportStates
    <3> QED
      BY <3>1 DEF Checked
  <2>4. ASSUME NEW t \in Memories, CheckRelation(i, t)
        PROVE  /\ importing'[i].auto => WorkspaceOf[importing'[i].agent] \in claimed'
               /\ \A u \in Checked(i)' :
                     StillReadable(u, AgentPrincipal(importing[i].agent))'
    <3>1. /\ importing[i].pc = "check"
          /\ importing'[i].pc = "check"
          /\ importing'[i].agent = importing[i].agent
          /\ importing'[i].auto = importing[i].auto
          /\ importing'[i].item = importing[i].item
          /\ importing'[i].unchecked = importing[i].unchecked \ {t}
          /\ importing'[i].staged = importing[i].staged
          /\ importing'[i].batch = importing[i].batch
          /\ claimed' = claimed
          /\ memory' = memory
          /\ CanReadMemory(t, AgentPrincipal(importing[i].agent))
      BY <1>0, <2>4 DEF CheckRelation, ImportStates, tables
    <3>2. Checked(i)' \subseteq Checked(i) \cup {t}
      BY <3>1 DEF Checked
    <3>3. \A u \in Checked(i) \cup {t} : StillReadable(u, AgentPrincipal(importing[i].agent))
      BY <3>1 DEF IInv, ChecksHold, StillReadable
    <3>4. \A u \in Checked(i) \cup {t} : StillReadable(u, AgentPrincipal(importing[i].agent))'
      BY <3>1, <3>3 DEF StillReadable, CanReadMemory, AgentPrincipal
    <3> QED
      BY <3>1, <3>2, <3>4 DEF IInv, ChecksHold
  <2>5. ASSUME StageItem(i)
        PROVE  /\ importing[i].pc # "idle"
               /\ importing'[i].agent = importing[i].agent
               /\ importing'[i].auto = importing[i].auto
               /\ Checked(i)' \subseteq Checked(i)
    <3>1. /\ importing[i].pc = "check"
          /\ importing[i].unchecked = {}
          /\ importing'[i].pc = "item"
          /\ importing'[i].agent = importing[i].agent
          /\ importing'[i].auto = importing[i].auto
          /\ importing'[i].staged = importing[i].staged \cup {importing[i].item}
          /\ importing'[i].batch = importing[i].batch
      BY <1>0, <2>5 DEF StageItem, ImportStates
    <3> QED
      BY <3>1 DEF Checked
  <2>6. ~CommitImport(i) /\ ~DropImport(i)
    BY <1>0 DEF CommitImport, DropImport, IdleImport
  <2> QED
    BY <1>1, <1>3, <2>1, <2>2, <2>3, <2>4, <2>5, <2>6 DEF ImportStep
<1> QED
  BY <1>0, <1>2, <1>3 DEF Moves

LEMMA ChecksStep ==
    ASSUME IInv, [Next]_vars
    PROVE  ChecksHold'
<1>0. /\ Writes /\ Moves /\ TypeOK /\ TargetsOK /\ ChecksHold
      /\ claimed \subseteq claimed'
  BY StepWrites, StepMoves DEF IInv, Moves
<1>1. \A m \in Memories : OwnerMayManage(m) => OwnerMayManage(m)'
  BY <1>0, OwnedThroughout
<1>2. ASSUME NEW m \in Memories, NEW p, StillReadable(m, p) PROVE StillReadable(m, p)'
  BY <1>0, <1>2, ReadableThroughout
<1>3. \A p \in Publications : publishing'[p].pc # "idle" => OwnerMayManage(publishing[p].target)'
  <2>1. ASSUME NEW q \in Publications, PublishStep(q), NEW p \in Publications,
               publishing'[p].pc # "idle"
        PROVE  OwnerMayManage(publishing[p].target)'
    <3>1. publishing'[p] = publishing[p] \/ \E m \in Memories : BeginPublish(p, m)
      BY <1>0, <2>1 DEF PublishStep, BeginPublish, UpdatePublish, DropPublish, IdlePublish, TypeOK
    <3>2. ASSUME NEW m \in Memories, BeginPublish(p, m)
          PROVE  OwnerMayManage(publishing[p].target)'
      BY <1>0, <3>2 DEF BeginPublish, OwnerMayManage, TypeOK, tables
    <3>3. CASE publishing'[p] = publishing[p]
      <4>1. publishing[p].target \in Memories /\ OwnerMayManage(publishing[p].target)
        BY <1>0, <2>1, <3>3 DEF TargetsOK, ChecksHold, Exists
      <4> QED
        BY <1>1, <3>3, <4>1 DEF OwnerMayManage
    <3> QED
      BY <3>1, <3>2, <3>3
  <2>2. ASSUME publishing' = publishing, NEW p \in Publications, publishing'[p].pc # "idle"
        PROVE  OwnerMayManage(publishing[p].target)'
    <3>1. publishing[p].target \in Memories /\ OwnerMayManage(publishing[p].target)
      BY <1>0, <2>2 DEF TargetsOK, ChecksHold, Exists
    <3> QED
      BY <1>1, <2>2, <3>1 DEF OwnerMayManage
  <2> QED
    BY <1>0, <2>1, <2>2 DEF Moves
<1>4. \A d \in Removals : removing'[d].pc # "idle" => OwnerMayManage(removing[d].target)'
  <2>1. ASSUME NEW d \in Removals, removing[d].pc # "idle", removing'[d].target = removing[d].target
        PROVE  OwnerMayManage(removing[d].target)'
    <3>1. removing[d].target \in Memories /\ OwnerMayManage(removing[d].target)
      BY <1>0, <2>1 DEF TargetsOK, ChecksHold, Exists
    <3> QED
      BY <1>1, <2>1, <3>1 DEF OwnerMayManage
  <2>2. ASSUME NEW e \in Removals, RemoveStep(e), NEW d \in Removals, removing'[d].pc # "idle"
        PROVE  OwnerMayManage(removing[d].target)'
    <3>1. \/ removing[d].pc # "idle" /\ removing'[d].target = removing[d].target
          \/ \E m \in Memories : BeginRemove(d, m)
      BY <1>0, <2>2 DEF RemoveStep, BeginRemove, DeleteRows, ScrubRow, CommitRemove, DropRemove,
                        IdleRemove, TypeOK, RemoveStates, Tables
    <3>2. ASSUME NEW m \in Memories, BeginRemove(d, m) PROVE OwnerMayManage(removing[d].target)'
      BY <1>0, <3>2 DEF BeginRemove, OwnerMayManage, TypeOK, tables
    <3> QED
      BY <2>1, <3>1, <3>2
  <2> QED
    BY <1>0, <2>1, <2>2 DEF Moves
<1>5. \A f \in Ratings :
          rating'[f].pc = "insert" =>
              IF rating'[f].source = "human" THEN OwnerMayManage(rating[f].target)'
              ELSE StillReadable(rating[f].target, AgentPrincipal(rating[f].agent))'
  <2>1. ASSUME NEW f \in Ratings, rating[f].pc = "insert", rating'[f] = rating[f]
        PROVE  IF rating'[f].source = "human" THEN OwnerMayManage(rating[f].target)'
               ELSE StillReadable(rating[f].target, AgentPrincipal(rating[f].agent))'
    <3>1. rating[f].target \in Memories
      BY <1>0, <2>1 DEF TargetsOK, Exists
    <3>2. CASE rating[f].source = "human"
      BY <1>0, <1>1, <2>1, <3>1, <3>2 DEF ChecksHold, OwnerMayManage
    <3>3. CASE rating[f].source # "human"
      <4>1. StillReadable(rating[f].target, AgentPrincipal(rating[f].agent))
        BY <1>0, <2>1, <3>3 DEF ChecksHold
      <4>2. ASSUME NEW m, NEW p, m = rating[f].target, p = AgentPrincipal(rating[f].agent)
            PROVE  StillReadable(m, p)'
        BY <1>2, <3>1, <4>1, <4>2
      <4>3. AgentPrincipal(rating[f].agent)' = AgentPrincipal(rating[f].agent)
        BY <2>1 DEF AgentPrincipal
      <4> QED
        BY <2>1, <3>3, <4>2, <4>3 DEF StillReadable, CanReadMemory
    <3> QED
      BY <3>2, <3>3
  <2>2. ASSUME NEW g \in Ratings, RateStep(g), NEW f \in Ratings, rating'[f].pc = "insert"
        PROVE  IF rating'[f].source = "human" THEN OwnerMayManage(rating[f].target)'
               ELSE StillReadable(rating[f].target, AgentPrincipal(rating[f].agent))'
    <3>1. \/ rating'[f] = rating[f]
          \/ \E m \in Memories : BeginDeveloperRate(f, m)
          \/ CheckRate(f)
      BY <1>0, <2>2 DEF RateStep, BeginDeveloperRate, BeginAgentRate, CheckRate, InsertRate,
                        DropRate, IdleRate, TypeOK, RateStates
    <3>2. ASSUME NEW m \in Memories, BeginDeveloperRate(f, m)
          PROVE  rating'[f].source = "human" /\ OwnerMayManage(rating[f].target)'
      BY <1>0, <3>2 DEF BeginDeveloperRate, OwnerMayManage, TypeOK, tables
    <3>3. ASSUME CheckRate(f)
          PROVE  /\ rating'[f].source = "human" => OwnerMayManage(rating[f].target)'
                 /\ StillReadable(rating[f].target, AgentPrincipal(rating[f].agent))'
      <4>1. /\ CanReadMemory(rating[f].target, AgentPrincipal(rating[f].agent))
            /\ rating'[f].target = rating[f].target
            /\ rating'[f].agent = rating[f].agent
            /\ rating'[f].source = rating[f].source
            /\ rating[f].pc = "check"
            /\ memory' = memory
        BY <1>0, <3>3 DEF CheckRate, TypeOK, RateStates, tables
      <4>2. rating[f].source = "agent"
        BY <1>0, <4>1 DEF IInv, TargetsOK
      <4> QED
        BY <4>1, <4>2 DEF StillReadable, CanReadMemory, AgentPrincipal
    <3> QED
      BY <2>1, <2>2, <3>1, <3>2, <3>3
  <2> QED
    BY <1>0, <2>1, <2>2 DEF Moves
<1>6. \A r \in Reads :
          reading'[r].pc # "idle" => StillReadable(reading[r].target, reading[r].principal)'
  <2>1. ASSUME NEW r \in Reads, reading[r].pc # "idle",
               reading'[r].target = reading[r].target,
               reading'[r].principal = reading[r].principal
        PROVE  StillReadable(reading[r].target, reading[r].principal)'
    <3>1. reading[r].target \in Memories
      BY <1>0, <2>1 DEF TargetsOK, Exists
    <3>2. StillReadable(reading[r].target, reading[r].principal)
      BY <1>0, <2>1 DEF ChecksHold
    <3>3. ASSUME NEW m, NEW p, m = reading[r].target, p = reading[r].principal
          PROVE  StillReadable(m, p)'
      BY <1>2, <3>1, <3>2, <3>3
    <3> QED
      BY <2>1, <3>3 DEF StillReadable, CanReadMemory
  <2>2. ASSUME NEW q \in Reads, ReadStep(q), NEW r \in Reads, reading'[r].pc # "idle"
        PROVE  StillReadable(reading[r].target, reading[r].principal)'
    <3>1. \/ /\ reading[r].pc # "idle" /\ reading'[r].target = reading[r].target
             /\ reading'[r].principal = reading[r].principal
          \/ \E p \in Callers, m \in Memories : BeginRead(r, p, m)
      <4>1. CASE r # q
        BY <1>0, <2>2, <4>1 DEF ReadStep, BeginRead, FetchSummary, FetchDetails, DropRead, TypeOK
      <4>2. CASE FetchSummary(r)
        <5>1. (EvidenceRow(reading[r].target) \in children) \in BOOLEAN
          OBVIOUS
        <5> QED
          BY <1>0, <4>2, <5>1 DEF FetchSummary, TypeOK, ReadStates
      <4>3. CASE FetchDetails(r) \/ DropRead(r)
        BY <1>0, <2>2, <4>3 DEF FetchDetails, DropRead, IdleRead, TypeOK
      <4> QED
        BY <2>2, <4>1, <4>2, <4>3 DEF ReadStep
    <3>2. ASSUME NEW p \in Callers, NEW m \in Memories, BeginRead(r, p, m)
          PROVE  StillReadable(reading[r].target, reading[r].principal)'
      <4>1. reading'[r].target = m /\ reading'[r].principal = p /\ memory' = memory
            /\ CanReadMemory(m, p)
        BY <1>0, <3>2 DEF BeginRead, TypeOK, tables
      <4> QED
        BY <4>1 DEF StillReadable, CanReadMemory
    <3> QED
      BY <2>1, <3>1, <3>2
  <2> QED
    BY <1>0, <2>1, <2>2 DEF Moves
<1>7. \A i \in Imports :
          importing'[i].pc # "idle" =>
              /\ importing'[i].auto => WorkspaceOf[importing'[i].agent] \in claimed'
              /\ \A t \in Checked(i)' :
                    StillReadable(t, AgentPrincipal(importing[i].agent))'
  BY ImportChecksStep
<1> QED
  BY <1>3, <1>4, <1>5, <1>6, <1>7 DEF ChecksHold

-----------------------------------------------------------------------------
(* What a reader has counted.                                              *)

\* While a memory is live, its evidence is that of the import that wrote it.
LEMMA EvidenceStays ==
    ASSUME IInv, Writes, NEW m \in Memories, memory[m].state # "absent", memory'[m].state = "live"
    PROVE  EvidenceRow(m) \in children' <=> EvidenceRow(m) \in children
<1>0. EvidenceRow(m).memory = m /\ EvidenceRow(m).table = "memory_evidence"
  BY DEF EvidenceRow
<1>1. CASE UNCHANGED <<memory, children>>
  BY <1>1
<1>2. ASSUME NEW i \in Imports, CommitImport(i)
      PROVE  EvidenceRow(m) \in children' <=> EvidenceRow(m) \in children
  <2>1. m \notin importing[i].staged
    BY <1>2, CommitImportRows
  <2>2. ASSUME NEW n \in importing[i].staged, NEW c \in InsertedChildren(n, importing[i].batch[n])
        PROVE  c.memory = n
    BY <2>2 DEF InsertedChildren, EvidenceRow, RelationRow, LinkRow
  <2> QED
    BY <1>0, <1>2, <2>1, <2>2 DEF CommitImport
<1>3. ASSUME NEW d \in Removals, CommitRemove(d)
      PROVE  EvidenceRow(m) \in children' <=> EvidenceRow(m) \in children
  <2>1. removing[d].target # m
    BY <1>3 DEF CommitRemove, IInv, TypeOK, MemoryRows
  <2>2. EvidenceRow(m) \notin removing[d].cut
    BY <1>0, <2>1 DEF IInv, RemovalsOK, Refers
  <2> QED
    BY <1>3, <2>2 DEF CommitRemove
<1>4. ASSUME NEW f \in Ratings, InsertRate(f)
      PROVE  EvidenceRow(m) \in children' <=> EvidenceRow(m) \in children
  BY <1>0, <1>4 DEF InsertRate, FeedbackRow
<1>5. ASSUME NEW p \in Publications, UpdatePublish(p)
      PROVE  EvidenceRow(m) \in children' <=> EvidenceRow(m) \in children
  BY <1>5 DEF UpdatePublish
<1> QED
  BY <1>1, <1>2, <1>3, <1>4, <1>5 DEF Writes

LEMMA EvidenceStep ==
    ASSUME IInv, [Next]_vars
    PROVE  EvidenceMatchesSummary'
<1>0. Writes /\ Moves /\ TypeOK
  BY StepWrites, StepMoves DEF IInv
<1>1. SUFFICES ASSUME NEW r \in Reads, reading'[r].pc = "served",
                      memory'[reading'[r].target].state = "live"
               PROVE  EvidenceRow(reading'[r].target) \in children' <=> reading'[r].counted
  BY DEF EvidenceMatchesSummary
<1>2. CASE reading'[r] = reading[r]
  <2>1. Exists(reading[r].target)
    BY <1>1, <1>2 DEF IInv, TargetsOK
  <2>2. memory[reading[r].target].state = "live"
    BY <1>0, <1>1, <1>2, <2>1, MemoryWidens DEF Exists, Widens
  <2>3. EvidenceRow(reading[r].target) \in children <=> reading[r].counted
    BY <1>1, <1>2, <2>2 DEF IInv, EvidenceMatchesSummary
  <2> QED
    BY <1>0, <1>1, <1>2, <2>1, <2>2, <2>3, EvidenceStays DEF Exists
<1>3. ASSUME NEW q \in Reads, ReadStep(q), reading'[r] # reading[r]
      PROVE  EvidenceRow(reading'[r].target) \in children' <=> reading'[r].counted
  <2>1. FetchSummary(r)
    <3>1. r = q
      BY <1>0, <1>3 DEF ReadStep, BeginRead, FetchSummary, FetchDetails, DropRead, TypeOK
    <3>2. ~FetchDetails(r) /\ ~DropRead(r) /\ \A p \in Callers, m \in Memories : ~BeginRead(r, p, m)
      BY <1>0, <1>1 DEF BeginRead, FetchDetails, DropRead, IdleRead, TypeOK
    <3> QED
      BY <1>3, <3>1, <3>2 DEF ReadStep
  <2>2. reading'[r] = [reading[r] EXCEPT !.pc = "served",
                                         !.counted = EvidenceRow(reading[r].target) \in children]
    BY <1>0, <2>1 DEF FetchSummary, TypeOK
  <2>3. reading'[r].target = reading[r].target
    BY <1>0, <2>2 DEF TypeOK, ReadStates
  <2>4. reading'[r].counted <=> EvidenceRow(reading[r].target) \in children
    <3>1. reading[r] \in ReadStates
      BY <1>0 DEF TypeOK
    <3> DEFINE b == EvidenceRow(reading[r].target) \in children
    <3>2. b \in BOOLEAN
      OBVIOUS
    <3>3. ASSUME NEW x \in BOOLEAN, x = b PROVE reading'[r].counted = x
      BY <2>2, <3>1, <3>3 DEF ReadStates
    <3> HIDE DEF b
    <3>4. reading'[r].counted = b
      BY <3>2, <3>3
    <3> QED
      BY <3>4 DEF b
  <2>5. children' = children
    BY <2>1 DEF FetchSummary, tables
  <2> QED
    BY <2>3, <2>4, <2>5
<1> QED
  BY <1>0, <1>2, <1>3 DEF Moves

-----------------------------------------------------------------------------
(* The inductive invariant.                                                *)

LEMMA InitInv == Init => IInv
<1> SUFFICES ASSUME Init PROVE IInv
  OBVIOUS
<1>1. TypeOK
  BY InitType
<1>2. ImportsOK
  <2>1. \A i \in Imports : importing[i] = IdleImport
    BY DEF Init
  <2>2. \A i \in Imports : Batch(i) = {} /\ Accepted(i) = {}
    BY <2>1 DEF Batch, Accepted, IdleImport
  <2>3. \A i \in Imports : importing[i].pc = "idle"
    BY <2>1 DEF IdleImport
  <2> QED
    BY <2>1, <2>2, <2>3 DEF ImportsOK
<1>3. TargetsOK
  BY DEF Init, TargetsOK, IdlePublish, IdleRemove, IdleRate, IdleRead
<1>4. RowsOK
  BY DEF Init, RowsOK, NoMemoryRow, OwnRows
<1>5. RemovalsOK
  BY DEF Init, RemovalsOK, OwnRows, IdleRemove
<1>6. ChecksHold
  BY DEF Init, ChecksHold, IdleImport, IdlePublish, IdleRemove, IdleRate, IdleRead
<1>7. RemovedIsStripped /\ PublicHasOwner /\ PendingIsShared
  BY DEF Init, RemovedIsStripped, PublicHasOwner, PendingIsShared, NoMemoryRow
<1>8. EvidenceMatchesSummary
  BY DEF Init, EvidenceMatchesSummary, IdleRead
<1> QED
  BY <1>1, <1>2, <1>3, <1>4, <1>5, <1>6, <1>7, <1>8 DEF IInv

LEMMA StepInv == IInv /\ [Next]_vars => IInv'
<1> SUFFICES ASSUME IInv, [Next]_vars PROVE IInv'
  OBVIOUS
<1>1. Writes /\ claimed \subseteq claimed'
  BY StepWrites, StepMoves DEF Moves
<1>2. TypeOK'
  BY TypeStep DEF IInv
<1>3. ImportsOK' /\ TargetsOK' /\ RemovalsOK' /\ ChecksHold' /\ EvidenceMatchesSummary'
  BY ImportsStep, TargetsStep, RemovalsStep, ChecksStep, EvidenceStep
<1>4. RowsOK' /\ RemovedIsStripped' /\ PublicHasOwner' /\ PendingIsShared'
  BY <1>1, RowsStep, StrippedStep, PublicStep, PendingStep
<1> QED
  BY <1>2, <1>3, <1>4 DEF IInv

\* The inductive invariant holds in every reachable state: what the requests in
\* flight have checked, staged and deleted agrees with the tables throughout.
THEOREM Invariance == Spec => []IInv
BY InitInv, StepInv, PTL DEF Spec

\* Every table and every request in flight holds what its columns and locals can,
\* whatever the agents, the memories, the inputs and the slots.
THEOREM TypeCorrect == Spec => []TypeOK
<1>1. IInv => TypeOK
  BY DEF IInv
<1> QED
  BY <1>1, Invariance, PTL

\* What insert_memory, publish_memory, remove_memory, create_feedback and
\* get_memory checked in an earlier statement holds when a later one relies on it,
\* or the memory has been removed.
THEOREM ChecksStayValid == Spec => []ChecksHold
<1>1. IInv => ChecksHold
  BY DEF IInv
<1> QED
  BY <1>1, Invariance, PTL

\* remove_memory leaves no evidence, relation or gap link of the removed memory,
\* however many removals, imports and ratings run beside it.
THEOREM RemovalStrips == Spec => []RemovedIsStripped
<1>1. IInv => RemovedIsStripped
  BY DEF IInv
<1> QED
  BY <1>1, Invariance, PTL

\* insert_memory and publish_memory make a memory public only in a workspace that
\* has an owner.
THEOREM PublicIsOwned == Spec => []PublicHasOwner
<1>1. IInv => PublicHasOwner
  BY DEF IInv
<1> QED
  BY <1>1, Invariance, PTL

\* publication_requested_at is set on rows shared with the workspace only.
THEOREM PendingAreShared == Spec => []PendingIsShared
<1>1. IInv => PendingIsShared
  BY DEF IInv
<1> QED
  BY <1>1, Invariance, PTL

\* The evidence that get_memory lists is what its summary counted, unless the
\* memory was removed between the two statements.
THEOREM EvidenceIsCounted == Spec => []EvidenceMatchesSummary
<1>1. IInv => EvidenceMatchesSummary
  BY DEF IInv
<1> QED
  BY <1>1, Invariance, PTL

-----------------------------------------------------------------------------
(* What a step may never do.                                               *)

LEMMA ServedStep ==
    ASSUME IInv, [Next]_vars, NEW r \in Reads,
           reading[r].pc = "checked", reading'[r].pc = "served"
    PROVE  CanReadMemory(reading[r].target, reading[r].principal)
<1>0. Moves /\ TypeOK
  BY StepMoves DEF IInv
<1>1. PICK q \in Reads : ReadStep(q)
  BY <1>0 DEF Moves
<1>2. r = q
  BY <1>0, <1>1 DEF ReadStep, BeginRead, FetchSummary, FetchDetails, DropRead, TypeOK
<1>3. ~FetchDetails(r) /\ ~DropRead(r) /\ \A p \in Callers, m \in Memories : ~BeginRead(r, p, m)
  BY <1>0 DEF BeginRead, FetchDetails, DropRead, IdleRead, TypeOK
<1>4. memory[reading[r].target].state = "live"
  BY <1>1, <1>2, <1>3 DEF ReadStep, FetchSummary
<1>5. StillReadable(reading[r].target, reading[r].principal)
  BY DEF IInv, ChecksHold
<1> QED
  BY <1>4, <1>5 DEF StillReadable

\* get_memory hands out content that the caller may read at that moment, although
\* the statement that selects it checks only removed_at.
THEOREM ServedReadable == Spec => ServedIsReadable
<1>1. IInv /\ [Next]_vars =>
          [\A r \in Reads :
              reading[r].pc = "checked" /\ reading'[r].pc = "served"
                  => CanReadMemory(reading[r].target, reading[r].principal)]_vars
  BY ServedStep
<1> QED
  BY <1>1, Invariance, PTL DEF Spec, ServedIsReadable

LEMMA AtomicStep ==
    ASSUME IInv, [Next]_vars, NEW i \in Imports, NEW m \in Batch(i), memory'[m].state # "absent"
    PROVE  \A n \in Batch(i) : memory'[n].state = "live"
<1>0. Writes
  BY StepWrites
<1>1. m \in Memories /\ memory[m].state = "absent"
  BY DEF IInv, ImportsOK, Batch
<1>2. PICK j \in Imports : CommitImport(j) /\ m \in importing[j].staged
  BY <1>0, <1>1, StaysAbsent
<1>3. importing[j].staged = Batch(j)
  BY <1>2 DEF CommitImport
<1>4. i = j
  BY <1>2, <1>3 DEF IInv, ImportsOK
<1>5. ASSUME NEW n \in Batch(i) PROVE memory'[n].state = "live"
  <2>1. memory'[n] = InsertedRow(importing[i].agent, importing[i].auto, importing[i].batch[n])
    BY <1>2, <1>3, <1>4, CommitImportRows
  <2> QED
    BY <2>1 DEF InsertedRow
<1> QED
  BY <1>5

\* import_memories writes all of its batch or nothing, next to any other handler.
THEOREM ImportAtomic == Spec => ImportIsAtomic
<1>1. IInv /\ [Next]_vars =>
          [\A i \in Imports :
              (\E m \in Batch(i) : memory'[m].state # "absent")
                  => \A m \in Batch(i) : memory'[m].state = "live"]_vars
  BY AtomicStep
<1> QED
  BY <1>1, Invariance, PTL DEF Spec, ImportIsAtomic

LEMMA NewRelationStep ==
    ASSUME IInv, [Next]_vars, NEW m \in Memories, NEW t \in Memories,
           RelationRow(m, t) \in children' \ children, memory[t].state # "removed"
    PROVE  CanReadMemory(t, AgentPrincipal(memory'[m].author))
<1> DEFINE row == RelationRow(m, t)
<1>0. Writes /\ row.table = "memory_relations" /\ row.memory = m /\ row.other = t
  BY StepWrites DEF RelationRow
<1>1. PICK i \in Imports : CommitImport(i)
  <2>1. ASSUME NEW f \in Ratings, InsertRate(f) PROVE FALSE
    <3>1. row = FeedbackRow(rating[f].target, rating[f].source)
      BY <2>1 DEF InsertRate
    <3> QED
      BY <1>0, <3>1 DEF FeedbackRow
  <2>2. ASSUME NEW p \in Publications, UpdatePublish(p) PROVE FALSE
    BY <2>2 DEF UpdatePublish
  <2>3. ASSUME NEW d \in Removals, CommitRemove(d) PROVE FALSE
    BY <2>3 DEF CommitRemove
  <2> QED
    BY <1>0, <2>1, <2>2, <2>3 DEF Writes
<1>2. PICK n \in importing[i].staged : row \in InsertedChildren(n, importing[i].batch[n])
  BY <1>1 DEF CommitImport
<1>3. n = m /\ t \in importing[i].batch[m].relations
  <2>1. row # EvidenceRow(n) /\ \A g : row # LinkRow(n, g)
    BY <1>0 DEF EvidenceRow, LinkRow
  <2>2. PICK u \in importing[i].batch[n].relations : row = RelationRow(n, u)
    BY <1>2, <2>1 DEF InsertedChildren
  <2>3. RelationRow(n, u).memory = n /\ RelationRow(n, u).other = u
    BY DEF RelationRow
  <2> QED
    BY <1>0, <2>2, <2>3
<1>4. t \in Checked(i) /\ importing[i].pc # "idle"
  BY <1>1, <1>2, <1>3 DEF Checked, CommitImport
<1>5. StillReadable(t, AgentPrincipal(importing[i].agent))
  BY <1>4 DEF IInv, ChecksHold
<1>6. memory'[m].author = importing[i].agent
  <2>1. memory'[m] = InsertedRow(importing[i].agent, importing[i].auto, importing[i].batch[m])
    BY <1>1, <1>2, <1>3, CommitImportRows
  <2> QED
    BY <2>1 DEF InsertedRow
<1> QED
  BY <1>5, <1>6 DEF StillReadable

\* A relation or an agent's feedback is inserted on a check of a few statements ago;
\* at the insert that check still holds, or the memory has been removed.
THEOREM ChecksGoStaleByRemoval == Spec => OnlyRemovalMakesChecksStale
<1>1. ASSUME IInv, NEW f \in Ratings, InsertsAgentFeedback(f),
             memory[rating[f].target].state # "removed"
      PROVE  CanReadMemory(rating[f].target, AgentPrincipal(rating[f].agent))
  BY <1>1 DEF IInv, ChecksHold, InsertsAgentFeedback, StillReadable
<1>2. IInv /\ [Next]_vars =>
          [/\ \A m, t \in Memories :
                 RelationRow(m, t) \in children' \ children
                     => \/ memory[t].state = "removed"
                        \/ CanReadMemory(t, AgentPrincipal(memory'[m].author))
           /\ \A f \in Ratings :
                 InsertsAgentFeedback(f)
                     => \/ memory[rating[f].target].state = "removed"
                        \/ CanReadMemory(rating[f].target, AgentPrincipal(rating[f].agent))]_vars
  BY <1>1, NewRelationStep
<1> QED
  BY <1>2, Invariance, PTL DEF Spec, OnlyRemovalMakesChecksStale

-----------------------------------------------------------------------------
(* The promise to clients.                                                 *)

LEMMA InitPromise == Init => Promise!Init
BY DEF Init, Promise!Init, LifeOf, HomeOf, NoMemoryRow, NoWorkspace

LEMMA CommitImportPromise ==
    ASSUME IInv, NEW i \in Imports, CommitImport(i)
    PROVE  Promise!Next
<1> DEFINE w == WorkspaceOf[importing[i].agent]
           batch == importing[i].staged
           audience == [m \in batch |-> Audience(importing[i].auto, importing[i].batch[m])]
<1>0. importing[i].agent \in Agents /\ w \in Workspaces
  BY CommitImportRows, WorkspaceOfAssumption
<1>1. batch \in SUBSET Memories
  BY CommitImportRows
<1>2. ASSUME NEW m \in batch
      PROVE  /\ memory[m].state = "absent"
             /\ audience[m] \in Promise!Audiences
             /\ audience[m] = "public" => w \in claimed
             /\ LifeOf(memory'[m]) = audience[m]
             /\ HomeOf(memory'[m]) = w
  <2>1. /\ m \in Memories
        /\ memory[m].state = "absent"
        /\ importing[i].batch[m] \in Inputs
        /\ importing[i].batch[m].visibility # "public"
        /\ memory'[m] = InsertedRow(importing[i].agent, importing[i].auto, importing[i].batch[m])
    BY CommitImportRows
  <2>2. importing[i].batch[m].visibility \in Visibilities
    BY <2>1, InputsAssumption DEF InputType
  <2>3. audience[m] = Audience(importing[i].auto, importing[i].batch[m])
    OBVIOUS
  <2>4. audience[m] \in Visibilities /\ (audience[m] = "public" => importing[i].auto)
    BY <2>1, <2>2, <2>3 DEF Audience, Visibilities
  <2>5. importing[i].auto => w \in claimed
    BY DEF IInv, ChecksHold, CommitImport
  <2>6. LifeOf(memory'[m]) = audience[m] /\ HomeOf(memory'[m]) = w
    BY <2>1, <2>3 DEF InsertedRow, LifeOf, HomeOf
  <2> QED
    BY <2>1, <2>4, <2>5, <2>6 DEF Visibilities, Promise!Audiences
<1>3. ASSUME NEW m \in Memories \ batch PROVE memory'[m] = memory[m]
  BY <1>3, CommitImportRows
<1>4. audience \in [batch -> Promise!Audiences]
  BY <1>2
<1>5. Promise!Write(w, batch, audience)
  <2>1. \A m \in batch : LifeOf(memory[m]) = "absent"
    BY <1>2 DEF LifeOf
  <2>2. claimed' = claimed
    BY DEF CommitImport
  <2> HIDE DEF audience, w
  <2> QED
    BY <1>1, <1>2, <1>3, <2>1, <2>2 DEF Promise!Write
<1> HIDE DEF audience, w, batch
<1> QED
  BY <1>0, <1>1, <1>4, <1>5 DEF Promise!Next

\* A publication maps to Publish, but on a removed memory to a stutter.
LEMMA UpdatePublishPromise ==
    ASSUME IInv, NEW p \in Publications, UpdatePublish(p)
    PROVE  [Promise!Next]_(Promise!vars)
<1> DEFINE m == publishing[p].target
<1>0. /\ m \in Memories /\ memory \in [Memories -> MemoryRows] /\ claimed' = claimed
      /\ memory[m].state # "absent" /\ WorkspaceOf[memory[m].author] \in claimed
  BY DEF UpdatePublish, IInv, TargetsOK, TypeOK, Exists, ChecksHold, OwnerMayManage
<1>1. /\ memory'[m].state = memory[m].state
      /\ memory'[m].author = memory[m].author
      /\ memory'[m].visibility = "public"
      /\ \A n \in Memories \ {m} : memory'[n] = memory[n]
  BY <1>0 DEF UpdatePublish, MemoryRows
<1> HIDE DEF m
<1>2. \A n \in Memories : HomeOf(memory'[n]) = HomeOf(memory[n])
  BY <1>1 DEF HomeOf
<1>3. CASE memory[m].state = "removed"
  <2>1. \A n \in Memories : LifeOf(memory'[n]) = LifeOf(memory[n])
    BY <1>1, <1>3 DEF LifeOf
  <2> QED
    BY <1>0, <1>2, <2>1 DEF Promise!vars
<1>4. CASE memory[m].state = "live"
  <2>1. LifeOf(memory[m]) \in Promise!Audiences /\ HomeOf(memory[m]) \in claimed
    BY <1>0, <1>4 DEF LifeOf, HomeOf, MemoryRows, Visibilities, Promise!Audiences
  <2>2. LifeOf(memory'[m]) = "public" /\ \A n \in Memories \ {m} : LifeOf(memory'[n]) = LifeOf(memory[n])
    BY <1>1, <1>4 DEF LifeOf
  <2>3. Promise!Publish(m)
    BY <1>0, <1>2, <2>1, <2>2 DEF Promise!Publish
  <2> QED
    BY <1>0, <2>3 DEF Promise!Next
<1> QED
  BY <1>0, <1>3, <1>4 DEF MemoryRows

\* A removal maps to Remove, but on a memory removed before to a stutter.
LEMMA CommitRemovePromise ==
    ASSUME IInv, NEW d \in Removals, CommitRemove(d)
    PROVE  [Promise!Next]_(Promise!vars)
<1> DEFINE m == removing[d].target
<1>0. /\ m \in Memories /\ memory \in [Memories -> MemoryRows] /\ claimed' = claimed
      /\ memory[m].state # "absent" /\ WorkspaceOf[memory[m].author] \in claimed
  BY DEF CommitRemove, IInv, TargetsOK, TypeOK, Exists, ChecksHold, OwnerMayManage
<1>1. /\ memory'[m].state = "removed"
      /\ memory'[m].author = memory[m].author
      /\ \A n \in Memories \ {m} : memory'[n] = memory[n]
  BY <1>0 DEF CommitRemove, MemoryRows
<1> HIDE DEF m
<1>2. \A n \in Memories : HomeOf(memory'[n]) = HomeOf(memory[n])
  BY <1>0, <1>1 DEF HomeOf
<1>3. /\ LifeOf(memory'[m]) = "removed"
      /\ \A n \in Memories \ {m} : LifeOf(memory'[n]) = LifeOf(memory[n])
  BY <1>1 DEF LifeOf
<1>4. CASE memory[m].state = "removed"
  <2>1. LifeOf(memory[m]) = "removed"
    BY <1>4 DEF LifeOf
  <2> QED
    BY <1>0, <1>2, <1>3, <2>1 DEF Promise!vars
<1>5. CASE memory[m].state = "live"
  <2>1. LifeOf(memory[m]) \in Promise!Audiences /\ HomeOf(memory[m]) \in claimed
    BY <1>0, <1>5 DEF LifeOf, HomeOf, MemoryRows, Visibilities, Promise!Audiences
  <2>2. Promise!Remove(m)
    BY <1>0, <1>2, <1>3, <2>1 DEF Promise!Remove
  <2> QED
    BY <1>0, <2>2 DEF Promise!Next
<1> QED
  BY <1>0, <1>4, <1>5 DEF MemoryRows

LEMMA StepPromise == IInv /\ [Next]_vars => [Promise!Next]_(Promise!vars)
<1> SUFFICES ASSUME IInv, [Next]_vars PROVE [Promise!Next]_(Promise!vars)
  OBVIOUS
<1>0. Writes
  BY StepWrites
<1>1. CASE \E w \in Workspaces : Claim(w)
  BY <1>1 DEF Claim, Promise!Claim, Promise!Next
<1>2. CASE memory' = memory /\ claimed' = claimed
  BY <1>2 DEF Promise!vars
<1>3. CASE claimed' # claimed
  BY <1>1, <1>3 DEF Next, vars, tables, UpdatePolicy, CreateGap, ImportStep, BeginImport, StartItem,
     CheckRelation, StageItem, CommitImport, DropImport, PublishStep, BeginPublish, UpdatePublish,
     DropPublish, RemoveStep, BeginRemove, DeleteRows, ScrubRow, CommitRemove, DropRemove, RateStep,
     BeginDeveloperRate, BeginAgentRate, CheckRate, InsertRate, DropRate, ReadStep, BeginRead,
     FetchSummary, FetchDetails, DropRead
<1>4. CASE memory' # memory
  <2>1. \/ \E i \in Imports : CommitImport(i)
        \/ \E p \in Publications : UpdatePublish(p)
        \/ \E d \in Removals : CommitRemove(d)
    BY <1>0, <1>4 DEF Writes, InsertRate
  <2> QED
    BY <2>1, CommitImportPromise, UpdatePublishPromise, CommitRemovePromise
<1> QED
  BY <1>2, <1>3, <1>4

\* At every reachable state the rule in Rust and the rules in SQL decide alike on
\* every memory there is and for every caller, so that a list or a search shows what
\* get_memory serves and nothing else.
THEOREM CopiesKeepAgreeing == Spec => []EveryCopyAgrees
<1>1. ASSUME TypeOK, RowsOK, NEW m \in Memories, memory[m].state # "absent", NEW p \in Callers
      PROVE  CopiesAgree(AccessRow(memory[m]), p)
  <2>1. memory[m] \in MemoryRows /\ memory[m].author \in Agents
    BY <1>1 DEF TypeOK, RowsOK, MemoryRows
  <2>2. AccessRow(memory[m]) \in AccessRows
    BY <2>1, WorkspaceOfAssumption DEF AccessRow, AccessRows, MemoryRows
  <2>3. p \in Principals
    BY <1>1 DEF TypeOK, Callers, Principals
  <2> QED
    BY <2>2, <2>3, RuleCopiesAgree
<1>2. IInv => EveryCopyAgrees
  BY <1>1 DEF IInv, EveryCopyAgrees
<1> QED
  BY <1>2, Invariance, PTL

\* The handlers keep the promise of module Lifecycle: to a client that sees only who
\* may read each memory, every run of theirs is a run of Lifecycle.
THEOREM PromiseKept == Spec => KeepsPromise
BY InitPromise, StepPromise, Invariance, PTL DEF Spec, KeepsPromise, Promise!Spec

=============================================================================
