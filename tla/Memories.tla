------------------------------ MODULE Memories ------------------------------
(***************************************************************************)
(* The life of memories (`memories` and the tables that hang off it): the  *)
(* handlers that write, import, publish, remove, rate and read them, as    *)
(* they interleave on one PostgreSQL database at READ COMMITTED.           *)
(*                                                                         *)
(* A handler is a task that awaits each statement, so between two of its   *)
(* statements any other handler may run.  Every action below is one        *)
(* statement (or a run of statements none of which another handler can     *)
(* tell apart).  Each kind of handler has a set of slots, the requests of  *)
(* that kind that can be in flight together, and one variable that holds   *)
(* the program point and the locals of each slot.  The statements of an    *)
(* open transaction are kept in those locals until it commits.  A request  *)
(* that returns an error, whose client goes away (axum drops the future)   *)
(* or whose server stops is a Drop: the transaction rolls back.            *)
(***************************************************************************)

EXTENDS ReadRule, FiniteSets, Naturals

CONSTANTS
    Memories, Gaps,     \* row ids
    NoGap, NoMemory,    \* an absent gap_id, and no memory
    Inputs,             \* the MemoryInputs that agents send
    NoInput,
    ImportMaximum,      \* IMPORT_BATCH_MAXIMUM
    Imports,            \* slots of create_memory and import_memories
    Publications,       \* slots of publish_memory
    Removals,           \* slots of remove_memory
    Ratings,            \* slots of create_feedback
    Reads               \* slots of get_memory

\* MemoryInput, reduced to what decides who reads what.
InputType == [visibility: Visibilities, request_public: BOOLEAN, evidence: BOOLEAN,
              relations: SUBSET Memories, gap_id: Gaps \cup {NoGap}]

ASSUME InputsAssumption == Inputs \subseteq InputType
ASSUME NoInputAssumption == NoInput \notin Inputs
ASSUME ImportMaximumAssumption == ImportMaximum \in Nat
ASSUME NoGapAssumption == NoGap \notin Gaps
ASSUME NoMemoryAssumption == NoMemory \notin Memories

VARIABLES
    claimed,        \* workspaces with developer_id set
    policy,         \* workspaces.publication_policy
    memory,         \* table memories
    gap,            \* table experience_gaps
    children,       \* tables memory_evidence, memory_feedback, memory_relations, gap_memory_links
    importing, publishing, removing, rating, reading    \* requests in flight

tables == <<claimed, policy, memory, gap, children>>
requests == <<importing, publishing, removing, rating, reading>>
vars == <<claimed, policy, memory, gap, children,
          importing, publishing, removing, rating, reading>>

-----------------------------------------------------------------------------
(* Rows.                                                                   *)

Policies == {"manual", "auto"}

\* A row of memories; "removed" is removed_at IS NOT NULL, "requested" is
\* publication_requested_at IS NOT NULL.
MemoryRows == [state: {"absent", "live", "removed"}, author: Agents \cup {NoAgent},
               visibility: Visibilities, requested: BOOLEAN]
NoMemoryRow == [state |-> "absent", author |-> NoAgent,
                visibility |-> "agent_private", requested |-> FALSE]

\* Nothing sets experience_gaps.removed_at, so a gap that exists is live.
GapRows == [state: {"absent", "live"}, author: Agents \cup {NoAgent},
            visibility: Visibilities]
NoGapRow == [state |-> "absent", author |-> NoAgent, visibility |-> "agent_private"]

\* One row of a table that refers to a memory.  `other` is the target of a
\* relation, the gap of a link and the source_type of a feedback.
EvidenceRow(m) == [table |-> "memory_evidence", memory |-> m, other |-> m]
FeedbackRow(m, source) == [table |-> "memory_feedback", memory |-> m, other |-> source]
RelationRow(m, t) == [table |-> "memory_relations", memory |-> m, other |-> t]
LinkRow(m, g) == [table |-> "gap_memory_links", memory |-> m, other |-> g]

ChildRows == {EvidenceRow(m) : m \in Memories}
                \cup {FeedbackRow(m, source) : m \in Memories, source \in {"agent", "human"}}
                \cup {RelationRow(m, t) : m \in Memories, t \in Memories}
                \cup {LinkRow(m, g) : m \in Memories, g \in Gaps}

\* The rows a DELETE ... WHERE of remove_memory selects in one table.
Refers(c, m) ==
    \/ c.memory = m
    \/ c.table = "memory_relations" /\ c.other = m
RowsOf(table, m) == {c \in children : c.table = table /\ Refers(c, m)}

AccessRow(row) ==
    [workspace |-> WorkspaceOf[row.author], author |-> row.author,
     visibility |-> row.visibility, removed |-> row.state = "removed"]

\* can_read_memory(_principal) and can_read_gap: no row, no access.
CanReadMemory(m, p) ==
    memory[m].state # "absent" /\ CanReadRowPrincipal(AccessRow(memory[m]), p)
CanReadGap(g, p) ==
    gap[g].state # "absent" /\ CanReadRow(AccessRow(gap[g]), p)

\* load_memory_access found the row, and ensure_workspace_owner passed for the
\* developer who claimed its workspace.
OwnerMayManage(m) ==
    memory[m].state # "absent" /\ WorkspaceOf[memory[m].author] \in claimed

-----------------------------------------------------------------------------
(* Requests in flight.                                                     *)

Tables == {"memory_evidence", "memory_feedback", "memory_relations", "gap_memory_links"}

ImportStates == [pc: {"idle", "item", "check"}, agent: Agents \cup {NoAgent},
                 auto: BOOLEAN, batch: [Memories -> Inputs \cup {NoInput}],
                 item: Memories \cup {NoMemory}, unchecked: SUBSET Memories,
                 staged: SUBSET Memories]
PublishStates == [pc: {"idle", "update"}, target: Memories \cup {NoMemory}]
RemoveStates == [pc: {"idle", "scrub", "commit"} \cup Tables,
                 target: Memories \cup {NoMemory}, cut: SUBSET ChildRows]
RateStates == [pc: {"idle", "check", "insert"}, source: {"agent", "human"},
               agent: Agents \cup {NoAgent}, target: Memories \cup {NoMemory}]
ReadStates == [pc: {"idle", "checked", "served"}, principal: Principals,
               target: Memories \cup {NoMemory}, counted: BOOLEAN]

IdleImport == [pc |-> "idle", agent |-> NoAgent, auto |-> FALSE,
               batch |-> [m \in Memories |-> NoInput], item |-> NoMemory,
               unchecked |-> {}, staged |-> {}]
IdlePublish == [pc |-> "idle", target |-> NoMemory]
IdleRemove == [pc |-> "idle", target |-> NoMemory, cut |-> {}]
IdleRate == [pc |-> "idle", source |-> "agent", agent |-> NoAgent, target |-> NoMemory]
IdleRead == [pc |-> "idle", principal |-> Anonymous, target |-> NoMemory, counted |-> FALSE]

\* The ids a request in flight will insert: Uuid::new_v4 gives nobody else the same.
Batch(i) == {m \in Memories : importing[i].batch[m] # NoInput}
Unused(m) == memory[m].state = "absent" /\ \A i \in Imports : m \notin Batch(i)

\* A row stays locked until the transaction that changed it ends: the row of m by
\* a removal that has updated it, a child row by a removal that has deleted it.
RowLocked(by, m) == \E d \in by : removing[d].pc = "commit" /\ removing[d].target = m
ChildLocked(by, rows) == \E d \in by : removing[d].cut \cap rows # {}

Init ==
    /\ claimed = {}
    /\ policy = [w \in Workspaces |-> "manual"]
    /\ memory = [m \in Memories |-> NoMemoryRow]
    /\ gap = [g \in Gaps |-> NoGapRow]
    /\ children = {}
    /\ importing = [i \in Imports |-> IdleImport]
    /\ publishing = [p \in Publications |-> IdlePublish]
    /\ removing = [d \in Removals |-> IdleRemove]
    /\ rating = [f \in Ratings |-> IdleRate]
    /\ reading = [r \in Reads |-> IdleRead]

-----------------------------------------------------------------------------
(* Workspaces and gaps: one statement, or one transaction, each.           *)

\* claim_workspace commits: the workspace has an owner from here on.
Claim(w) ==
    /\ w \notin claimed
    /\ claimed' = claimed \cup {w}
    /\ UNCHANGED <<policy, memory, gap, children, requests>>

UpdatePolicy(w, p) ==
    /\ w \in claimed
    /\ policy' = [policy EXCEPT ![w] = p]
    /\ UNCHANGED <<claimed, memory, gap, children, requests>>

CreateGap(a, g, visibility) ==
    /\ gap[g].state = "absent"
    /\ gap' = [gap EXCEPT ![g] = [state |-> "live", author |-> a, visibility |-> visibility]]
    /\ UNCHANGED <<claimed, policy, memory, children, requests>>

-----------------------------------------------------------------------------
(* create_memory and import_memories.                                      *)

\* require_agent takes the principal, and with it the policy of that moment;
\* the batch has passed validate_memory_input, and the transaction opens.
BeginImport(i, a, batch) ==
    /\ importing[i].pc = "idle"
    /\ DOMAIN batch # {}
    /\ Cardinality(DOMAIN batch) <= ImportMaximum
    /\ \A m \in DOMAIN batch : Unused(m)
    /\ importing' = [importing EXCEPT ![i] =
           [IdleImport EXCEPT
               !.pc = "item", !.agent = a,
               !.auto = WorkspaceOf[a] \in claimed /\ policy[WorkspaceOf[a]] = "auto",
               !.batch = [m \in Memories |-> IF m \in DOMAIN batch THEN batch[m] ELSE NoInput]]]
    /\ UNCHANGED <<tables, publishing, removing, rating, reading>>

\* insert_memory that takes a direct "public" as it comes.
StartItemUnrefused(i, m) ==
    /\ importing[i].pc = "item"
    /\ m \in Batch(i) \ importing[i].staged
    /\ importing' = [importing EXCEPT ![i].pc = "check", ![i].item = m,
                                      ![i].unchecked = importing[i].batch[m].relations]
    /\ UNCHANGED <<tables, publishing, removing, rating, reading>>

\* insert_memory starts on the next item: it refuses a direct "public", and
\* then awaits the embedding service, whose failure it only logs.
StartItem(i, m) ==
    /\ importing[i].pc = "item"
    /\ m \in Batch(i) \ importing[i].staged
    /\ importing[i].batch[m].visibility # "public"
    /\ importing' = [importing EXCEPT ![i].pc = "check", ![i].item = m,
                                      ![i].unchecked = importing[i].batch[m].relations]
    /\ UNCHANGED <<tables, publishing, removing, rating, reading>>

\* A relation that asks only whether its target exists, as its foreign key would.
CheckRelationExists(i, t) ==
    /\ importing[i].pc = "check"
    /\ t \in importing[i].unchecked
    /\ memory[t].state # "absent"
    /\ importing' = [importing EXCEPT ![i].unchecked = @ \ {t}]
    /\ UNCHANGED <<tables, publishing, removing, rating, reading>>

\* One can_read_memory, on a connection of its own, outside the transaction.
CheckRelation(i, t) ==
    /\ importing[i].pc = "check"
    /\ t \in importing[i].unchecked
    /\ CanReadMemory(t, AgentPrincipal(importing[i].agent))
    /\ importing' = [importing EXCEPT ![i].unchecked = @ \ {t}]
    /\ UNCHANGED <<tables, publishing, removing, rating, reading>>

\* can_read_gap, then the INSERTs, which nobody sees before the commit.
StageItem(i) ==
    LET input == importing[i].batch[importing[i].item] IN
    /\ importing[i].pc = "check"
    /\ importing[i].unchecked = {}
    /\ input.gap_id # NoGap => CanReadGap(input.gap_id, AgentPrincipal(importing[i].agent))
    /\ importing' = [importing EXCEPT ![i].pc = "item", ![i].item = NoMemory,
                                      ![i].staged = @ \cup {importing[i].item}]
    /\ UNCHANGED <<tables, publishing, removing, rating, reading>>

\* A visibility the schema does not know.
AudienceOutsideSchema(auto, input) ==
    IF input.request_public
    THEN IF auto THEN "public" ELSE "pending"
    ELSE input.visibility

Audience(auto, input) ==
    IF input.request_public
    THEN IF auto THEN "public" ELSE "developer_shared"
    ELSE input.visibility

InsertedRow(a, auto, input) ==
    [state |-> "live", author |-> a, visibility |-> Audience(auto, input),
     requested |-> input.request_public /\ ~auto]

InsertedChildren(m, input) ==
    {c \in {EvidenceRow(m)} : input.evidence}
        \cup {RelationRow(m, t) : t \in input.relations}
        \cup {LinkRow(m, g) : g \in {input.gap_id} \ {NoGap}}

\* Each memory of a batch committed as soon as it is inserted.
CommitImportEach(i) ==
    LET req == importing[i] IN
    /\ req.pc = "item"
    /\ \E m \in req.staged :
          /\ memory' = [memory EXCEPT ![m] = InsertedRow(req.agent, req.auto, req.batch[m])]
          /\ children' = children \cup InsertedChildren(m, req.batch[m])
          /\ importing' = [importing EXCEPT ![i].batch[m] = NoInput, ![i].staged = @ \ {m}]
    /\ UNCHANGED <<claimed, policy, gap, publishing, removing, rating, reading>>

\* An INSERT that grants every request for the public, whatever the policy.
CommitImportAsAsked(i) ==
    LET req == importing[i] IN
    /\ req.pc = "item"
    /\ req.staged = Batch(i)
    /\ memory' = [m \in Memories |-> IF m \in req.staged
                                     THEN InsertedRow(req.agent, TRUE, req.batch[m])
                                     ELSE memory[m]]
    /\ children' = children \cup UNION {InsertedChildren(m, req.batch[m]) : m \in req.staged}
    /\ importing' = [importing EXCEPT ![i] = IdleImport]
    /\ UNCHANGED <<claimed, policy, gap, publishing, removing, rating, reading>>

CommitImport(i) ==
    LET req == importing[i] IN
    /\ req.pc = "item"
    /\ req.staged = Batch(i)
    /\ memory' = [m \in Memories |-> IF m \in req.staged
                                     THEN InsertedRow(req.agent, req.auto, req.batch[m])
                                     ELSE memory[m]]
    /\ children' = children \cup UNION {InsertedChildren(m, req.batch[m]) : m \in req.staged}
    /\ importing' = [importing EXCEPT ![i] = IdleImport]
    /\ UNCHANGED <<claimed, policy, gap, publishing, removing, rating, reading>>

DropImport(i) ==
    /\ importing[i].pc # "idle"
    /\ importing' = [importing EXCEPT ![i] = IdleImport]
    /\ UNCHANGED <<tables, publishing, removing, rating, reading>>

-----------------------------------------------------------------------------
(* publish_memory.                                                         *)

\* publish_memory for any signed-in developer.
BeginPublishUnowned(p, m) ==
    /\ publishing[p].pc = "idle"
    /\ memory[m].state = "live"
    /\ publishing' = [publishing EXCEPT ![p] = [pc |-> "update", target |-> m]]
    /\ UNCHANGED <<tables, importing, removing, rating, reading>>

\* The row is loaded, its owner and its removed_at are checked.
BeginPublish(p, m) ==
    /\ publishing[p].pc = "idle"
    /\ OwnerMayManage(m)
    /\ memory[m].state # "removed"
    /\ publishing' = [publishing EXCEPT ![p] = [pc |-> "update", target |-> m]]
    /\ UNCHANGED <<tables, importing, removing, rating, reading>>

\* An UPDATE that leaves publication_requested_at as it was.
UpdatePublishStillPending(p) ==
    LET m == publishing[p].target IN
    /\ publishing[p].pc = "update"
    /\ ~RowLocked(Removals, m)
    /\ memory' = [memory EXCEPT ![m].visibility = "public"]
    /\ publishing' = [publishing EXCEPT ![p] = IdlePublish]
    /\ UNCHANGED <<claimed, policy, gap, children, importing, removing, rating, reading>>

\* An UPDATE that takes a memory back which has been published before.
UpdatePublishBack(p) ==
    LET m == publishing[p].target IN
    /\ publishing[p].pc = "update"
    /\ ~RowLocked(Removals, m)
    /\ memory' = [memory EXCEPT ![m].requested = FALSE, ![m].visibility =
           IF @ = "public" THEN "developer_shared" ELSE "public"]
    /\ publishing' = [publishing EXCEPT ![p] = IdlePublish]
    /\ UNCHANGED <<claimed, policy, gap, children, importing, removing, rating, reading>>

\* The UPDATE names the row by id alone: it waits for the row's lock and does
\* not look at removed_at again.
UpdatePublish(p) ==
    LET m == publishing[p].target IN
    /\ publishing[p].pc = "update"
    /\ ~RowLocked(Removals, m)
    /\ memory' = [memory EXCEPT ![m].visibility = "public", ![m].requested = FALSE]
    /\ publishing' = [publishing EXCEPT ![p] = IdlePublish]
    /\ UNCHANGED <<claimed, policy, gap, children, importing, removing, rating, reading>>

DropPublish(p) ==
    /\ publishing[p].pc # "idle"
    /\ publishing' = [publishing EXCEPT ![p] = IdlePublish]
    /\ UNCHANGED <<tables, importing, removing, rating, reading>>

-----------------------------------------------------------------------------
(* remove_memory.                                                          *)

FirstTable == "memory_evidence"
\* A removal that skips the last of its tables.
AfterWithoutLinks ==
    [memory_evidence |-> "memory_feedback", memory_feedback |-> "memory_relations",
     memory_relations |-> "scrub", gap_memory_links |-> "scrub"]
After == [memory_evidence |-> "memory_feedback", memory_feedback |-> "memory_relations",
          memory_relations |-> "gap_memory_links", gap_memory_links |-> "scrub"]

\* A memory that was removed before is accepted again.
BeginRemove(d, m) ==
    /\ removing[d].pc = "idle"
    /\ OwnerMayManage(m)
    /\ removing' = [removing EXCEPT ![d] = [pc |-> FirstTable, target |-> m, cut |-> {}]]
    /\ UNCHANGED <<tables, importing, publishing, rating, reading>>

\* A DELETE on a connection of the pool in place of the transaction.
DeleteRowsAtOnce(d) ==
    LET rows == RowsOf(removing[d].pc, removing[d].target) IN
    /\ removing[d].pc \in Tables
    /\ children' = children \ rows
    /\ removing' = [removing EXCEPT ![d].pc = After[removing[d].pc]]
    /\ UNCHANGED <<claimed, policy, memory, gap, importing, publishing, rating, reading>>

\* One DELETE: it selects the rows committed before the statement began.
DeleteRows(d) ==
    LET rows == RowsOf(removing[d].pc, removing[d].target) IN
    /\ removing[d].pc \in Tables
    /\ ~ChildLocked(Removals \ {d}, rows)
    /\ removing' = [removing EXCEPT ![d].pc = After[removing[d].pc], ![d].cut = @ \cup rows]
    /\ UNCHANGED <<tables, importing, publishing, rating, reading>>

\* The UPDATE that overwrites the content and sets removed_at.
ScrubRow(d) ==
    /\ removing[d].pc = "scrub"
    /\ ~RowLocked(Removals \ {d}, removing[d].target)
    /\ removing' = [removing EXCEPT ![d].pc = "commit"]
    /\ UNCHANGED <<tables, importing, publishing, rating, reading>>

CommitRemove(d) ==
    /\ removing[d].pc = "commit"
    /\ memory' = [memory EXCEPT ![removing[d].target].state = "removed"]
    /\ children' = children \ removing[d].cut
    /\ removing' = [removing EXCEPT ![d] = IdleRemove]
    /\ UNCHANGED <<claimed, policy, gap, importing, publishing, rating, reading>>

DropRemove(d) ==
    /\ removing[d].pc # "idle"
    /\ removing' = [removing EXCEPT ![d] = IdleRemove]
    /\ UNCHANGED <<tables, importing, publishing, rating, reading>>

-----------------------------------------------------------------------------
(* create_feedback.                                                        *)

\* The row is loaded, and refused if removed, before the caller is known.  A
\* developer has to own its workspace.
BeginDeveloperRate(f, m) ==
    /\ rating[f].pc = "idle"
    /\ OwnerMayManage(m)
    /\ memory[m].state # "removed"
    /\ rating' = [rating EXCEPT ![f] =
           [pc |-> "insert", source |-> "human", agent |-> NoAgent, target |-> m]]
    /\ UNCHANGED <<tables, importing, publishing, removing, reading>>

\* An agent goes on to can_read_memory, which loads the row again.
BeginAgentRate(f, m, a) ==
    /\ rating[f].pc = "idle"
    /\ memory[m].state = "live"
    /\ rating' = [rating EXCEPT ![f] =
           [pc |-> "check", source |-> "agent", agent |-> a, target |-> m]]
    /\ UNCHANGED <<tables, importing, publishing, removing, reading>>

\* Without can_read_memory.
CheckRateOfAny(f) ==
    /\ rating[f].pc = "check"
    /\ rating' = [rating EXCEPT ![f].pc = "insert"]
    /\ UNCHANGED <<tables, importing, publishing, removing, reading>>

CheckRate(f) ==
    /\ rating[f].pc = "check"
    /\ CanReadMemory(rating[f].target, AgentPrincipal(rating[f].agent))
    /\ rating' = [rating EXCEPT ![f].pc = "insert"]
    /\ UNCHANGED <<tables, importing, publishing, removing, reading>>

InsertRate(f) ==
    /\ rating[f].pc = "insert"
    /\ children' = children \cup {FeedbackRow(rating[f].target, rating[f].source)}
    /\ rating' = [rating EXCEPT ![f] = IdleRate]
    /\ UNCHANGED <<claimed, policy, memory, gap, importing, publishing, removing, reading>>

DropRate(f) ==
    /\ rating[f].pc # "idle"
    /\ rating' = [rating EXCEPT ![f] = IdleRate]
    /\ UNCHANGED <<tables, importing, publishing, removing, reading>>

-----------------------------------------------------------------------------
(* get_memory.                                                             *)

\* The callers there are: a developer reads the workspace it claimed.
Callers == {AgentPrincipal(a) : a \in Agents} \cup {Anonymous}
               \cup {DeveloperPrincipal({w}) : w \in claimed}

BeginRead(r, p, m) ==
    /\ reading[r].pc = "idle"
    /\ CanReadMemory(m, p)
    /\ reading' = [reading EXCEPT ![r] =
           [pc |-> "checked", principal |-> p, target |-> m, counted |-> FALSE]]
    /\ UNCHANGED <<tables, importing, publishing, removing, rating>>

\* fetch_memory_summaries without its removed_at IS NULL.
FetchSummaryOfAny(r) ==
    /\ reading[r].pc = "checked"
    /\ reading' = [reading EXCEPT ![r].pc = "served",
                                  ![r].counted = EvidenceRow(reading[r].target) \in children]
    /\ UNCHANGED <<tables, importing, publishing, removing, rating>>

\* fetch_memory_summaries: the content, with the number of evidence rows; it
\* does not ask for the visibility again, only for removed_at IS NULL.
FetchSummary(r) ==
    /\ reading[r].pc = "checked"
    /\ memory[reading[r].target].state = "live"
    /\ reading' = [reading EXCEPT ![r].pc = "served",
                                  ![r].counted = EvidenceRow(reading[r].target) \in children]
    /\ UNCHANGED <<tables, importing, publishing, removing, rating>>

\* The evidence, the relations and the backlinks; then the answer goes out.
FetchDetails(r) ==
    /\ reading[r].pc = "served"
    /\ reading' = [reading EXCEPT ![r] = IdleRead]
    /\ UNCHANGED <<tables, importing, publishing, removing, rating>>

DropRead(r) ==
    /\ reading[r].pc = "checked"
    /\ reading' = [reading EXCEPT ![r] = IdleRead]
    /\ UNCHANGED <<tables, importing, publishing, removing, rating>>

-----------------------------------------------------------------------------
ImportStep(i) ==
    \/ \E a \in Agents, ids \in SUBSET Memories :
           \E batch \in [ids -> Inputs] : BeginImport(i, a, batch)
    \/ \E m \in Memories : StartItem(i, m)
    \/ \E t \in Memories : CheckRelation(i, t)
    \/ StageItem(i)
    \/ CommitImport(i)
    \/ DropImport(i)

PublishStep(p) ==
    \/ \E m \in Memories : BeginPublish(p, m)
    \/ UpdatePublish(p)
    \/ DropPublish(p)

RemoveStep(d) ==
    \/ \E m \in Memories : BeginRemove(d, m)
    \/ DeleteRows(d)
    \/ ScrubRow(d)
    \/ CommitRemove(d)
    \/ DropRemove(d)

RateStep(f) ==
    \/ \E m \in Memories : BeginDeveloperRate(f, m)
    \/ \E m \in Memories, a \in Agents : BeginAgentRate(f, m, a)
    \/ CheckRate(f)
    \/ InsertRate(f)
    \/ DropRate(f)

ReadStep(r) ==
    \/ \E p \in Callers, m \in Memories : BeginRead(r, p, m)
    \/ FetchSummary(r)
    \/ FetchDetails(r)
    \/ DropRead(r)

Next ==
    \/ \E w \in Workspaces : Claim(w)
    \/ \E w \in Workspaces, p \in Policies : UpdatePolicy(w, p)
    \/ \E a \in Agents, g \in Gaps, v \in Visibilities : CreateGap(a, g, v)
    \/ \E i \in Imports : ImportStep(i)
    \/ \E p \in Publications : PublishStep(p)
    \/ \E d \in Removals : RemoveStep(d)
    \/ \E f \in Ratings : RateStep(f)
    \/ \E r \in Reads : ReadStep(r)

Spec == Init /\ [][Next]_vars

-----------------------------------------------------------------------------
(* Type invariant.                                                         *)

\* Every table and every request in flight holds what its columns and locals can.
TypeOK ==
    /\ claimed \subseteq Workspaces
    /\ policy \in [Workspaces -> Policies]
    /\ memory \in [Memories -> MemoryRows]
    /\ gap \in [Gaps -> GapRows]
    /\ children \subseteq ChildRows
    /\ importing \in [Imports -> ImportStates]
    /\ publishing \in [Publications -> PublishStates]
    /\ removing \in [Removals -> RemoveStates]
    /\ rating \in [Ratings -> RateStates]
    /\ reading \in [Reads -> ReadStates]

-----------------------------------------------------------------------------
(* Safety.                                                                 *)

\* A check that let a caller go on to use memory m: the caller may still read m, or
\* m has been removed since.
StillReadable(m, p) == memory[m].state = "removed" \/ CanReadMemory(m, p)

\* The relations an import has checked so far.
Checked(i) ==
    {t \in Memories :
        \/ \E m \in importing[i].staged : t \in importing[i].batch[m].relations
        \/ /\ importing[i].pc = "check"
           /\ t \in importing[i].batch[importing[i].item].relations \ importing[i].unchecked}

\* Every handler checks in one statement what it relies on in a later one, and other
\* handlers run in between.  The owner it found is still the owner, the policy "auto"
\* it found belongs to a claimed workspace, and a memory it found readable is
\* readable still, but for a removal.
ChecksHold ==
    /\ \A i \in Imports :
          importing[i].pc # "idle" =>
              /\ importing[i].auto => WorkspaceOf[importing[i].agent] \in claimed
              /\ \A t \in Checked(i) : StillReadable(t, AgentPrincipal(importing[i].agent))
    /\ \A p \in Publications : publishing[p].pc # "idle" => OwnerMayManage(publishing[p].target)
    /\ \A d \in Removals : removing[d].pc # "idle" => OwnerMayManage(removing[d].target)
    /\ \A f \in Ratings :
          rating[f].pc = "insert" =>
              IF rating[f].source = "human" THEN OwnerMayManage(rating[f].target)
              ELSE StillReadable(rating[f].target, AgentPrincipal(rating[f].agent))
    /\ \A r \in Reads :
          reading[r].pc # "idle" => StillReadable(reading[r].target, reading[r].principal)

\* The rows that only the transaction that writes a memory inserts: its
\* evidence, its own relations and its gap links.
OwnRows(m) == {c \in children : c.memory = m /\ c.table # "memory_feedback"}

\* A removed memory keeps no evidence, no relation of its own and no gap link,
\* whichever requests were under way: remove_memory deletes them in the
\* transaction that sets removed_at, and nothing can put them back.
RemovedIsStripped == \A m \in Memories : memory[m].state = "removed" => OwnRows(m) = {}

\* A memory is public only in a workspace that a developer has claimed: both ways
\* to the public, request_public under the policy "auto" and publish_memory, pass
\* by the owner.
PublicHasOwner ==
    \A m \in Memories : memory[m].visibility = "public" => WorkspaceOf[memory[m].author] \in claimed

\* A memory that waits for its owner's decision is readable by the workspace: it
\* has not been published already, and it is not hidden from the other agents.
PendingIsShared ==
    \A m \in Memories : memory[m].requested => memory[m].visibility = "developer_shared"

\* get_memory answers with the content of a row it selects after, and apart from,
\* the statement that checked the access: the caller may still read that row then.
ServedIsReadable ==
    [][\A r \in Reads :
          reading[r].pc = "checked" /\ reading'[r].pc = "served"
              => CanReadMemory(reading[r].target, reading[r].principal)]_vars

\* The rule in Rust that guards a memory and the rules in SQL that list and find it
\* say the same of every row there is and every caller there is.
EveryCopyAgrees ==
    \A m \in Memories, p \in Callers :
        memory[m].state # "absent" => CopiesAgree(AccessRow(memory[m]), p)

\* Unless the memory is removed in between, the evidence get_memory selects last
\* is what the summary selected before has counted.
EvidenceMatchesSummary ==
    \A r \in Reads :
        reading[r].pc = "served" /\ memory[reading[r].target].state = "live"
            => (EvidenceRow(reading[r].target) \in children <=> reading[r].counted)

\* The step in which the INSERT of an agent's feedback takes effect.
InsertsAgentFeedback(f) ==
    /\ rating[f].source = "agent"
    /\ rating[f].pc = "insert" /\ rating'[f].pc = "idle"
    /\ FeedbackRow(rating[f].target, "agent") \in children' \ children

\* Feedback and relations are inserted on the strength of a can_read_memory that ran
\* some statements before.  By then the author of the new row may still read the
\* memory it is about, or the memory has been removed: no other change in between
\* makes the check stale.
OnlyRemovalMakesChecksStale ==
    [][/\ \A m, t \in Memories :
             RelationRow(m, t) \in children' \ children
                 => \/ memory[t].state = "removed"
                    \/ CanReadMemory(t, AgentPrincipal(memory'[m].author))
       /\ \A f \in Ratings :
             InsertsAgentFeedback(f)
                 => \/ memory[rating[f].target].state = "removed"
                    \/ CanReadMemory(rating[f].target, AgentPrincipal(rating[f].agent))]_vars

\* import_memories is all or nothing: the step that makes one memory of a batch
\* visible makes all of them visible, and a batch that fails leaves no row.
ImportIsAtomic ==
    [][\A i \in Imports :
          (\E m \in Batch(i) : memory'[m].state # "absent")
              => \A m \in Batch(i) : memory'[m].state = "live"]_vars

-----------------------------------------------------------------------------
(* The inductive invariant behind the safety properties.                   *)

\* The ids of a request whose visibility insert_memory has accepted.
Accepted(i) ==
    importing[i].staged \cup (IF importing[i].pc = "check" THEN {importing[i].item} ELSE {})

\* An import in flight has a caller, and the ids it will insert are its own: no row
\* and no other request has them.
ImportsOK ==
    \A i \in Imports :
        /\ importing[i].pc = "idle" => importing[i] = IdleImport
        /\ importing[i].pc # "idle" => importing[i].agent \in Agents
        /\ Accepted(i) \subseteq Batch(i)
        /\ \A m \in Accepted(i) : importing[i].batch[m].visibility # "public"
        /\ \A m \in Batch(i) : memory[m].state = "absent"
        /\ \A j \in Imports \ {i} : Batch(i) \cap Batch(j) = {}

\* Every other request in flight has a target that exists.
Exists(m) == m \in Memories /\ memory[m].state # "absent"
TargetsOK ==
    /\ \A p \in Publications : publishing[p].pc # "idle" => Exists(publishing[p].target)
    /\ \A d \in Removals : removing[d].pc # "idle" => Exists(removing[d].target)
    /\ \A f \in Ratings :
          rating[f].pc # "idle" =>
              /\ Exists(rating[f].target)
              /\ rating[f].pc = "check" => rating[f].source = "agent"
              /\ rating[f].source = "agent" => rating[f].agent \in Agents
    /\ \A r \in Reads : reading[r].pc # "idle" => Exists(reading[r].target)

\* A row that exists has an author; one that does not has nothing hanging off it.
RowsOK ==
    \A m \in Memories :
        /\ memory[m].state # "absent" => memory[m].author \in Agents
        /\ memory[m].state = "absent" => memory[m] = NoMemoryRow /\ OwnRows(m) = {}

\* The tables a removal has been through.
Emptied(pc) ==
    CASE pc = "memory_feedback"   -> {"memory_evidence"}
      [] pc = "memory_relations"  -> {"memory_evidence", "memory_feedback"}
      [] pc = "gap_memory_links"  -> {"memory_evidence", "memory_feedback", "memory_relations"}
      [] pc \in {"scrub", "commit"} -> Tables
      [] OTHER                    -> {}

\* A removal holds the rows of its own target only, and of the tables it has been
\* through all that the writer of the memory inserted.
RemovalsOK ==
    \A d \in Removals :
        /\ \A c \in removing[d].cut : Refers(c, removing[d].target)
        /\ \A c \in OwnRows(removing[d].target) :
              c.table \in Emptied(removing[d].pc) => c \in removing[d].cut

\* All of it holds together, and no step of any handler leaves it.
IInv ==
    /\ TypeOK
    /\ ImportsOK
    /\ TargetsOK
    /\ RowsOK
    /\ RemovalsOK
    /\ ChecksHold
    /\ RemovedIsStripped
    /\ PublicHasOwner
    /\ PendingIsShared
    /\ EvidenceMatchesSummary

-----------------------------------------------------------------------------
(* The promise to clients, as module Lifecycle states it.                  *)

NoWorkspace == NoAgent

LifeOf(row) == IF row.state = "live" THEN row.visibility ELSE row.state
HomeOf(row) == IF row.state = "absent" THEN NoWorkspace ELSE WorkspaceOf[row.author]

Promise == INSTANCE Lifecycle WITH
    life <- [m \in Memories |-> LifeOf(memory[m])],
    home <- [m \in Memories |-> HomeOf(memory[m])],
    owned <- claimed

\* Every run of the handlers is a run of Lifecycle: the audience of a memory only
\* widens, and no publication, import or rating brings a removed memory back.
KeepsPromise == Promise!Spec

-----------------------------------------------------------------------------
(* What the texts of the repository say, and the code does not keep.       *)

\* "A removed memory cannot be made public" (the error text of publish_memory).
RemovedNeverPublished ==
    [][\A m \in Memories :
          memory[m].state = "removed" /\ memory[m].visibility # "public"
              => memory'[m].visibility # "public"]_vars

\* What is left of a removed memory is a record without content: no feedback text.
RemovedHasNoFeedback ==
    \A m \in Memories, source \in {"agent", "human"} :
        memory[m].state = "removed" => FeedbackRow(m, source) \notin children
=============================================================================
