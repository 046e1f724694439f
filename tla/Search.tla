-------------------------------- MODULE Search --------------------------------
(***************************************************************************)
(* The two handlers that find memories for a caller who does not know      *)
(* their ids: search, and get_gap, which lists what was written for a gap. *)
(* Both collect ids in one statement after another, each over the tables   *)
(* of its own moment, and at last select the content of what they have     *)
(* collected with a statement that asks for no access any more             *)
(* (fetch_memory_summaries).  They run beside the handlers of Memories.    *)
(*                                                                         *)
(* What a channel finds relevant, and in what order, is data: here it is   *)
(* any of the rows that its WHERE lets the caller see.  Whether            *)
(* embed_with_breaker answers with a vector is a choice here as well;      *)
(* module EmbedBreaker says when it does.                                  *)
(***************************************************************************)
EXTENDS Memories, Ranks

CONSTANTS
    Searches,       \* slots of search
    Openings,       \* slots of get_gap
    Limits,         \* limits of the searches: 1 .. 20
    GapCandidates   \* the most gaps related_gaps_for_query looks at: 5

ASSUME LimitsAssumption == Limits \subseteq Nat \ {0}
ASSUME GapCandidatesAssumption == GapCandidates \in Nat

VARIABLES searching, opening

found == <<searching, opening>>
svars == <<claimed, policy, memory, gap, children,
           importing, publishing, removing, rating, reading, searching, opening>>

-----------------------------------------------------------------------------
(* What the statements select.                                             *)

\* A channel whose WHERE has lost its visibility clauses.
SelectedOfAll(p) == {m \in Memories : memory[m].state = "live"}

\* The visibility clauses of the two channels, which are those of LINK_READABLE.
Selected(p) ==
    {m \in Memories : /\ memory[m].state # "absent"
                      /\ SelectedBySql(AccessRow(memory[m]), ReadScope(p))}
SelectedGaps(p) ==
    {g \in Gaps : /\ gap[g].state # "absent"
                  /\ SelectedBySql(AccessRow(gap[g]), ReadScope(p))}

Linked(g) == {m \in Memories : LinkRow(m, g) \in children}

\* A count of links that asks nothing of the memories they lead to.
SolvedForAnyone(g, p) == Linked(g) # {}

\* LINK_READABLE > 0: the gap has a solution that the caller sees.
Solved(g, p) == Linked(g) \cap Selected(p) # {}

\* Lists of ids, best first and without repetitions, as long as a channel's LIMIT.
MemoryLists == UNION {[1 .. n -> Memories] : n \in 0 .. Candidates}
Lists(ids) ==
    {list \in UNION {[1 .. n -> ids] : n \in 0 .. Candidates} :
        \A i, j \in DOMAIN list : i # j => list[i] # list[j]}

-----------------------------------------------------------------------------
(* Requests in flight.                                                     *)

SearchStates == [pc: {"idle", "semantic", "gaps", "links", "summaries", "served"},
                 principal: Principals, limit: Limits \cup {0},
                 lexical: MemoryLists, semantic: MemoryLists,
                 hits: SUBSET Gaps, related: SUBSET Gaps, items: SUBSET Memories]
OpenStates == [pc: {"idle", "filter", "summaries", "served"}, principal: Principals,
               ids: SUBSET Memories, items: SUBSET Memories]

IdleSearch == [pc |-> "idle", principal |-> Anonymous, limit |-> 0,
               lexical |-> << >>, semantic |-> << >>,
               hits |-> {}, related |-> {}, items |-> {}]
IdleOpen == [pc |-> "idle", principal |-> Anonymous, ids |-> {}, items |-> {}]

SInit ==
    /\ Init
    /\ searching = [s \in Searches |-> IdleSearch]
    /\ opening = [o \in Openings |-> IdleOpen]

-----------------------------------------------------------------------------
(* search.                                                                 *)

\* The caller is resolved, and lexical_candidates runs.
BeginSearch(s, p, limit, list) ==
    /\ searching[s].pc = "idle"
    /\ list \in Lists(Selected(p))
    /\ searching' = [searching EXCEPT ![s] =
           [IdleSearch EXCEPT !.pc = "semantic", !.principal = p, !.limit = limit,
                              !.lexical = list]]
    /\ UNCHANGED <<vars, opening>>

\* embed_with_breaker has a vector after at most the timeout of the http client,
\* and semantic_candidates runs.
FetchSemantic(s, list) ==
    /\ searching[s].pc = "semantic"
    /\ list \in Lists(Selected(searching[s].principal))
    /\ searching' = [searching EXCEPT ![s].pc = "gaps", ![s].semantic = list]
    /\ UNCHANGED <<vars, opening>>

\* It has none: no semantic channel and no related gaps.
SkipSemantic(s) ==
    /\ searching[s].pc = "semantic"
    /\ searching' = [searching EXCEPT ![s].pc = "summaries"]
    /\ UNCHANGED <<vars, opening>>

\* gap_semantic_candidates.
FetchGaps(s, hits) ==
    /\ searching[s].pc = "gaps"
    /\ hits \subseteq SelectedGaps(searching[s].principal)
    /\ Cardinality(hits) <= GapCandidates
    /\ searching' = [searching EXCEPT
           ![s].pc = IF hits = {} THEN "summaries" ELSE "links", ![s].hits = hits]
    /\ UNCHANGED <<vars, opening>>

\* The second statement of related_gaps_for_query, and its filter.
FetchLinks(s) ==
    /\ searching[s].pc = "links"
    /\ searching' = [searching EXCEPT
           ![s].pc = "summaries",
           ![s].related = {g \in searching[s].hits : Solved(g, searching[s].principal)}]
    /\ UNCHANGED <<vars, opening>>

\* The first `limit` of the merged ids.  Their order is the matter of Ranks.
Merged(r) == {m \in Ids(r.lexical, r.semantic) : Before(r.lexical, r.semantic, m) < r.limit}

\* fetch_memory_summaries without its removed_at IS NULL.
FetchSummariesOfAny(s) ==
    /\ searching[s].pc = "summaries"
    /\ searching' = [searching EXCEPT ![s].pc = "served", ![s].items = Merged(searching[s])]
    /\ UNCHANGED <<vars, opening>>

\* fetch_memory_summaries asks for removed_at IS NULL, and for no visibility.
FetchSummaries(s) ==
    /\ searching[s].pc = "summaries"
    /\ searching' = [searching EXCEPT
           ![s].pc = "served",
           ![s].items = {m \in Merged(searching[s]) : memory[m].state = "live"}]
    /\ UNCHANGED <<vars, opening>>

\* The answer goes out, or the client has gone away before.
EndSearch(s) ==
    /\ searching[s].pc # "idle"
    /\ searching' = [searching EXCEPT ![s] = IdleSearch]
    /\ UNCHANGED <<vars, opening>>

-----------------------------------------------------------------------------
(* get_gap.                                                                *)

\* The caller may read the gap, and its links are selected.  (The gap itself never
\* changes, so that the three statements see the same of it.)
BeginOpen(o, p, g) ==
    /\ opening[o].pc = "idle"
    /\ gap[g].state # "absent"
    /\ CanReadRowPrincipal(AccessRow(gap[g]), p)
    /\ opening' = [opening EXCEPT ![o] =
           [IdleOpen EXCEPT !.pc = "filter", !.principal = p, !.ids = Linked(g)]]
    /\ UNCHANGED <<vars, searching>>

\* The access rows of the linked memories, and the filter over them.
FilterReadable(o) ==
    /\ opening[o].pc = "filter"
    /\ opening' = [opening EXCEPT
           ![o].pc = "summaries",
           ![o].ids = {m \in @ : CanReadMemory(m, opening[o].principal)}]
    /\ UNCHANGED <<vars, searching>>

FetchLinked(o) ==
    /\ opening[o].pc = "summaries"
    /\ opening' = [opening EXCEPT
           ![o].pc = "served",
           ![o].items = {m \in opening[o].ids : memory[m].state = "live"}]
    /\ UNCHANGED <<vars, searching>>

EndOpen(o) ==
    /\ opening[o].pc # "idle"
    /\ opening' = [opening EXCEPT ![o] = IdleOpen]
    /\ UNCHANGED <<vars, searching>>

-----------------------------------------------------------------------------
SearchStep(s) ==
    \/ \E p \in Callers, limit \in Limits :
           \E list \in Lists(Selected(p)) : BeginSearch(s, p, limit, list)
    \/ \E list \in Lists(Selected(searching[s].principal)) : FetchSemantic(s, list)
    \/ SkipSemantic(s)
    \/ \E hits \in SUBSET Gaps : FetchGaps(s, hits)
    \/ FetchLinks(s)
    \/ FetchSummaries(s)
    \/ EndSearch(s)

OpenStep(o) ==
    \/ \E p \in Callers, g \in Gaps : BeginOpen(o, p, g)
    \/ FilterReadable(o)
    \/ FetchLinked(o)
    \/ EndOpen(o)

SNext ==
    \/ Next /\ UNCHANGED found
    \/ \E s \in Searches : SearchStep(s)
    \/ \E o \in Openings : OpenStep(o)

SSpec == SInit /\ [][SNext]_svars

-----------------------------------------------------------------------------
(* Safety.                                                                 *)

\* What was readable when an id was found stays so until the memory is removed; that
\* is what lets the handlers select the content without another look at the access.
ReadableUntilRemoved ==
    [][\A m \in Memories, p \in Callers :
          CanReadMemory(m, p) => CanReadMemory(m, p)' \/ memory'[m].state = "removed"]_svars

\* A search and a gap show the content of memories that their caller may read at the
\* moment the content is selected, however long ago their ids were found.
FoundIsReadable ==
    [][/\ \A s \in Searches :
             searching[s].pc = "summaries" /\ searching'[s].pc = "served"
                 => \A m \in searching'[s].items : CanReadMemory(m, searching[s].principal)
       /\ \A o \in Openings :
             opening[o].pc = "summaries" /\ opening'[o].pc = "served"
                 => \A m \in opening'[o].items : CanReadMemory(m, opening[o].principal)]_svars

\* A related gap is one that get_gap would open for the caller, and it would list a
\* memory for it ("related_gaps holds closed gaps only, those with a solution visible
\* to the caller"): the count in SQL and the filter in Rust decide alike.
RelatedGapsAreClosed ==
    [][\A s \in Searches :
          searching[s].pc = "links" /\ searching'[s].pc = "summaries"
              => \A g \in searching'[s].related :
                    /\ CanReadRowPrincipal(AccessRow(gap[g]), searching[s].principal)
                    /\ \E m \in Linked(g) : CanReadMemory(m, searching[s].principal)]_svars

-----------------------------------------------------------------------------
(* The inductive invariant.                                                *)

SearchTypeOK ==
    /\ searching \in [Searches -> SearchStates]
    /\ opening \in [Openings -> OpenStates]

\* Every id and every gap in the hands of a request was readable to its caller, and
\* no change but a removal has passed since.
HeldBySearch(r) ==
    /\ \A m \in Ids(r.lexical, r.semantic) : StillReadable(m, r.principal)
    /\ \A g \in r.hits : gap[g].state # "absent" /\ CanReadRowPrincipal(AccessRow(gap[g]), r.principal)
HeldByOpening(r) ==
    r.pc \in {"summaries", "served"} => \A m \in r.ids : StillReadable(m, r.principal)

FoundOK ==
    /\ \A s \in Searches : HeldBySearch(searching[s])
    /\ \A o \in Openings : HeldByOpening(opening[o])

SearchIInv == IInv /\ SearchTypeOK /\ FoundOK
=============================================================================
