---------------------------- MODULE SearchProofs ----------------------------
(***************************************************************************)
(* Theorems about Search for every number of searches, openings, memories  *)
(* and gaps.  They rest on what MemoriesProofs shows of the handlers that  *)
(* write: no change but a removal takes a memory away from a reader.       *)
(***************************************************************************)
EXTENDS Search, MemoriesProofs

-----------------------------------------------------------------------------
(* The handlers of Memories run below as they do in Memories.              *)

LEMMA StepBelow == [SNext]_svars => [Next]_vars
BY DEF SNext, SearchStep, OpenStep, BeginSearch, FetchSemantic, SkipSemantic, FetchGaps,
       FetchLinks, FetchSummaries, EndSearch, BeginOpen, FilterReadable, FetchLinked, EndOpen,
       svars, vars

\* Whatever is shown of Memories holds while searches run.
LEMMA SpecBelow == SSpec => Spec
<1>1. SInit => Init
  BY DEF SInit
<1> QED
  BY <1>1, StepBelow, PTL DEF SSpec, Spec

\* The tables stand still while a search or an opening takes a step.
LEMMA Frames ==
    ASSUME [SNext]_svars
    PROVE  \/ [Next]_vars /\ UNCHANGED found
           \/ \E s \in Searches : SearchStep(s) /\ UNCHANGED <<vars, opening>>
           \/ \E o \in Openings : OpenStep(o) /\ UNCHANGED <<vars, searching>>
BY DEF SNext, SearchStep, OpenStep, BeginSearch, FetchSemantic, SkipSemantic, FetchGaps,
       FetchLinks, FetchSummaries, EndSearch, BeginOpen, FilterReadable, FetchLinked, EndOpen,
       svars, vars, found

-----------------------------------------------------------------------------
(* Types.                                                                  *)

LEMMA EmptyList == << >> \in MemoryLists
<1>1. << >> \in [1 .. 0 -> Memories]
  OBVIOUS
<1>2. 0 \in 0 .. Candidates
  BY RanksAssumption
<1> QED
  BY <1>1, <1>2 DEF MemoryLists

LEMMA ListsOfSelected ==
    ASSUME NEW p, NEW list \in Lists(Selected(p))
    PROVE  /\ list \in MemoryLists
           /\ \A i \in DOMAIN list : list[i] \in Selected(p)
<1>1. PICK n \in 0 .. Candidates : list \in [1 .. n -> Selected(p)]
  BY DEF Lists
<1>2. Selected(p) \subseteq Memories
  BY DEF Selected
<1>3. list \in [1 .. n -> Memories]
  BY <1>1, <1>2
<1> QED
  BY <1>1, <1>3 DEF MemoryLists

LEMMA IdleFoundTypes == IdleSearch \in SearchStates /\ IdleOpen \in OpenStates
BY EmptyList DEF IdleSearch, IdleOpen, SearchStates, OpenStates, Principals, Anonymous

LEMMA CallersArePrincipals == claimed \subseteq Workspaces => Callers \subseteq Principals
BY DEF Callers, Principals

LEMMA MergedTypes ==
    ASSUME NEW r \in SearchStates
    PROVE  Merged(r) \subseteq Ids(r.lexical, r.semantic) /\ Ids(r.lexical, r.semantic) \subseteq Memories
<1>1. ASSUME NEW list \in MemoryLists, NEW i \in DOMAIN list PROVE list[i] \in Memories
  BY <1>1 DEF MemoryLists
<1> QED
  BY <1>1 DEF Merged, Ids, SearchStates

LEMMA SearchTypeStep ==
    ASSUME TypeOK, SearchTypeOK, NEW s \in Searches, SearchStep(s)
    PROVE  searching' \in [Searches -> SearchStates]
<1> USE DEF SearchTypeOK
<1>1. ASSUME NEW p \in Callers, NEW limit \in Limits, NEW list \in Lists(Selected(p)),
             BeginSearch(s, p, limit, list)
      PROVE  searching' \in [Searches -> SearchStates]
  <2>1. p \in Principals /\ list \in MemoryLists
    BY CallersArePrincipals, ListsOfSelected DEF TypeOK
  <2>2. IdleSearch \in SearchStates
    BY IdleFoundTypes
  <2>3. [IdleSearch EXCEPT !.pc = "semantic", !.principal = p, !.limit = limit,
                           !.lexical = list] \in SearchStates
    BY <2>1, <2>2 DEF SearchStates
  <2> QED
    BY <1>1, <2>3 DEF BeginSearch
<1>2. ASSUME NEW list \in Lists(Selected(searching[s].principal)), FetchSemantic(s, list)
      PROVE  searching' \in [Searches -> SearchStates]
  <2>1. searching[s] \in SearchStates /\ list \in MemoryLists
    BY <1>2, ListsOfSelected
  <2>2. [searching[s] EXCEPT !.pc = "gaps", !.semantic = list] \in SearchStates
    BY <2>1 DEF SearchStates
  <2> QED
    BY <1>2, <2>2 DEF FetchSemantic
<1>3. CASE SkipSemantic(s)
  <2>1. [searching[s] EXCEPT !.pc = "summaries"] \in SearchStates
    BY DEF SearchStates
  <2> QED
    BY <1>3, <2>1 DEF SkipSemantic
<1>4. ASSUME NEW hits \in SUBSET Gaps, FetchGaps(s, hits)
      PROVE  searching' \in [Searches -> SearchStates]
  <2>1. [searching[s] EXCEPT !.pc = IF hits = {} THEN "summaries" ELSE "links",
                             !.hits = hits] \in SearchStates
    BY DEF SearchStates
  <2> QED
    BY <1>4, <2>1 DEF FetchGaps
<1>5. CASE FetchLinks(s)
  <2>1. {g \in searching[s].hits : Solved(g, searching[s].principal)} \in SUBSET Gaps
    BY DEF SearchStates
  <2>2. [searching[s] EXCEPT
             !.pc = "summaries",
             !.related = {g \in searching[s].hits : Solved(g, searching[s].principal)}]
            \in SearchStates
    BY <2>1 DEF SearchStates
  <2> QED
    BY <1>5, <2>2 DEF FetchLinks
<1>6. CASE FetchSummaries(s)
  <2>1. {m \in Merged(searching[s]) : memory[m].state = "live"} \in SUBSET Memories
    BY MergedTypes
  <2>2. [searching[s] EXCEPT
             !.pc = "served",
             !.items = {m \in Merged(searching[s]) : memory[m].state = "live"}] \in SearchStates
    BY <2>1 DEF SearchStates
  <2> QED
    BY <1>6, <2>2 DEF FetchSummaries
<1>7. CASE EndSearch(s)
  BY <1>7, IdleFoundTypes DEF EndSearch
<1> QED
  BY <1>1, <1>2, <1>3, <1>4, <1>5, <1>6, <1>7 DEF SearchStep

LEMMA OpenTypeStep ==
    ASSUME TypeOK, SearchTypeOK, NEW o \in Openings, OpenStep(o)
    PROVE  opening' \in [Openings -> OpenStates]
<1> USE DEF SearchTypeOK
<1>1. ASSUME NEW p \in Callers, NEW g \in Gaps, BeginOpen(o, p, g)
      PROVE  opening' \in [Openings -> OpenStates]
  <2>1. p \in Principals /\ Linked(g) \subseteq Memories
    BY CallersArePrincipals DEF TypeOK, Linked
  <2>2. [IdleOpen EXCEPT !.pc = "filter", !.principal = p, !.ids = Linked(g)] \in OpenStates
    BY <2>1 DEF IdleOpen, OpenStates
  <2> QED
    BY <1>1, <2>2 DEF BeginOpen
<1>2. CASE FilterReadable(o)
  BY <1>2 DEF FilterReadable, OpenStates
<1>3. CASE FetchLinked(o)
  BY <1>3 DEF FetchLinked, OpenStates
<1>4. CASE EndOpen(o)
  BY <1>4, IdleFoundTypes DEF EndOpen
<1> QED
  BY <1>1, <1>2, <1>3, <1>4 DEF OpenStep

\* A step of one slot leaves the others alone.
LEMMA OtherSearches ==
    ASSUME SearchTypeOK, NEW s \in Searches, SearchStep(s), NEW x \in Searches, x # s
    PROVE  searching'[x] = searching[x]
BY DEF SearchTypeOK, SearchStep, BeginSearch, FetchSemantic, SkipSemantic, FetchGaps, FetchLinks,
       FetchSummaries, EndSearch

LEMMA OtherOpenings ==
    ASSUME SearchTypeOK, NEW o \in Openings, OpenStep(o), NEW x \in Openings, x # o
    PROVE  opening'[x] = opening[x]
BY DEF SearchTypeOK, OpenStep, BeginOpen, FilterReadable, FetchLinked, EndOpen

-----------------------------------------------------------------------------
(* What was found stays readable.                                          *)

LEMMA GapStays ==
    ASSUME TypeOK, [Next]_vars, NEW g \in Gaps, gap[g].state # "absent"
    PROVE  gap'[g] = gap[g]
<1>1. ASSUME NEW a \in Agents, NEW h \in Gaps, NEW v \in Visibilities, CreateGap(a, h, v)
      PROVE  gap'[g] = gap[g]
  BY <1>1 DEF CreateGap, TypeOK
<1>2. CASE \A a \in Agents, h \in Gaps, v \in Visibilities : ~CreateGap(a, h, v)
  <2>1. gap' = gap
    BY <1>2 DEF Next, vars, tables, requests, Claim, UpdatePolicy, ImportStep, BeginImport, StartItem,
       CheckRelation, StageItem, CommitImport, DropImport, PublishStep, BeginPublish, UpdatePublish,
       DropPublish, RemoveStep, BeginRemove, DeleteRows, ScrubRow, CommitRemove, DropRemove,
       RateStep, BeginDeveloperRate, BeginAgentRate, CheckRate, InsertRate, DropRate, ReadStep,
       BeginRead, FetchSummary, FetchDetails, DropRead
  <2> QED
    BY <2>1
<1> QED
  BY <1>1, <1>2

LEMMA SearchHeldThroughout ==
    ASSUME IInv, [Next]_vars, NEW r \in SearchStates, HeldBySearch(r)
    PROVE  HeldBySearch(r)'
<1>1. ASSUME NEW m \in Ids(r.lexical, r.semantic) PROVE StillReadable(m, r.principal)'
  BY <1>1, MergedTypes, StepWrites, ReadableThroughout DEF HeldBySearch
<1>2. ASSUME NEW g \in r.hits
      PROVE  (gap[g].state # "absent" /\ CanReadRowPrincipal(AccessRow(gap[g]), r.principal))'
  <2>1. g \in Gaps /\ gap[g].state # "absent" /\ CanReadRowPrincipal(AccessRow(gap[g]), r.principal)
    BY <1>2 DEF HeldBySearch, SearchStates
  <2>2. gap'[g] = gap[g]
    BY <2>1, GapStays DEF IInv
  <2> QED
    BY <2>1, <2>2 DEF CanReadRowPrincipal, AccessRow, AgentReaches
<1> QED
  BY <1>1, <1>2 DEF HeldBySearch

LEMMA OpeningHeldThroughout ==
    ASSUME IInv, [Next]_vars, NEW r \in OpenStates, HeldByOpening(r)
    PROVE  HeldByOpening(r)'
BY StepWrites, ReadableThroughout DEF HeldByOpening, OpenStates

-----------------------------------------------------------------------------
(* What a statement selects may be read.                                   *)

LEMMA SqlImpliesRust ==
    ASSUME NEW row, NEW p \in Principals, SelectedBySql(row, ReadScope(p))
    PROVE  CanReadRowPrincipal(row, p)
<1> USE DEF SelectedBySql, CanReadRowPrincipal, AgentReaches, ReadScope
<1>1. ASSUME NEW a \in Agents, p = AgentPrincipal(a) PROVE CanReadRowPrincipal(row, p)
  BY <1>1 DEF AgentPrincipal
<1>2. ASSUME NEW owned \in SUBSET Workspaces, p = DeveloperPrincipal(owned)
      PROVE  CanReadRowPrincipal(row, p)
  BY <1>2 DEF DeveloperPrincipal
<1>3. CASE p = Anonymous
  BY <1>3 DEF Anonymous
<1> QED
  BY <1>1, <1>2, <1>3 DEF Principals

LEMMA SelectedIsReadable ==
    ASSUME NEW p \in Principals
    PROVE  /\ \A m \in Selected(p) : CanReadMemory(m, p)
           /\ \A g \in SelectedGaps(p) :
                 gap[g].state # "absent" /\ CanReadRowPrincipal(AccessRow(gap[g]), p)
BY SqlImpliesRust DEF Selected, SelectedGaps, CanReadMemory

LEMMA HeldAfterSearchStep ==
    ASSUME TypeOK, SearchTypeOK, FoundOK, NEW s \in Searches, SearchStep(s)
    PROVE  HeldBySearch(searching'[s])
<1> USE DEF SearchTypeOK
<1>0. searching[s] \in SearchStates /\ HeldBySearch(searching[s])
  BY DEF FoundOK
<1>1. ASSUME NEW p \in Callers, NEW limit \in Limits, NEW list \in Lists(Selected(p)),
             BeginSearch(s, p, limit, list)
      PROVE  HeldBySearch(searching'[s])
  <2>1. p \in Principals /\ \A i \in DOMAIN list : list[i] \in Selected(p)
    BY CallersArePrincipals, ListsOfSelected DEF TypeOK
  <2>2. searching'[s].lexical = list /\ searching'[s].semantic = << >>
        /\ searching'[s].hits = {} /\ searching'[s].principal = p
    BY <1>1 DEF BeginSearch, IdleSearch
  <2>3. \A m \in Ids(list, << >>) : m \in Selected(p)
    BY <2>1 DEF Ids
  <2> QED
    BY <2>1, <2>2, <2>3, SelectedIsReadable DEF HeldBySearch, StillReadable
<1>2. ASSUME NEW list \in Lists(Selected(searching[s].principal)), FetchSemantic(s, list)
      PROVE  HeldBySearch(searching'[s])
  <2> DEFINE p == searching[s].principal
  <2>1. p \in Principals /\ \A i \in DOMAIN list : list[i] \in Selected(p)
    BY <1>0, ListsOfSelected DEF SearchStates
  <2>2. searching'[s] = [searching[s] EXCEPT !.pc = "gaps", !.semantic = list]
    BY <1>2 DEF FetchSemantic
  <2>3. /\ searching'[s].lexical = searching[s].lexical /\ searching'[s].semantic = list
        /\ searching'[s].hits = searching[s].hits /\ searching'[s].principal = p
    BY <1>0, <2>2 DEF SearchStates
  <2>4. \A m \in Ids(searching[s].lexical, list) :
            m \in Ids(searching[s].lexical, searching[s].semantic) \/ m \in Selected(p)
    BY <2>1 DEF Ids
  <2> QED
    BY <1>0, <2>1, <2>3, <2>4, SelectedIsReadable DEF HeldBySearch, StillReadable
<1>3. ASSUME NEW hits \in SUBSET Gaps, FetchGaps(s, hits) PROVE HeldBySearch(searching'[s])
  <2>1. /\ searching'[s].lexical = searching[s].lexical
        /\ searching'[s].semantic = searching[s].semantic
        /\ searching'[s].hits = hits /\ searching'[s].principal = searching[s].principal
    BY <1>0, <1>3 DEF FetchGaps, SearchStates
  <2>2. hits \subseteq SelectedGaps(searching[s].principal)
    BY <1>3 DEF FetchGaps
  <2> QED
    BY <1>0, <2>1, <2>2, SelectedIsReadable DEF HeldBySearch, SearchStates
<1>4. CASE SkipSemantic(s) \/ FetchLinks(s) \/ FetchSummaries(s)
  <2>1. /\ searching'[s].lexical = searching[s].lexical
        /\ searching'[s].semantic = searching[s].semantic
        /\ searching'[s].hits = searching[s].hits
        /\ searching'[s].principal = searching[s].principal
    BY <1>0, <1>4 DEF SkipSemantic, FetchLinks, FetchSummaries, SearchStates
  <2> QED
    BY <1>0, <2>1 DEF HeldBySearch
<1>5. CASE EndSearch(s)
  <2>1. searching'[s] = IdleSearch
    BY <1>5 DEF EndSearch
  <2> QED
    BY <2>1 DEF HeldBySearch, IdleSearch, Ids
<1> QED
  BY <1>1, <1>2, <1>3, <1>4, <1>5 DEF SearchStep

LEMMA HeldAfterOpenStep ==
    ASSUME SearchTypeOK, FoundOK, NEW o \in Openings, OpenStep(o)
    PROVE  HeldByOpening(opening'[o])
<1> USE DEF SearchTypeOK
<1>0. opening[o] \in OpenStates /\ HeldByOpening(opening[o])
  BY DEF FoundOK
<1>1. ASSUME NEW p \in Callers, NEW g \in Gaps, BeginOpen(o, p, g)
      PROVE  HeldByOpening(opening'[o])
  BY <1>1 DEF BeginOpen, IdleOpen, HeldByOpening
<1>2. CASE FilterReadable(o)
  BY <1>0, <1>2 DEF FilterReadable, HeldByOpening, StillReadable, OpenStates
<1>3. CASE FetchLinked(o)
  BY <1>0, <1>3 DEF FetchLinked, HeldByOpening, OpenStates
<1>4. CASE EndOpen(o)
  BY <1>4 DEF EndOpen, IdleOpen, HeldByOpening
<1> QED
  BY <1>1, <1>2, <1>3, <1>4 DEF OpenStep

-----------------------------------------------------------------------------
(* The invariant.                                                          *)

LEMMA InitSearchInv == SInit => SearchIInv
<1> SUFFICES ASSUME SInit PROVE SearchIInv
  OBVIOUS
<1>1. IInv
  BY InitInv DEF SInit
<1>2. SearchTypeOK
  BY IdleFoundTypes DEF SInit, SearchTypeOK
<1>3. FoundOK
  BY DEF SInit, FoundOK, HeldBySearch, HeldByOpening, IdleSearch, IdleOpen, Ids
<1> QED
  BY <1>1, <1>2, <1>3 DEF SearchIInv

LEMMA StepSearchInv == SearchIInv /\ [SNext]_svars => SearchIInv'
<1> SUFFICES ASSUME SearchIInv, [SNext]_svars PROVE SearchIInv'
  OBVIOUS
<1>0. IInv /\ TypeOK /\ SearchTypeOK /\ FoundOK /\ IInv'
  BY StepBelow, StepInv DEF SearchIInv, IInv
<1>1. CASE [Next]_vars /\ UNCHANGED found
  <2>1. SearchTypeOK'
    BY <1>0, <1>1 DEF SearchTypeOK, found
  <2>2. ASSUME NEW s \in Searches PROVE HeldBySearch(searching[s])'
    <3>1. searching[s] \in SearchStates /\ HeldBySearch(searching[s])
      BY <1>0 DEF SearchTypeOK, FoundOK
    <3>2. searching' = searching
      BY <1>1 DEF found
    <3> DEFINE r == searching[s]
    <3>3. HeldBySearch(r)'
      BY <1>0, <1>1, <3>1, <3>2, SearchHeldThroughout DEF HeldBySearch
    <3> QED
      BY <3>3
  <2>3. ASSUME NEW o \in Openings PROVE HeldByOpening(opening[o])'
    <3>1. opening[o] \in OpenStates /\ HeldByOpening(opening[o])
      BY <1>0 DEF SearchTypeOK, FoundOK
    <3> QED
      BY <1>0, <1>1, <3>1, OpeningHeldThroughout DEF HeldByOpening, found
  <2> QED
    BY <1>0, <2>1, <2>2, <2>3 DEF SearchIInv, FoundOK
<1>2. ASSUME NEW s \in Searches, SearchStep(s), UNCHANGED <<vars, opening>> PROVE SearchIInv'
  <2>1. SearchTypeOK'
    BY <1>0, <1>2, SearchTypeStep DEF SearchTypeOK
  <2>2. ASSUME NEW x \in Searches PROVE HeldBySearch(searching[x])'
    <3>1. HeldBySearch(searching'[x])
      <4>1. CASE x = s
        BY <1>0, <1>2, <4>1, HeldAfterSearchStep
      <4>2. CASE x # s
        <5>1. searching'[x] = searching[x]
          BY <1>0, <1>2, <4>2, OtherSearches
        <5> QED
          BY <1>0, <5>1 DEF FoundOK
      <4> QED
        BY <4>1, <4>2
    <3> QED
      BY <1>2, <3>1 DEF HeldBySearch, StillReadable, CanReadMemory, CanReadRowPrincipal,
                        AgentReaches, AccessRow, vars
  <2>3. ASSUME NEW o \in Openings PROVE HeldByOpening(opening[o])'
    BY <1>0, <1>2 DEF FoundOK, HeldByOpening, StillReadable, CanReadMemory, CanReadRowPrincipal,
                      AgentReaches, AccessRow, vars
  <2> QED
    BY <1>0, <2>1, <2>2, <2>3 DEF SearchIInv, FoundOK
<1>3. ASSUME NEW o \in Openings, OpenStep(o), UNCHANGED <<vars, searching>> PROVE SearchIInv'
  <2>1. SearchTypeOK'
    BY <1>0, <1>3, OpenTypeStep DEF SearchTypeOK
  <2>2. ASSUME NEW s \in Searches PROVE HeldBySearch(searching[s])'
    BY <1>0, <1>3 DEF FoundOK, HeldBySearch, StillReadable, CanReadMemory, CanReadRowPrincipal,
                      AgentReaches, AccessRow, vars
  <2>3. ASSUME NEW x \in Openings PROVE HeldByOpening(opening[x])'
    <3>1. HeldByOpening(opening'[x])
      <4>1. CASE x = o
        BY <1>0, <1>3, <4>1, HeldAfterOpenStep
      <4>2. CASE x # o
        <5>1. opening'[x] = opening[x]
          BY <1>0, <1>3, <4>2, OtherOpenings
        <5> QED
          BY <1>0, <5>1 DEF FoundOK
      <4> QED
        BY <4>1, <4>2
    <3> QED
      BY <1>3, <3>1 DEF HeldByOpening, StillReadable, CanReadMemory, CanReadRowPrincipal,
                        AgentReaches, AccessRow, vars
  <2> QED
    BY <1>0, <2>1, <2>2, <2>3 DEF SearchIInv, FoundOK
<1> QED
  BY <1>1, <1>2, <1>3, Frames

\* What a search or an opening holds in its hands was readable to its caller when it
\* was found, and no change but a removal has passed since.
THEOREM SearchInvariance == SSpec => []SearchIInv
BY InitSearchInv, StepSearchInv, PTL DEF SSpec

-----------------------------------------------------------------------------
(* What a step may never do.                                               *)

LEMMA KeepStep ==
    ASSUME IInv, [Next]_vars, NEW m \in Memories, NEW p, CanReadMemory(m, p)
    PROVE  CanReadMemory(m, p)' \/ memory'[m].state = "removed"
<1>1. StillReadable(m, p)
  BY DEF StillReadable
<1>2. StillReadable(m, p)'
  BY <1>1, StepWrites, ReadableThroughout
<1> QED
  BY <1>2 DEF StillReadable

\* Nothing but its removal takes a memory away from one who could read it.
THEOREM ReadersKeep == SSpec => ReadableUntilRemoved
<1>1. IInv /\ [SNext]_svars =>
          [\A m \in Memories, p \in Callers :
              CanReadMemory(m, p) => CanReadMemory(m, p)' \/ memory'[m].state = "removed"]_svars
  BY StepBelow, KeepStep
<1> QED
  BY <1>1, Invariance, SpecBelow, PTL DEF SSpec, ReadableUntilRemoved

LEMMA SearchServedStep ==
    ASSUME SearchIInv, [SNext]_svars, NEW s \in Searches,
           searching[s].pc = "summaries", searching'[s].pc = "served",
           NEW m \in searching'[s].items
    PROVE  CanReadMemory(m, searching[s].principal)
<1>0. searching \in [Searches -> SearchStates] /\ HeldBySearch(searching[s])
  BY DEF SearchIInv, SearchTypeOK, FoundOK
<1>1. SearchStep(s)
  <2>1. searching' # searching
    OBVIOUS
  <2>2. PICK t \in Searches : SearchStep(t)
    BY <2>1, Frames DEF found
  <2>3. t = s
    BY <1>0, <2>2, OtherSearches DEF SearchIInv
  <2> QED
    BY <2>2, <2>3
<1>2. FetchSummaries(s)
  BY <1>0, <1>1 DEF SearchStep, BeginSearch, FetchSemantic, SkipSemantic, FetchGaps, FetchLinks,
                    EndSearch, IdleSearch
<1>3. m \in Merged(searching[s]) /\ memory[m].state = "live"
  BY <1>0, <1>2 DEF FetchSummaries, SearchStates
<1>4. StillReadable(m, searching[s].principal)
  BY <1>0, <1>3, MergedTypes DEF HeldBySearch
<1> QED
  BY <1>3, <1>4 DEF StillReadable

LEMMA OpeningServedStep ==
    ASSUME SearchIInv, [SNext]_svars, NEW o \in Openings,
           opening[o].pc = "summaries", opening'[o].pc = "served",
           NEW m \in opening'[o].items
    PROVE  CanReadMemory(m, opening[o].principal)
<1>0. opening \in [Openings -> OpenStates] /\ HeldByOpening(opening[o])
  BY DEF SearchIInv, SearchTypeOK, FoundOK
<1>1. OpenStep(o)
  <2>1. opening' # opening
    OBVIOUS
  <2>2. PICK x \in Openings : OpenStep(x)
    BY <2>1, Frames DEF found
  <2>3. x = o
    BY <1>0, <2>2, OtherOpenings DEF SearchIInv
  <2> QED
    BY <2>2, <2>3
<1>2. FetchLinked(o)
  BY <1>0, <1>1 DEF OpenStep, BeginOpen, FilterReadable, EndOpen, IdleOpen
<1>3. m \in opening[o].ids /\ memory[m].state = "live"
  BY <1>0, <1>2 DEF FetchLinked, OpenStates
<1> QED
  BY <1>0, <1>3 DEF HeldByOpening, StillReadable

\* The content a search or get_gap selects is of memories that their caller may read
\* at that moment, although only ids were checked, in earlier statements.
THEOREM FoundReadable == SSpec => FoundIsReadable
<1>1. SearchIInv /\ [SNext]_svars =>
          [/\ \A s \in Searches :
                 searching[s].pc = "summaries" /\ searching'[s].pc = "served"
                     => \A m \in searching'[s].items : CanReadMemory(m, searching[s].principal)
           /\ \A o \in Openings :
                 opening[o].pc = "summaries" /\ opening'[o].pc = "served"
                     => \A m \in opening'[o].items : CanReadMemory(m, opening[o].principal)]_svars
  BY SearchServedStep, OpeningServedStep
<1> QED
  BY <1>1, SearchInvariance, PTL DEF SSpec, FoundIsReadable

LEMMA RelatedStep ==
    ASSUME SearchIInv, [SNext]_svars, NEW s \in Searches,
           searching[s].pc = "links", searching'[s].pc = "summaries",
           NEW g \in searching'[s].related
    PROVE  /\ CanReadRowPrincipal(AccessRow(gap[g]), searching[s].principal)
           /\ \E m \in Linked(g) : CanReadMemory(m, searching[s].principal)
<1>0. searching \in [Searches -> SearchStates] /\ HeldBySearch(searching[s])
  BY DEF SearchIInv, SearchTypeOK, FoundOK
<1>1. SearchStep(s)
  <2>1. searching' # searching
    OBVIOUS
  <2>2. PICK t \in Searches : SearchStep(t)
    BY <2>1, Frames DEF found
  <2>3. t = s
    BY <1>0, <2>2, OtherSearches DEF SearchIInv
  <2> QED
    BY <2>2, <2>3
<1>2. FetchLinks(s)
  BY <1>0, <1>1 DEF SearchStep, BeginSearch, FetchSemantic, SkipSemantic, FetchGaps,
                    FetchSummaries, EndSearch, IdleSearch
<1>3. g \in searching[s].hits /\ Solved(g, searching[s].principal)
  BY <1>0, <1>2 DEF FetchLinks, SearchStates
<1>4. searching[s].principal \in Principals
  BY <1>0 DEF SearchStates
<1> QED
  BY <1>0, <1>3, <1>4, SelectedIsReadable DEF HeldBySearch, Solved

\* The gaps a search calls related are open to its caller, and each has a memory that
\* its caller may read.
THEOREM RelatedClosed == SSpec => RelatedGapsAreClosed
<1>1. SearchIInv /\ [SNext]_svars =>
          [\A s \in Searches :
              searching[s].pc = "links" /\ searching'[s].pc = "summaries"
                  => \A g \in searching'[s].related :
                        /\ CanReadRowPrincipal(AccessRow(gap[g]), searching[s].principal)
                        /\ \E m \in Linked(g) : CanReadMemory(m, searching[s].principal)]_svars
  BY RelatedStep
<1> QED
  BY <1>1, SearchInvariance, PTL DEF SSpec, RelatedGapsAreClosed

=============================================================================
