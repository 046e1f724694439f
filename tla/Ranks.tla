-------------------------------- MODULE Ranks --------------------------------
(***************************************************************************)
(* merge_ranks: how a search merges the ids its two channels found, each   *)
(* list best first, into one.  An id scores 1 / (RRF_K + rank) in every    *)
(* list that has it; the highest sum comes first, and equal sums are       *)
(* ordered by id, so that the order in which a HashMap gives its entries   *)
(* does not show.  Scores are fractions here; on the ranks that the lists  *)
(* of the server have, 1 to 20, two different sums differ by far more than *)
(* f64 rounds, and equal sums have the same terms.                         *)
(***************************************************************************)
EXTENDS Naturals, FiniteSets

CONSTANTS
    RRF_K,          \* 60
    Candidates      \* SEARCH_CANDIDATES, the most ids a channel finds: 20

ASSUME RanksAssumption ==
    /\ RRF_K \in Nat
    /\ Candidates \in Nat
    /\ Candidates <= RRF_K + 1

\* The rank of an id in a list, from 1 on; 0 when the list does not have it.
Absent == 0
Places == 0 .. Candidates
Rank(list, id) ==
    IF \E i \in DOMAIN list : list[i] = id
    THEN CHOOSE i \in DOMAIN list : list[i] = id
    ELSE Absent

\* What a list adds to the score of the id it has at a rank.
ShareOfRankAlone(rank) ==
    IF rank = Absent THEN [num |-> 0, den |-> 1] ELSE [num |-> 1, den |-> rank]

Share(rank) ==
    IF rank = Absent THEN [num |-> 0, den |-> 1] ELSE [num |-> 1, den |-> RRF_K + rank]

\* A score that overwrites what the other list has added.
ScoreOfLast(lexical, semantic) ==
    IF semantic = Absent THEN Share(lexical) ELSE Share(semantic)

Score(lexical, semantic) ==
    LET x == Share(lexical)
        y == Share(semantic)
    IN  [num |-> x.num * y.den + y.num * x.den, den |-> x.den * y.den]

Above(x, y) == x.num * y.den > y.num * x.den

ScoreOf(lexical, semantic, id) == Score(Rank(lexical, id), Rank(semantic, id))

\* A sort that leaves equal sums as the HashMap gave them.
PrecedesByScore(lexical, semantic, a, b) ==
    Above(ScoreOf(lexical, semantic, a), ScoreOf(lexical, semantic, b))

\* The comparison of sort_by.
Precedes(lexical, semantic, a, b) ==
    LET x == ScoreOf(lexical, semantic, a)
        y == ScoreOf(lexical, semantic, b)
    IN  Above(x, y) \/ (~Above(y, x) /\ a < b)

Ids(lexical, semantic) ==
    {lexical[i] : i \in DOMAIN lexical} \cup {semantic[i] : i \in DOMAIN semantic}

\* How many ids the sort puts before one.
Before(lexical, semantic, id) ==
    Cardinality({other \in Ids(lexical, semantic) : Precedes(lexical, semantic, other, id)})

\* The ids of both lists in the order of Precedes, cut at limit.
MergeRanks(lexical, semantic, limit) ==
    LET ids == Ids(lexical, semantic)
        length == IF limit < Cardinality(ids) THEN limit ELSE Cardinality(ids)
    IN  [place \in 1 .. length |->
            CHOOSE id \in ids : Before(lexical, semantic, id) = place - 1]

-----------------------------------------------------------------------------
\* An id that stands at ranks (i, j) is found no worse by either list than one at
\* (k, l), and better by one of them.
NoWorse(i, k) == k = Absent \/ (i # Absent /\ i <= k)
Dominates(i, j, k, l) == NoWorse(i, k) /\ NoWorse(j, l) /\ <<i, j>> # <<k, l>>
=============================================================================
