------------------------------ MODULE RankLists ------------------------------
(***************************************************************************)
(* The lists that merge_ranks merges: each channel finds memories one      *)
(* after the other, none of them twice, and no more than its LIMIT; and    *)
(* what a search makes of them.                                            *)
(***************************************************************************)
EXTENDS Ranks, Sequences

CONSTANTS
    Memories,       \* ids, which the sort compares
    Limits          \* limits of the searches: 1 .. 20

ASSUME RankListsAssumption ==
    /\ Memories \subseteq Nat
    /\ Limits \subseteq Nat

VARIABLES lexical, semantic, limit

lists == <<lexical, semantic, limit>>

ListsInit == lexical = <<>> /\ semantic = <<>> /\ limit \in Limits

FindLexical(id) ==
    /\ Len(lexical) < Candidates
    /\ Rank(lexical, id) = Absent
    /\ lexical' = Append(lexical, id)
    /\ UNCHANGED <<semantic, limit>>

FindSemantic(id) ==
    /\ Len(semantic) < Candidates
    /\ Rank(semantic, id) = Absent
    /\ semantic' = Append(semantic, id)
    /\ UNCHANGED <<lexical, limit>>

ListsNext == \E id \in Memories : FindLexical(id) \/ FindSemantic(id)

ListsSpec == ListsInit /\ [][ListsNext]_lists

Merged == MergeRanks(lexical, semantic, limit)
Shown == {Merged[i] : i \in DOMAIN Merged}
Found(list) == {list[i] : i \in DOMAIN list}

-----------------------------------------------------------------------------
\* The comparison is a strict total order on the ids found, so that the sort shows each
\* once and nothing of the order in which the HashMap gave them.
OrderIsTotal ==
    \A a, b, c \in Ids(lexical, semantic) :
        /\ a # b => (Precedes(lexical, semantic, a, b) <=> ~Precedes(lexical, semantic, b, a))
        /\ ~Precedes(lexical, semantic, a, a)
        /\ Precedes(lexical, semantic, a, b) /\ Precedes(lexical, semantic, b, c)
              => Precedes(lexical, semantic, a, c)

\* A memory that both channels found is shown before every memory that one channel
\* alone found, however good its only rank is.
BothChannelsFirst ==
    \A a \in Found(lexical) \cap Found(semantic), b \in Shown :
        b \notin Found(lexical) \cap Found(semantic)
            => a \in Shown /\ Rank(Merged, a) < Rank(Merged, b)

\* A memory that neither channel ranks lower than another, and one ranks higher, is
\* shown before it.
BetterRanksFirst ==
    \A a \in Ids(lexical, semantic), b \in Shown :
        Dominates(Rank(lexical, a), Rank(semantic, a), Rank(lexical, b), Rank(semantic, b))
            => a \in Shown /\ Rank(Merged, a) < Rank(Merged, b)
=============================================================================
