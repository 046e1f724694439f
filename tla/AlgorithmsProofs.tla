--------------------------- MODULE AlgorithmsProofs ---------------------------
(***************************************************************************)
(* The order of merged search results, for every RRF_K and every number of *)
(* candidates up to RRF_K + 1, and that the sort and its cut show them in  *)
(* that order; that a request is counted for its sender, and that networks *)
(* are trusted by their prefix, for any widths of addresses, any networks  *)
(* and any number of proxies.                                              *)
(***************************************************************************)
EXTENDS RankLists, ClientIp, FiniteSetTheorems, TLAPS

-----------------------------------------------------------------------------
(* merge_ranks.                                                            *)

USE RanksAssumption DEF RanksAssumption

\* Products of positive numbers keep the order of their factors.
LEMMA TimesKeepsOrder ==
    ASSUME NEW a \in Nat, NEW b \in Nat, NEW c \in Nat, a <= b
    PROVE  a * c <= b * c
<1>1. PICK d \in Nat : b = a + d
    <2>1. b - a \in Nat /\ b = a + (b - a)
        OBVIOUS
    <2> QED BY <2>1
<1>2. b * c = a * c + d * c
    BY <1>1, SMT
<1>3. a * c \in Nat /\ d * c \in Nat
    BY SMT
<1> QED BY <1>2, <1>3

\* Two shares of at least 1 / (2 * k - 1) sum up to more than 1 / k does.
LEMMA HarmonicMean ==
    ASSUME NEW k \in Nat \ {0}, NEW x \in Nat \ {0}, NEW y \in Nat \ {0},
           x < 2 * k, y < 2 * k
    PROVE  x * y < (x + y) * k
<1>1. x * y <= (2 * k - 1) * y /\ y * x <= (2 * k - 1) * x
    <2>1. 2 * k - 1 \in Nat /\ x <= 2 * k - 1 /\ y <= 2 * k - 1
        OBVIOUS
    <2> QED BY <2>1, TimesKeepsOrder
<1>2. (2 * k - 1) * y + (2 * k - 1) * x = 2 * ((x + y) * k) - (x + y)
    BY SMT
<1>3. x * y = y * x /\ x * y \in Nat /\ (x + y) * k \in Nat
    BY SMT
<1>4. (2 * k - 1) * y \in Int /\ (2 * k - 1) * x \in Int
    BY SMT
<1> QED BY <1>1, <1>2, <1>3, <1>4

\* A memory that both channels found, at whatever ranks, scores higher than one that
\* a single channel found: RRF_K outweighs the length of the lists.
THEOREM BothChannelsScoreMore ==
    ASSUME NEW i \in 1 .. Candidates, NEW j \in 1 .. Candidates, NEW k \in 1 .. Candidates
    PROVE  /\ Above(Score(i, j), Score(k, Absent))
           /\ Above(Score(i, j), Score(Absent, k))
<1> DEFINE x == RRF_K + i
           y == RRF_K + j
           z == RRF_K + k
<1>1. /\ x \in Nat \ {0} /\ y \in Nat \ {0} /\ z \in Nat \ {0}
      /\ x < 2 * z /\ y < 2 * z
    OBVIOUS
<1>2. /\ Score(i, j) = [num |-> 1 * y + 1 * x, den |-> x * y]
      /\ Score(k, Absent) = [num |-> 1 * 1 + 0 * z, den |-> z * 1]
      /\ Score(Absent, k) = [num |-> 0 * z + 1 * 1, den |-> 1 * z]
    BY DEF Score, Share, Absent
<1> HIDE DEF x, y, z
<1>3. x * y < (x + y) * z
    BY <1>1, HarmonicMean
<1>4. /\ 1 * y + 1 * x = x + y /\ 1 * 1 + 0 * z = 1 /\ z * 1 = z
      /\ 0 * z + 1 * 1 = 1 /\ 1 * z = z /\ 1 * (x * y) = x * y
      /\ x * y \in Nat /\ (x + y) * z \in Nat
    BY <1>1, SMT
<1> QED BY <1>2, <1>3, <1>4 DEF Above

\* Fractions add up in order.
LEMMA SumsKeepOrder ==
    ASSUME NEW n1 \in Nat, NEW d1 \in Nat \ {0}, NEW m1 \in Nat, NEW e1 \in Nat \ {0},
           NEW n2 \in Nat, NEW d2 \in Nat \ {0}, NEW m2 \in Nat, NEW e2 \in Nat \ {0},
           n1 * e1 >= m1 * d1, n2 * e2 >= m2 * d2,
           n1 * e1 > m1 * d1 \/ n2 * e2 > m2 * d2
    PROVE  (n1 * d2 + n2 * d1) * (e1 * e2) > (m1 * e2 + m2 * e1) * (d1 * d2)
<1> DEFINE p == n1 * e1    q == m1 * d1    g == d2 * e2
           r == n2 * e2    t == m2 * d2    h == d1 * e1
<1>1. /\ (n1 * d2 + n2 * d1) * (e1 * e2) = p * g + r * h
      /\ (m1 * e2 + m2 * e1) * (d1 * d2) = q * g + t * h
    BY SMT
<1>2. p \in Nat /\ q \in Nat /\ r \in Nat /\ t \in Nat
    BY SMT
<1>3. g \in Nat \ {0} /\ h \in Nat \ {0}
    BY SMT
<1>4. p >= q /\ r >= t /\ (p > q \/ r > t)
    OBVIOUS
<1> HIDE DEF p, q, g, r, t, h
<1>5. q * g <= p * g /\ t * h <= r * h
    BY <1>2, <1>3, <1>4, TimesKeepsOrder
<1>6. p > q => q * g + g <= p * g
    <2>1. (q + 1) * g = q * g + g
        BY <1>2, <1>3, SMT
    <2>2. p > q => q + 1 <= p /\ q + 1 \in Nat
        BY <1>2
    <2> QED BY <1>2, <1>3, <2>1, <2>2, TimesKeepsOrder
<1>7. r > t => t * h + h <= r * h
    <2>1. (t + 1) * h = t * h + h
        BY <1>2, <1>3, SMT
    <2>2. r > t => t + 1 <= r /\ t + 1 \in Nat
        BY <1>2
    <2> QED BY <1>2, <1>3, <2>1, <2>2, TimesKeepsOrder
<1>8. p * g \in Nat /\ q * g \in Nat /\ r * h \in Nat /\ t * h \in Nat
    BY <1>2, <1>3, SMT
<1>9. p * g + r * h > q * g + t * h
    BY <1>3, <1>4, <1>5, <1>6, <1>7, <1>8
<1> QED BY <1>1, <1>9

\* A rank that is no worse has no smaller a share, and a better one a larger share.
LEMMA ShareFollowsRank ==
    ASSUME NEW i \in Places, NEW k \in Places, NoWorse(i, k)
    PROVE  /\ Share(i).num \in Nat /\ Share(i).den \in Nat \ {0}
           /\ Share(k).num \in Nat /\ Share(k).den \in Nat \ {0}
           /\ Share(i).num * Share(k).den >= Share(k).num * Share(i).den
           /\ i # k => Share(i).num * Share(k).den > Share(k).num * Share(i).den
<1>1. CASE k = Absent
    <2>1. Share(k) = [num |-> 0, den |-> 1]
        BY <1>1 DEF Share
    <2>2. CASE i = Absent
        BY <1>1, <2>1, <2>2
    <2>3. CASE i # Absent
        <3>1. Share(i) = [num |-> 1, den |-> RRF_K + i] /\ RRF_K + i \in Nat \ {0}
            BY <2>3 DEF Share, Places, Absent
        <3>2. 0 * (RRF_K + i) = 0
            BY <3>1, SMT
        <3> QED BY <2>1, <3>1, <3>2
    <2> QED BY <2>2, <2>3
<1>2. CASE k # Absent
    <2>1. i # Absent /\ i <= k
        BY <1>2 DEF NoWorse
    <2>2. /\ Share(i) = [num |-> 1, den |-> RRF_K + i] /\ RRF_K + i \in Nat \ {0}
          /\ Share(k) = [num |-> 1, den |-> RRF_K + k] /\ RRF_K + k \in Nat \ {0}
        BY <1>2, <2>1 DEF Share, Places, Absent
    <2>3. 1 * (RRF_K + i) = RRF_K + i /\ 1 * (RRF_K + k) = RRF_K + k
        BY <2>2
    <2>4. RRF_K + i <= RRF_K + k /\ (i # k => RRF_K + i < RRF_K + k)
        BY <2>1 DEF Places
    <2> QED BY <2>2, <2>3, <2>4
<1> QED BY <1>1, <1>2

\* A memory that no channel ranks lower than another, and one ranks higher, scores
\* higher: more relevance in one channel is never paid for in the sum.
THEOREM BetterRanksScoreMore ==
    ASSUME NEW i \in Places, NEW j \in Places, NEW k \in Places, NEW l \in Places,
           Dominates(i, j, k, l)
    PROVE  Above(Score(i, j), Score(k, l))
<1>1. NoWorse(i, k) /\ NoWorse(j, l) /\ (i # k \/ j # l)
    BY DEF Dominates
<1>2. /\ Share(i).num \in Nat /\ Share(i).den \in Nat \ {0}
      /\ Share(k).num \in Nat /\ Share(k).den \in Nat \ {0}
      /\ Share(i).num * Share(k).den >= Share(k).num * Share(i).den
      /\ i # k => Share(i).num * Share(k).den > Share(k).num * Share(i).den
    BY <1>1, ShareFollowsRank
<1>3. /\ Share(j).num \in Nat /\ Share(j).den \in Nat \ {0}
      /\ Share(l).num \in Nat /\ Share(l).den \in Nat \ {0}
      /\ Share(j).num * Share(l).den >= Share(l).num * Share(j).den
      /\ j # l => Share(j).num * Share(l).den > Share(l).num * Share(j).den
    BY <1>1, ShareFollowsRank
<1>4. (Share(i).num * Share(j).den + Share(j).num * Share(i).den) * (Share(k).den * Share(l).den)
        > (Share(k).num * Share(l).den + Share(l).num * Share(k).den) * (Share(i).den * Share(j).den)
    BY <1>1, <1>2, <1>3, SumsKeepOrder
<1> QED BY <1>4 DEF Above, Score

-----------------------------------------------------------------------------
(* The order of the sort.                                                  *)

\* A score is a fraction.
Fractions == [num : Nat, den : Nat \ {0}]

LEMMA ScoresAreFractions ==
    ASSUME NEW i \in Places, NEW j \in Places
    PROVE  Score(i, j) \in Fractions
<1>1. \A k \in Places : /\ Share(k).num \in Nat /\ Share(k).den \in Nat \ {0}
                        /\ Share(k).den \in Nat
    BY DEF Share, Places, Absent
<1>2. \A a, b, c, d \in Nat : a * b + c * d \in Nat
    BY SMT
<1>3. \A a, b \in Nat \ {0} : a * b \in Nat \ {0}
    BY SMT
<1> QED BY <1>1, <1>2, <1>3 DEF Score, Fractions

LEMMA AboveIsAsymmetric ==
    ASSUME NEW x \in Fractions, NEW y \in Fractions, Above(x, y)
    PROVE  ~ Above(y, x)
<1>1. x.num * y.den \in Nat /\ y.num * x.den \in Nat
    BY SMT DEF Fractions
<1> QED BY <1>1 DEF Above

\* What is not above y, which is not above z, is not above z.
LEMMA NotAboveIsTransitive ==
    ASSUME NEW x \in Fractions, NEW y \in Fractions, NEW z \in Fractions,
           ~ Above(x, y), ~ Above(y, z)
    PROVE  ~ Above(x, z)
<1>1. PICK a \in Nat, b \in Nat \ {0} : x.num = a /\ x.den = b
    BY DEF Fractions
<1>2. PICK c \in Nat, d \in Nat \ {0} : y.num = c /\ y.den = d
    BY DEF Fractions
<1>3. PICK e \in Nat, f \in Nat \ {0} : z.num = e /\ z.den = f
    BY DEF Fractions
<1>4. /\ a * d \in Nat /\ c * b \in Nat /\ c * f \in Nat /\ e * d \in Nat
      /\ a * f \in Nat /\ e * b \in Nat
    BY SMT
<1>5. a * d <= c * b /\ c * f <= e * d
    BY <1>1, <1>2, <1>3, <1>4 DEF Above
<1>6. (a * d) * f <= (c * b) * f /\ (c * f) * b <= (e * d) * b
    BY <1>4, <1>5, TimesKeepsOrder
<1>7. SUFFICES ASSUME a * f > e * b PROVE FALSE
    BY <1>1, <1>3, <1>4 DEF Above
<1>8. e * b + 1 <= a * f /\ e * b + 1 \in Nat
    BY <1>4, <1>7
<1>9. (e * b + 1) * d <= (a * f) * d
    BY <1>4, <1>8, TimesKeepsOrder
<1>10. /\ (e * b + 1) * d = (e * d) * b + d
       /\ (a * f) * d = (a * d) * f
       /\ (c * b) * f = (c * f) * b
    BY SMT
<1>11. /\ (e * d) * b \in Nat /\ (a * d) * f \in Nat /\ (c * f) * b \in Nat
    BY <1>4, SMT
<1> QED BY <1>6, <1>9, <1>10, <1>11

\* A channel has found each memory once, and no more of them than Candidates.
Ranking(list) ==
    /\ list \in Seq(Memories)
    /\ Len(list) <= Candidates
    /\ \A i, j \in DOMAIN list : list[i] = list[j] => i = j

ListsInv == Ranking(lexical) /\ Ranking(semantic) /\ limit \in Nat

LEMMA RankOfRanking ==
    ASSUME NEW list, Ranking(list), NEW id
    PROVE  /\ Rank(list, id) \in Places
           /\ Rank(list, id) # Absent <=> id \in Found(list)
           /\ Rank(list, id) # Absent =>
                 Rank(list, id) \in 1 .. Candidates /\ list[Rank(list, id)] = id
<1>1. /\ DOMAIN list = 1 .. Len(list) /\ Len(list) \in Nat /\ Len(list) <= Candidates
    BY DEF Ranking
<1>2. CASE \E i \in DOMAIN list : list[i] = id
    <2>1. Rank(list, id) \in DOMAIN list /\ list[Rank(list, id)] = id
        BY <1>2 DEF Rank
    <2> QED BY <1>1, <1>2, <2>1 DEF Places, Absent, Found
<1>3. CASE ~ \E i \in DOMAIN list : list[i] = id
    BY <1>3 DEF Rank, Places, Absent, Found
<1> QED BY <1>2, <1>3

LEMMA RankingGrows ==
    ASSUME NEW list, Ranking(list), NEW id \in Memories,
           Len(list) < Candidates, Rank(list, id) = Absent
    PROVE  Ranking(Append(list, id))
<1> DEFINE n == Len(list)
           new == Append(list, id)
<1>1. list \in Seq(Memories) /\ n \in Nat /\ DOMAIN list = 1 .. n
    BY DEF Ranking
<1>2. /\ new \in Seq(Memories) /\ Len(new) = n + 1 /\ DOMAIN new = 1 .. n + 1
      /\ \A i \in 1 .. n : new[i] = list[i]
      /\ new[n + 1] = id
    BY <1>1
<1>3. \A i \in 1 .. n : list[i] # id
    BY <1>1, RankOfRanking DEF Found
<1>4. \A i, j \in 1 .. n : list[i] = list[j] => i = j
    BY <1>1 DEF Ranking
<1> HIDE DEF new
<1>5. ASSUME NEW i \in 1 .. n + 1, NEW j \in 1 .. n + 1, new[i] = new[j]
      PROVE  i = j
    <2>1. \A k \in 1 .. n + 1 : k = n + 1 \/ k \in 1 .. n
        BY <1>1
    <2> QED BY <1>2, <1>3, <1>4, <1>5, <2>1
<1>6. Len(new) <= Candidates
    BY <1>1, <1>2
<1>7. Ranking(new)
    BY <1>2, <1>5, <1>6 DEF Ranking
<1> QED BY <1>7 DEF new

LEMMA ListsInitInv == ListsInit => ListsInv
<1>1. <<>> \in Seq(Memories) /\ Len(<<>>) = 0 /\ DOMAIN <<>> = {}
    OBVIOUS
<1> QED BY <1>1, RankListsAssumption DEF ListsInit, ListsInv, Ranking

LEMMA ListsNextInv == ListsInv /\ [ListsNext]_lists => ListsInv'
<1> SUFFICES ASSUME ListsInv, [ListsNext]_lists
             PROVE  ListsInv'
    OBVIOUS
<1>1. ASSUME NEW id \in Memories, FindLexical(id)
      PROVE  ListsInv'
    BY <1>1, RankingGrows DEF FindLexical, ListsInv
<1>2. ASSUME NEW id \in Memories, FindSemantic(id)
      PROVE  ListsInv'
    BY <1>2, RankingGrows DEF FindSemantic, ListsInv
<1>3. CASE UNCHANGED lists
    BY <1>3 DEF lists, ListsInv
<1> QED BY <1>1, <1>2, <1>3 DEF ListsNext

LEMMA ListsAlways == ListsSpec => []ListsInv
BY ListsInitInv, ListsNextInv, PTL DEF ListsSpec

LEMMA IdsAreFound ==
    ASSUME ListsInv
    PROVE  /\ Ids(lexical, semantic) = Found(lexical) \cup Found(semantic)
           /\ Ids(lexical, semantic) \subseteq Nat
           /\ \A a : ScoreOf(lexical, semantic, a) \in Fractions
<1>1. Ids(lexical, semantic) = Found(lexical) \cup Found(semantic)
    BY DEF Ids, Found
<1>2. Found(lexical) \subseteq Nat /\ Found(semantic) \subseteq Nat
    <2>1. ASSUME NEW list, Ranking(list) PROVE Found(list) \subseteq Memories
        <3>1. list \in [1 .. Len(list) -> Memories]
            BY <2>1 DEF Ranking
        <3> QED BY <3>1 DEF Found
    <2> QED BY <2>1, RankListsAssumption DEF ListsInv
<1>3. \A a : ScoreOf(lexical, semantic, a) \in Fractions
    BY RankOfRanking, ScoresAreFractions DEF ScoreOf, ListsInv
<1> QED BY <1>1, <1>2, <1>3

LEMMA TotalOrder ==
    ASSUME ListsInv
    PROVE  OrderIsTotal
<1> SUFFICES ASSUME NEW a \in Ids(lexical, semantic), NEW b \in Ids(lexical, semantic),
                    NEW c \in Ids(lexical, semantic)
             PROVE  /\ a # b => (Precedes(lexical, semantic, a, b)
                                    <=> ~Precedes(lexical, semantic, b, a))
                    /\ ~Precedes(lexical, semantic, a, a)
                    /\ Precedes(lexical, semantic, a, b) /\ Precedes(lexical, semantic, b, c)
                          => Precedes(lexical, semantic, a, c)
    BY DEF OrderIsTotal
<1> DEFINE x == ScoreOf(lexical, semantic, a)
           y == ScoreOf(lexical, semantic, b)
           z == ScoreOf(lexical, semantic, c)
<1>1. x \in Fractions /\ y \in Fractions /\ z \in Fractions
    BY IdsAreFound
<1>2. a \in Nat /\ b \in Nat /\ c \in Nat
    BY IdsAreFound
<1>3. /\ Precedes(lexical, semantic, a, b) <=> Above(x, y) \/ (~Above(y, x) /\ a < b)
      /\ Precedes(lexical, semantic, b, a) <=> Above(y, x) \/ (~Above(x, y) /\ b < a)
      /\ Precedes(lexical, semantic, a, a) <=> Above(x, x) \/ (~Above(x, x) /\ a < a)
      /\ Precedes(lexical, semantic, b, c) <=> Above(y, z) \/ (~Above(z, y) /\ b < c)
      /\ Precedes(lexical, semantic, a, c) <=> Above(x, z) \/ (~Above(z, x) /\ a < c)
    BY DEF Precedes
<1> HIDE DEF x, y, z
<1>4. /\ ~(Above(x, y) /\ Above(y, x)) /\ ~(Above(y, z) /\ Above(z, y)) /\ ~Above(x, x)
    BY <1>1, AboveIsAsymmetric
<1>5. /\ ~Above(z, y) /\ ~Above(y, x) => ~Above(z, x)
      /\ ~Above(x, z) /\ ~Above(z, y) => ~Above(x, y)
      /\ ~Above(y, x) /\ ~Above(x, z) => ~Above(y, z)
    BY <1>1, NotAboveIsTransitive
<1>6. ~(a < a) /\ (a # b => (a < b <=> ~(b < a))) /\ (a < b /\ b < c => a < c)
    BY <1>2
<1> QED BY <1>3, <1>4, <1>5, <1>6

\* OrderIsTotal: the comparison of sort_by is a strict total order on the ids of both
\* lists, so that neither the HashMap nor the sort's choice of pivots shows.
THEOREM RanksAreTotal == ListsSpec => []OrderIsTotal
BY ListsAlways, TotalOrder, PTL

-----------------------------------------------------------------------------
(* The sort and its cut.                                                   *)

LEMMA FoundIsFinite ==
    ASSUME NEW list, Ranking(list)
    PROVE  IsFiniteSet(Found(list))
<1>1. list \in [1 .. Len(list) -> Memories] /\ Len(list) \in Nat
    BY DEF Ranking
<1>2. list \in Surjection(1 .. Len(list), Found(list))
    BY <1>1 DEF Surjection, Found
<1>3. IsFiniteSet(1 .. Len(list))
    BY <1>1, FS_Interval
<1> QED BY <1>2, <1>3, FS_Surjection

\* The ids are numbered by how many the sort puts before them: from 0 on, without a
\* gap, and each with a number of its own.
LEMMA BeforeNumbers ==
    ASSUME ListsInv
    PROVE  LET S == Ids(lexical, semantic) IN
           /\ IsFiniteSet(S) /\ Cardinality(S) \in Nat
           /\ \A a \in S : Before(lexical, semantic, a) \in 0 .. Cardinality(S) - 1
           /\ \A a, b \in S : Precedes(lexical, semantic, a, b)
                 => Before(lexical, semantic, a) < Before(lexical, semantic, b)
           /\ \A a, b \in S : Before(lexical, semantic, a) = Before(lexical, semantic, b)
                 => a = b
           /\ \A n \in 0 .. Cardinality(S) - 1 : \E a \in S : Before(lexical, semantic, a) = n
<1> DEFINE S == Ids(lexical, semantic)
           P(a, b) == Precedes(lexical, semantic, a, b)
           B(id) == {other \in S : P(other, id)}
           f == [id \in S |-> Before(lexical, semantic, id)]
<1>1. /\ \A a, b \in S : a # b => (P(a, b) <=> ~P(b, a))
      /\ \A a \in S : ~P(a, a)
      /\ \A a, b, c \in S : P(a, b) /\ P(b, c) => P(a, c)
    BY TotalOrder DEF OrderIsTotal
<1>2. IsFiniteSet(S)
    <2>1. IsFiniteSet(Found(lexical)) /\ IsFiniteSet(Found(semantic))
        BY FoundIsFinite DEF ListsInv
    <2> QED BY <2>1, IdsAreFound, FS_Union
<1>3. \A id : Before(lexical, semantic, id) = Cardinality(B(id))
    BY DEF Before
<1> HIDE DEF S, P
<1>4. Cardinality(S) \in Nat
    BY <1>2, FS_CardinalityType
<1>5. \A id : B(id) \in SUBSET S /\ IsFiniteSet(B(id)) /\ Cardinality(B(id)) \in Nat
    BY <1>2, FS_Subset, FS_CardinalityType
<1>6. ASSUME NEW a \in S
      PROVE  Cardinality(B(a)) \in 0 .. Cardinality(S) - 1
    <2>1. B(a) # S
        BY <1>1
    <2> HIDE DEF B
    <2>2. Cardinality(B(a)) <= Cardinality(S) /\ Cardinality(B(a)) # Cardinality(S)
        BY <1>2, <1>5, <2>1, FS_Subset
    <2> QED BY <1>4, <1>5, <2>2
<1>7. ASSUME NEW a \in S, NEW b \in S, P(a, b)
      PROVE  Cardinality(B(a)) < Cardinality(B(b))
    <2>1. B(a) \in SUBSET B(b) /\ B(a) # B(b)
        BY <1>1, <1>7
    <2> HIDE DEF B
    <2>2. Cardinality(B(a)) <= Cardinality(B(b)) /\ Cardinality(B(a)) # Cardinality(B(b))
        BY <1>5, <2>1, FS_Subset
    <2> QED BY <1>5, <2>2
<1> HIDE DEF B
<1>8. ASSUME NEW a \in S, NEW b \in S, Cardinality(B(a)) = Cardinality(B(b))
      PROVE  a = b
    <2>1. ~P(a, b) /\ ~P(b, a)
        BY <1>5, <1>7, <1>8
    <2> QED BY <1>1, <2>1
<1>9. f \in Injection(S, 0 .. Cardinality(S) - 1)
    BY <1>3, <1>6, <1>8 DEF Injection, IsInjective
<1>10. /\ IsFiniteSet(0 .. Cardinality(S) - 1)
       /\ Cardinality(0 .. Cardinality(S) - 1) = Cardinality(S)
    BY <1>4, FS_Interval
<1>11. f \in Surjection(S, 0 .. Cardinality(S) - 1)
    <2> HIDE DEF f
    <2> QED BY <1>9, <1>10, FS_Injection
<1>12. \A n \in 0 .. Cardinality(S) - 1 : \E a \in S : Before(lexical, semantic, a) = n
    BY <1>11 DEF Surjection
<1> QED BY <1>2, <1>3, <1>4, <1>6, <1>7, <1>8, <1>12 DEF S, P

\* The ids are shown in that order, up to the limit and without a gap.
LEMMA PlacesOfShown ==
    ASSUME ListsInv
    PROVE  /\ Shown = {id \in Ids(lexical, semantic) : Before(lexical, semantic, id) < limit}
           /\ \A id \in Shown : Rank(Merged, id) = Before(lexical, semantic, id) + 1
           /\ \A a, b \in Ids(lexical, semantic) :
                 b \in Shown /\ Precedes(lexical, semantic, a, b)
                    => a \in Shown /\ Rank(Merged, a) < Rank(Merged, b)
<1> DEFINE S == Ids(lexical, semantic)
           n == Cardinality(S)
           B(id) == Before(lexical, semantic, id)
           length == IF limit < n THEN limit ELSE n
<1>1. /\ n \in Nat
      /\ \A a \in S : B(a) \in 0 .. n - 1
      /\ \A a, b \in S : Precedes(lexical, semantic, a, b) => B(a) < B(b)
      /\ \A a, b \in S : B(a) = B(b) => a = b
      /\ \A m \in 0 .. n - 1 : \E a \in S : B(a) = m
    BY BeforeNumbers
<1>2. Merged = [place \in 1 .. length |-> CHOOSE id \in S : B(id) = place - 1]
    BY DEF Merged, MergeRanks
<1>3. limit \in Nat
    BY DEF ListsInv
<1> HIDE DEF S, n, B
<1>4. length \in Nat /\ length <= n /\ \A m \in 0 .. n - 1 : m < length <=> m < limit
    BY <1>1, <1>3
<1> HIDE DEF length
<1>5. ASSUME NEW place \in 1 .. length
      PROVE  Merged[place] \in S /\ B(Merged[place]) = place - 1
    <2>1. place - 1 \in 0 .. n - 1
        BY <1>1, <1>4
    <2>2. \E id \in S : B(id) = place - 1
        BY <1>1, <2>1
    <2> QED BY <1>2, <2>2
<1>6. DOMAIN Merged = 1 .. length
    BY <1>2
<1>7. ASSUME NEW id \in S, B(id) < length
      PROVE  B(id) + 1 \in 1 .. length /\ Merged[B(id) + 1] = id
    <2>1. B(id) \in Nat /\ B(id) < length
        BY <1>1, <1>7
    <2>2. PICK place \in 1 .. length : place = B(id) + 1 /\ place - 1 = B(id)
        BY <1>4, <2>1
    <2>3. Merged[place] \in S /\ B(Merged[place]) = B(id)
        BY <1>5, <2>2
    <2>4. Merged[place] = id
        BY <1>1, <2>3
    <2> QED BY <2>2, <2>4
<1>8. ASSUME NEW id
      PROVE  id \in Shown <=> id \in S /\ B(id) < length
    <2>1. ASSUME id \in Shown PROVE id \in S /\ B(id) < length
        <3>1. PICK place \in 1 .. length : id = Merged[place]
            BY <1>6, <2>1 DEF Shown
        <3>2. id \in S /\ B(id) = place - 1
            BY <1>5, <3>1
        <3> QED BY <1>4, <3>2
    <2>2. ASSUME id \in S, B(id) < length PROVE id \in Shown
        BY <1>6, <1>7, <2>2 DEF Shown
    <2> QED BY <2>1, <2>2
<1>9. Shown = {id \in S : B(id) < limit}
    <2>1. \A id \in S : B(id) < length <=> B(id) < limit
        BY <1>1, <1>4
    <2> QED BY <1>8, <2>1
<1>10. ASSUME NEW id \in Shown
       PROVE  Rank(Merged, id) = B(id) + 1
    <2>1. /\ id \in S /\ B(id) + 1 \in 1 .. length /\ Merged[B(id) + 1] = id
          /\ B(id) \in Nat
        BY <1>1, <1>7, <1>8
    <2>2. \A place \in 1 .. length : Merged[place] = id => place = B(id) + 1
        BY <1>5
    <2>3. Rank(Merged, id) \in 1 .. length /\ Merged[Rank(Merged, id)] = id
        BY <1>6, <2>1 DEF Rank
    <2> QED BY <2>2, <2>3
<1>11. ASSUME NEW a \in S, NEW b \in S, b \in Shown, Precedes(lexical, semantic, a, b)
       PROVE  a \in Shown /\ Rank(Merged, a) < Rank(Merged, b)
    <2>1. B(a) < B(b) /\ B(a) \in Nat /\ B(b) \in Nat /\ B(b) < length
        BY <1>1, <1>8, <1>11
    <2>2. a \in Shown
        BY <1>4, <1>8, <2>1
    <2> QED BY <1>10, <1>11, <2>1, <2>2
<1> QED BY <1>9, <1>10, <1>11 DEF S, B

LEMMA BothAreFirst ==
    ASSUME ListsInv
    PROVE  BothChannelsFirst
<1> SUFFICES ASSUME NEW a \in Found(lexical) \cap Found(semantic), NEW b \in Shown,
                    b \notin Found(lexical) \cap Found(semantic)
             PROVE  a \in Shown /\ Rank(Merged, a) < Rank(Merged, b)
    BY DEF BothChannelsFirst
<1>1. a \in Ids(lexical, semantic) /\ b \in Ids(lexical, semantic)
    BY PlacesOfShown, IdsAreFound
<1>2. Rank(lexical, a) \in 1 .. Candidates /\ Rank(semantic, a) \in 1 .. Candidates
    BY RankOfRanking DEF ListsInv
<1>3. \/ Rank(lexical, b) \in 1 .. Candidates /\ Rank(semantic, b) = Absent
      \/ Rank(lexical, b) = Absent /\ Rank(semantic, b) \in 1 .. Candidates
    BY <1>1, IdsAreFound, RankOfRanking DEF ListsInv
<1>4. Above(ScoreOf(lexical, semantic, a), ScoreOf(lexical, semantic, b))
    BY <1>2, <1>3, BothChannelsScoreMore DEF ScoreOf
<1>5. Precedes(lexical, semantic, a, b)
    BY <1>4 DEF Precedes
<1> QED BY <1>1, <1>5, PlacesOfShown

\* BothChannelsFirst: merge_ranks shows what both channels found before what one alone
\* found, and its cut at the limit takes the latter first.
THEOREM BothChannelsAreShownFirst == ListsSpec => []BothChannelsFirst
BY ListsAlways, BothAreFirst, PTL

LEMMA BetterAreFirst ==
    ASSUME ListsInv
    PROVE  BetterRanksFirst
<1> SUFFICES ASSUME NEW a \in Ids(lexical, semantic), NEW b \in Shown,
                    Dominates(Rank(lexical, a), Rank(semantic, a),
                              Rank(lexical, b), Rank(semantic, b))
             PROVE  a \in Shown /\ Rank(Merged, a) < Rank(Merged, b)
    BY DEF BetterRanksFirst
<1>1. b \in Ids(lexical, semantic)
    BY PlacesOfShown
<1>2. /\ Rank(lexical, a) \in Places /\ Rank(semantic, a) \in Places
      /\ Rank(lexical, b) \in Places /\ Rank(semantic, b) \in Places
    BY RankOfRanking DEF ListsInv
<1>3. Above(ScoreOf(lexical, semantic, a), ScoreOf(lexical, semantic, b))
    BY <1>2, BetterRanksScoreMore DEF ScoreOf
<1>4. Precedes(lexical, semantic, a, b)
    BY <1>3 DEF Precedes
<1> QED BY <1>1, <1>4, PlacesOfShown

\* BetterRanksFirst: merge_ranks shows no memory before one that each channel ranks at
\* least as high, and one of them higher, and its cut never keeps the worse of the two.
THEOREM BetterRanksAreShownFirst == ListsSpec => []BetterRanksFirst
BY ListsAlways, BetterAreFirst, PTL

\* The first `limit` ids of merge_ranks are those that the sort puts fewer than `limit`
\* ids before: the form in which module Search takes them.
THEOREM ShownByTheSort ==
    ListsSpec => [](Shown = {id \in Ids(lexical, semantic) : Before(lexical, semantic, id) < limit})
<1>1. ListsInv => Shown = {id \in Ids(lexical, semantic) : Before(lexical, semantic, id) < limit}
    BY PlacesOfShown
<1> QED BY <1>1, ListsAlways, PTL

-----------------------------------------------------------------------------
(* client_ip.                                                              *)

\* Behind a proxy, the header has the sender's address, and trusted proxies after it.
ChainInv ==
    /\ sender \in Addresses /\ peer \in Addresses
    /\ ~ IsTrustedProxy(sender, trusted)
    /\ forwarded \in Seq(Addresses \cup {Unparsable, Opaque})
    /\ peer # sender =>
          /\ IsTrustedProxy(peer, trusted)
          /\ \E i \in 1 .. Len(forwarded) :
                /\ forwarded[i] = sender
                /\ \A j \in i + 1 .. Len(forwarded) : IsTrustedProxy(forwarded[j], trusted)

USE ClientIpAssumption DEF ClientIpAssumption

LEMMA ChainInitInv == ChainInit => ChainInv
BY DEF ChainInit, ChainInv

LEMMA ChainNextInv == ChainInv /\ [ChainNext]_chain => ChainInv'
<1> SUFFICES ASSUME ChainInv, [ChainNext]_chain
             PROVE  ChainInv'
    OBVIOUS
<1>1. ASSUME NEW entry \in Addresses \cup {Unparsable, Opaque}, Write(entry)
      PROVE  ChainInv'
    <2>1. /\ forwarded' = Append(forwarded, entry)
          /\ trusted' = trusted /\ sender' = sender /\ peer' = peer /\ peer = sender
        BY <1>1 DEF Write
    <2>2. forwarded' \in Seq(Addresses \cup {Unparsable, Opaque})
        BY <2>1 DEF ChainInv
    <2> QED BY <2>1, <2>2 DEF ChainInv
<1>2. ASSUME NEW proxy \in Addresses, PassOn(proxy)
      PROVE  ChainInv'
    <2>1. /\ forwarded' = Append(forwarded, peer)
          /\ trusted' = trusted /\ sender' = sender /\ peer' = proxy
          /\ IsTrustedProxy(proxy, trusted)
        BY <1>2 DEF PassOn
    <2> DEFINE n == Len(forwarded)
    <2>2. /\ forwarded \in Seq(Addresses \cup {Unparsable, Opaque})
          /\ peer \in Addresses \cup {Unparsable, Opaque} /\ n \in Nat
        BY DEF ChainInv
    <2>3. /\ forwarded' \in Seq(Addresses \cup {Unparsable, Opaque})
          /\ Len(forwarded') = n + 1
          /\ \A i \in 1 .. n : forwarded'[i] = forwarded[i]
          /\ forwarded'[n + 1] = peer
        BY <2>1, <2>2
    <2>4. IsTrustedProxy(peer', trusted')
        BY <2>1
    <2>5. \E i \in 1 .. n + 1 :
             /\ forwarded'[i] = sender
             /\ \A j \in i + 1 .. n + 1 : IsTrustedProxy(forwarded'[j], trusted)
        <3>1. CASE peer = sender
            <4>1. n + 1 \in 1 .. n + 1 /\ \A j \in n + 1 + 1 .. n + 1 : FALSE
                BY <2>2
            <4> QED BY <3>1, <4>1, <2>3
        <3>2. CASE peer # sender
            <4>1. PICK i \in 1 .. n :
                     /\ forwarded[i] = sender
                     /\ \A j \in i + 1 .. n : IsTrustedProxy(forwarded[j], trusted)
                BY <3>2 DEF ChainInv
            <4>2. IsTrustedProxy(peer, trusted)
                BY <3>2 DEF ChainInv
            <4>3. ASSUME NEW j \in i + 1 .. n + 1
                  PROVE  IsTrustedProxy(forwarded'[j], trusted)
                <5>1. CASE j = n + 1
                    BY <5>1, <4>2, <2>3
                <5>2. CASE j # n + 1
                    <6>1. j \in i + 1 .. n /\ j \in 1 .. n
                        BY <5>2, <2>2
                    <6> QED BY <6>1, <4>1, <2>3
                <5> QED BY <5>1, <5>2
            <4>4. i \in 1 .. n + 1 /\ forwarded'[i] = sender
                BY <4>1, <2>2, <2>3
            <4> QED BY <4>3, <4>4
        <3> QED BY <3>1, <3>2
    <2> QED
        <3>1. sender' \in Addresses /\ peer' \in Addresses /\ ~ IsTrustedProxy(sender', trusted')
            BY <2>1 DEF ChainInv
        <3>2. \E i \in 1 .. Len(forwarded') :
                 /\ forwarded'[i] = sender'
                 /\ \A j \in i + 1 .. Len(forwarded') : IsTrustedProxy(forwarded'[j], trusted')
            BY <2>5, <2>3, <2>1
        <3> HIDE DEF n
        <3> QED BY <3>1, <3>2, <2>3, <2>4 DEF ChainInv
<1>3. CASE UNCHANGED chain
    BY <1>3 DEF chain, ChainInv
<1> QED BY <1>1, <1>2, <1>3 DEF ChainNext

LEMMA ChainInvCounts == ChainInv => CountedForItsSender
<1> SUFFICES ASSUME ChainInv, \A i \in DOMAIN forwarded : forwarded[i] # Opaque
             PROVE  ClientIp(peer, forwarded, realIp, trusted) = sender
    BY DEF CountedForItsSender
<1> DEFINE untrusted ==
              {i \in AddressesIn(forwarded) : ~ IsTrustedProxy(forwarded[i], trusted)}
<1>1. CASE peer = sender
    BY <1>1 DEF ChainInv, ClientIp
<1>2. CASE peer # sender
    <2>1. PICK i \in 1 .. Len(forwarded) :
             /\ forwarded[i] = sender
             /\ \A j \in i + 1 .. Len(forwarded) : IsTrustedProxy(forwarded[j], trusted)
        BY <1>2 DEF ChainInv
    <2>2. DOMAIN forwarded = 1 .. Len(forwarded) /\ Len(forwarded) \in Nat
        BY DEF ChainInv
    <2>3. i \in untrusted
        BY <2>1, <2>2 DEF AddressesIn, ChainInv
    <2>4. ASSUME NEW j \in untrusted
          PROVE  j \in Nat /\ j <= i
        <3>1. j \in 1 .. Len(forwarded) /\ ~ IsTrustedProxy(forwarded[j], trusted)
            BY <2>2 DEF AddressesIn
        <3>2. j \notin i + 1 .. Len(forwarded)
            BY <3>1, <2>1
        <3> QED BY <3>1, <3>2, <2>2
    <2>5. Pick(untrusted) = i
        <3> HIDE DEF untrusted
        <3>1. \A j \in untrusted : (\A k \in untrusted : j >= k) => j = i
            BY <2>3, <2>4
        <3> QED BY <3>1, <2>3, <2>4 DEF Pick, Max
    <2>6. IsTrustedProxy(peer, trusted)
        BY <1>2 DEF ChainInv
    <2>7. ClientIp(peer, forwarded, realIp, trusted) = forwarded[Pick(untrusted)]
        BY <2>3, <2>6 DEF ClientIp
    <2> QED BY <2>7, <2>5, <2>1
<1> QED BY <1>1, <1>2

\* CountedForItsSender: client_ip returns the sender's own address, whatever addresses
\* it wrote into its headers and whichever trusted proxies passed the request on.
THEOREM SendersAreCounted == ChainSpec => []CountedForItsSender
BY ChainInitInv, ChainNextInv, ChainInvCounts, PTL DEF ChainSpec

-----------------------------------------------------------------------------
(* The networks of the trusted proxies.                                    *)

\* A set of one member more has twice as many subsets, so that FS_SUBSET gives what is
\* needed of the powers of two.
LEMMA SubsetsDouble ==
    ASSUME NEW S, IsFiniteSet(S), NEW x, x \notin S
    PROVE  Cardinality(SUBSET (S \cup {x})) = 2 * Cardinality(SUBSET S)
<1> DEFINE A == SUBSET S
           B == {T \cup {x} : T \in A}
           f == [T \in A |-> T \cup {x}]
<1>1. IsFiniteSet(A) /\ Cardinality(A) \in Nat
    BY FS_SUBSET, FS_CardinalityType
<1>2. f \in Bijection(A, B)
    <2>1. \A T, U \in A : T \cup {x} = U \cup {x} => T = U
        OBVIOUS
    <2>2. f \in Injection(A, B)
        BY <2>1 DEF Injection, IsInjective
    <2>3. f \in Surjection(A, B)
        BY DEF Surjection
    <2> QED BY <2>2, <2>3 DEF Bijection
<1>3. IsFiniteSet(B) /\ Cardinality(B) = Cardinality(A)
    <2> HIDE DEF A, B, f
    <2>1. ExistsBijection(A, B)
        BY <1>2 DEF ExistsBijection
    <2> QED BY <1>1, <2>1, FS_Bijection
<1>4. A \cap B = {}
    OBVIOUS
<1>5. SUBSET (S \cup {x}) = A \cup B
    <2>1. ASSUME NEW V \in SUBSET (S \cup {x}) PROVE V \in A \cup B
        <3>1. CASE x \in V
            <4>1. V \ {x} \in A /\ V = (V \ {x}) \cup {x}
                BY <3>1
            <4> QED BY <4>1
        <3>2. CASE x \notin V
            BY <3>2
        <3> QED BY <3>1, <3>2
    <2>2. ASSUME NEW V \in A \cup B PROVE V \in SUBSET (S \cup {x})
        BY <2>2
    <2> QED BY <2>1, <2>2
<1> HIDE DEF A, B, f
<1>6. Cardinality(A \cup B) = Cardinality(A) + Cardinality(B) - Cardinality(A \cap B)
    BY <1>1, <1>3, FS_Union
<1>7. Cardinality(A \cap B) = 0
    BY <1>4, FS_EmptySet
<1>8. Cardinality(A \cup B) = 2 * Cardinality(A)
    BY <1>1, <1>3, <1>6, <1>7
<1> QED BY <1>5, <1>8 DEF A

LEMMA PowersOfTwo ==
    ASSUME NEW n \in Nat
    PROVE  2 ^ n \in Nat \ {0} /\ 2 ^ (n + 1) = 2 * 2 ^ n
<1> DEFINE S == 1 .. n
<1>1. IsFiniteSet(S) /\ Cardinality(S) = n
    BY FS_Interval
<1>0. n + 1 \notin S
    OBVIOUS
<1> HIDE DEF S
<1>2. IsFiniteSet(S \cup {n + 1}) /\ Cardinality(S \cup {n + 1}) = n + 1
    BY <1>0, <1>1, FS_AddElement
<1>3. /\ IsFiniteSet(SUBSET S) /\ Cardinality(SUBSET S) = 2 ^ n
      /\ Cardinality(SUBSET (S \cup {n + 1})) = 2 ^ (n + 1)
    BY <1>1, <1>2, FS_SUBSET
<1>4. 2 ^ (n + 1) = 2 * 2 ^ n
    BY <1>0, <1>1, <1>3, SubsetsDouble
<1>5. 2 ^ n \in Nat
    BY <1>3, FS_CardinalityType
<1>6. 2 ^ n # 0
    <2>1. SUBSET S # {}
        OBVIOUS
    <2> QED BY <1>3, <2>1, FS_EmptySet
<1> QED BY <1>4, <1>5, <1>6

\* A least counterexample: how an induction over the bits is put here.
LEMMA LeastMember ==
    ASSUME NEW T \in SUBSET Nat, IsFiniteSet(T), T # {}
    PROVE  \E m \in T : \A k \in T : m <= k
<1> DEFINE B(t) == {u \in T : u < t}
           f == [t \in T |-> Cardinality(B(t))]
<1>1. \A t \in T : B(t) \in SUBSET T /\ t \notin B(t) /\ IsFiniteSet(B(t)) /\ Cardinality(B(t)) \in Nat
    BY FS_Subset, FS_CardinalityType
<1>2. Cardinality(T) \in Nat
    BY FS_CardinalityType
<1>3. ASSUME NEW t \in T, NEW u \in T, u < t
      PROVE  B(u) \in SUBSET B(t) /\ u \in B(t)
    <2>1. \A v \in T : v < u => v < t
        BY <1>3
    <2> QED BY <1>3, <2>1
<1>4. \A t \in T : Cardinality(B(t)) = 0 => \A k \in T : t <= k
    <2>1. \A t \in T : Cardinality(B(t)) = 0 => B(t) = {}
        BY <1>1, FS_EmptySet
    <2> QED BY <2>1
<1> HIDE DEF B
<1>5. \A t \in T : Cardinality(B(t)) \in 0 .. Cardinality(T) - 1
    <2> TAKE t \in T
    <2>1. Cardinality(B(t)) <= Cardinality(T) /\ Cardinality(B(t)) # Cardinality(T)
        BY <1>1, FS_Subset
    <2> QED BY <1>1, <1>2, <2>1
<1>6. \A t, u \in T : u < t => Cardinality(B(u)) # Cardinality(B(t))
    BY <1>1, <1>3, FS_Subset
<1>7. \A t, u \in T : Cardinality(B(u)) = Cardinality(B(t)) => t = u
    <2>1. \A t, u \in T : t = u \/ t < u \/ u < t
        OBVIOUS
    <2> QED BY <1>6, <2>1
<1>8. f \in Injection(T, 0 .. Cardinality(T) - 1)
    BY <1>5, <1>7 DEF Injection, IsInjective
<1>9. /\ IsFiniteSet(0 .. Cardinality(T) - 1)
      /\ Cardinality(0 .. Cardinality(T) - 1) = Cardinality(T)
    <2> PICK n \in Nat : n = Cardinality(T)
        BY <1>2
    <2>1. PICK top \in Int : top = n - 1
        OBVIOUS
    <2>2. 0 \in Int
        OBVIOUS
    <2>3. IsFiniteSet(0 .. top) /\ Cardinality(0 .. top) = IF 0 > top THEN 0 ELSE top - 0 + 1
        BY <2>2, FS_Interval
    <2>4. (IF 0 > top THEN 0 ELSE top - 0 + 1) = n
        BY <2>1
    <2> QED BY <2>1, <2>3, <2>4
<1>10. f \in Surjection(T, 0 .. Cardinality(T) - 1)
    <2> HIDE DEF f
    <2> QED BY <1>8, <1>9, FS_Injection
<1>11. 0 \in 0 .. Cardinality(T) - 1
    <2>1. Cardinality(T) # 0
        BY FS_EmptySet
    <2> QED BY <1>2, <2>1
<1>12. PICK m \in T : Cardinality(B(m)) = 0
    BY <1>10, <1>11 DEF Surjection
<1> QED BY <1>4, <1>12

LEMMA Division ==
    ASSUME NEW a \in Nat, NEW d \in Nat \ {0}
    PROVE  /\ a \div d \in Nat /\ a % d \in Nat /\ a % d < d
           /\ a = d * (a \div d) + (a % d)
BY SMT

LEMMA DivisionIsUnique ==
    ASSUME NEW d \in Nat \ {0}, NEW u \in Nat, NEW v \in Nat, v < d,
           NEW q \in Nat, NEW r \in Nat, r < d, d * u + v = d * q + r
    PROVE  u = q
<1>1. ASSUME NEW a \in Nat, NEW b \in Nat, NEW x \in Nat, NEW y \in Nat, x < d, y < d,
             d * a + x = d * b + y
      PROVE  ~(a < b)
    <2>1. SUFFICES ASSUME a + 1 <= b PROVE FALSE
        BY <1>1
    <2>2. (a + 1) * d <= b * d
        BY <2>1, TimesKeepsOrder
    <2>3. (a + 1) * d = d * a + d /\ b * d = d * b
        BY SMT
    <2>4. d * a \in Nat /\ d * b \in Nat
        BY SMT
    <2> QED BY <1>1, <2>2, <2>3, <2>4
<1>2. ~(u < q) /\ ~(q < u)
    BY <1>1
<1> QED BY <1>2

\* A shift by one place more halves what is left.
LEMMA NestedDivision ==
    ASSUME NEW a \in Nat, NEW d \in Nat \ {0}
    PROVE  (a \div d) \div 2 = a \div (2 * d)
<1> DEFINE q == a \div d
           h == q \div 2
<1>1. /\ q \in Nat /\ a % d \in Nat /\ a % d < d /\ a = d * q + (a % d)
    BY Division
<1>2. /\ h \in Nat /\ q % 2 \in Nat /\ q % 2 < 2 /\ q = 2 * h + (q % 2)
    BY <1>1, Division
<1>3. PICK r \in Nat : r = a % d /\ r < d
    BY <1>1
<1>4. PICK b \in Nat : b = q % 2 /\ (b = 0 \/ b = 1)
    BY <1>2
<1>5. PICK e \in Nat \ {0} : e = 2 * d
    OBVIOUS
<1>6. /\ a \div e \in Nat /\ a % e \in Nat /\ a % e < e /\ a = e * (a \div e) + (a % e)
    BY Division
<1> HIDE DEF h, q
<1>7. a = e * h + (d * b + r)
    <2>1. a = d * (2 * h + b) + r
        BY <1>1, <1>2, <1>3, <1>4
    <2>2. d * (2 * h + b) = (2 * d) * h + d * b
        BY <1>2, SMT
    <2>3. d * b \in Nat /\ (2 * d) * h \in Nat
        BY <1>2, SMT
    <2> QED BY <1>5, <2>1, <2>2, <2>3
<1>8. d * b + r \in Nat /\ d * b + r < e
    <2>1. d * b = 0 \/ d * b = d
        BY <1>4, SMT
    <2> QED BY <1>3, <1>5, <2>1
<1>9. h = a \div e
    BY <1>2, <1>6, <1>7, <1>8, DivisionIsUnique
<1> QED BY <1>5, <1>9 DEF h, q

\* What is left of an address when all bits but the leading k are shifted out of it.
Leading(a, w, k) == a \div 2 ^ (w - k)

LEMMA LeadingBits ==
    ASSUME NEW w \in Nat, NEW a \in 0 .. 2 ^ w - 1
    PROVE  /\ \A k \in 0 .. w : Leading(a, w, k) \in Nat
           /\ Leading(a, w, 0) = 0
           /\ \A k \in 1 .. w :
                 /\ Leading(a, w, k - 1) = Leading(a, w, k) \div 2
                 /\ Leading(a, w, k) = 2 * Leading(a, w, k - 1) + (Leading(a, w, k) % 2)
<1>0. a \in Nat /\ 2 ^ w \in Nat \ {0} /\ a < 2 ^ w
    BY PowersOfTwo
<1>1. \A n \in Nat : 2 ^ n \in Nat \ {0} /\ 2 ^ (n + 1) = 2 * 2 ^ n
    BY PowersOfTwo
<1>2. ASSUME NEW k \in 0 .. w PROVE Leading(a, w, k) \in Nat
    <2>1. PICK n \in Nat : n = w - k
        OBVIOUS
    <2> QED BY <1>0, <1>1, <2>1, Division DEF Leading
<1>3. Leading(a, w, 0) = 0
    <2>1. PICK d \in Nat \ {0} : d = 2 ^ w /\ a < d
        BY <1>0
    <2>2. d * 0 = 0 /\ w - 0 = w
        BY <2>1, SMT
    <2>3. /\ a \div d \in Nat /\ a % d \in Nat /\ a % d < d
          /\ a = d * (a \div d) + (a % d)
        BY <1>0, <2>1, Division
    <2>4. d * 0 + a = d * (a \div d) + (a % d)
        BY <1>0, <2>2, <2>3
    <2>5. 0 = a \div d
        BY <1>0, <2>1, <2>3, <2>4, DivisionIsUnique
    <2> QED BY <2>1, <2>2, <2>5 DEF Leading
<1>4. ASSUME NEW k \in 1 .. w
      PROVE  /\ Leading(a, w, k - 1) = Leading(a, w, k) \div 2
             /\ Leading(a, w, k) = 2 * Leading(a, w, k - 1) + (Leading(a, w, k) % 2)
    <2>1. PICK n \in Nat : n = w - k /\ w - (k - 1) = n + 1
        OBVIOUS
    <2>2. Leading(a, w, k) = a \div 2 ^ n /\ Leading(a, w, k - 1) = a \div 2 ^ (n + 1)
        BY <2>1 DEF Leading
    <2>3. PICK d \in Nat \ {0} : d = 2 ^ n /\ 2 ^ (n + 1) = 2 * d
        BY <1>1
    <2>4. (a \div d) \div 2 = a \div (2 * d)
        BY <1>0, NestedDivision
    <2>5. Leading(a, w, k - 1) = Leading(a, w, k) \div 2
        BY <2>2, <2>3, <2>4
    <2>6. PICK b \in Nat : b = Leading(a, w, k)
        BY <1>2
    <2>7. b = 2 * (b \div 2) + (b % 2)
        OBVIOUS
    <2> QED BY <2>5, <2>6, <2>7
<1> QED BY <1>2, <1>3, <1>4

\* Two addresses agree in what a shift leaves of them if and only if they agree in every
\* bit of the prefix.
LEMMA SamePrefix ==
    ASSUME NEW w \in Nat, NEW a \in 0 .. 2 ^ w - 1, NEW b \in 0 .. 2 ^ w - 1, NEW p \in 0 .. w
    PROVE  Leading(a, w, p) = Leading(b, w, p)
              <=> \A k \in 1 .. p : Leading(a, w, k) % 2 = Leading(b, w, k) % 2
<1> DEFINE A(k) == Leading(a, w, k)
           B(k) == Leading(b, w, k)
<1>1. /\ A(0) = 0 /\ B(0) = 0
      /\ \A k \in 1 .. w : /\ A(k - 1) = A(k) \div 2 /\ A(k) = 2 * A(k - 1) + (A(k) % 2)
                           /\ B(k - 1) = B(k) \div 2 /\ B(k) = 2 * B(k - 1) + (B(k) % 2)
    BY LeadingBits
<1> HIDE DEF A, B
<1>2. ASSUME A(p) = B(p)
      PROVE  \A k \in 1 .. p : A(k) % 2 = B(k) % 2
    <2> DEFINE T == {j \in 0 .. p : A(p - j) # B(p - j)}
    <2>1. T \in SUBSET Nat /\ IsFiniteSet(T)
        <3>1. IsFiniteSet(0 .. p) /\ T \in SUBSET (0 .. p)
            BY FS_Interval
        <3> QED BY <3>1, FS_Subset
    <2>2. T = {}
        <3>1. SUFFICES ASSUME T # {} PROVE FALSE
            OBVIOUS
        <3> HIDE DEF T
        <3>2. PICK m \in T : \A k \in T : m <= k
            BY <2>1, <3>1, LeastMember
        <3>3. m \in 0 .. p /\ A(p - m) # B(p - m)
            BY <3>2 DEF T
        <3>4. m # 0 /\ m - 1 \in 0 .. p /\ m - 1 \notin T
            BY <1>2, <3>2, <3>3
        <3>5. A(p - (m - 1)) = B(p - (m - 1))
            BY <3>4 DEF T
        <3>6. p - (m - 1) \in 1 .. w /\ p - (m - 1) - 1 = p - m
            BY <3>3, <3>4
        <3> QED BY <1>1, <3>3, <3>5, <3>6
    <2>3. ASSUME NEW k \in 1 .. p PROVE A(k) = B(k)
        <3>1. p - k \in 0 .. p /\ p - (p - k) = k
            OBVIOUS
        <3> QED BY <2>2, <3>1
    <2> QED BY <2>3
<1>3. ASSUME \A k \in 1 .. p : A(k) % 2 = B(k) % 2
      PROVE  A(p) = B(p)
    <2> DEFINE T == {k \in 0 .. p : A(k) # B(k)}
    <2>1. T \in SUBSET Nat /\ IsFiniteSet(T)
        <3>1. IsFiniteSet(0 .. p) /\ T \in SUBSET (0 .. p)
            BY FS_Interval
        <3> QED BY <3>1, FS_Subset
    <2>2. T = {}
        <3>1. SUFFICES ASSUME T # {} PROVE FALSE
            OBVIOUS
        <3> HIDE DEF T
        <3>2. PICK m \in T : \A k \in T : m <= k
            BY <2>1, <3>1, LeastMember
        <3>3. m \in 0 .. p /\ A(m) # B(m)
            BY <3>2 DEF T
        <3>4. m # 0 /\ m - 1 \in 0 .. p /\ m - 1 \notin T
            BY <1>1, <3>2, <3>3
        <3>5. A(m - 1) = B(m - 1)
            BY <3>4 DEF T
        <3>6. m \in 1 .. p /\ m \in 1 .. w
            BY <3>3, <3>4
        <3>7. A(m) % 2 = B(m) % 2
            BY <1>3, <3>6
        <3>8. A(m) = 2 * A(m - 1) + (A(m) % 2) /\ B(m) = 2 * B(m - 1) + (B(m) % 2)
            BY <1>1, <3>6
        <3> QED BY <3>3, <3>5, <3>7, <3>8
    <2>3. p \in 0 .. p
        OBVIOUS
    <2> QED BY <2>2, <2>3
<1> QED BY <1>2, <1>3 DEF A, B

\* No entry of TRUSTED_PROXIES has a prefix beyond the width of its address.
TrustedInv == \A proxy \in trusted : proxy \in Entries /\ proxy.prefix <= Width(proxy.base)

LEMMA TrustedAlways == ChainSpec => []TrustedInv
<1>1. ChainInit => TrustedInv
    BY DEF ChainInit, ParseTrustedProxies, TrustedInv
<1>2. TrustedInv /\ [ChainNext]_chain => TrustedInv'
    BY DEF TrustedInv, ChainNext, Write, PassOn, chain
<1> QED BY <1>1, <1>2, PTL DEF ChainSpec

LEMMA ShiftsComparePrefixes ==
    ASSUME NEW ip \in Addresses, NEW proxy \in Entries, proxy.prefix <= Width(proxy.base),
           proxy.base.family = "v6" => proxy.prefix > 0
    PROVE  proxy.base.family = ip.family /\ SharesPrefix(ip, proxy.base, proxy.prefix)
              <=> InNetwork(ip, proxy)
<1> SUFFICES ASSUME proxy.base.family = ip.family
             PROVE  SharesPrefix(ip, proxy.base, proxy.prefix)
                       <=> \A k \in 1 .. proxy.prefix : Bit(ip, k) = Bit(proxy.base, k)
    BY DEF InNetwork
<1> DEFINE w == Width(ip)
           a == ip.bits
           b == proxy.base.bits
           p == proxy.prefix
<1>1. proxy.base \in Addresses /\ p \in Nat
    BY DEF Entries
<1>2. /\ w \in Nat /\ w <= Wide /\ w = Width(proxy.base)
      /\ a \in 0 .. 2 ^ w - 1 /\ b \in 0 .. 2 ^ w - 1
    BY <1>1 DEF Addresses, Width
<1>3. p \in 0 .. w
    BY <1>1, <1>2
<1>4. w - p \in 0 .. Wide - 1
    <2>1. CASE ip.family = "v4"
        BY <1>2, <1>3, <2>1 DEF Width
    <2>2. CASE ip.family = "v6"
        BY <1>2, <1>3, <2>2 DEF Width
    <2> QED BY <2>1, <2>2 DEF Addresses
<1>5. (w - p) % Wide = w - p
    BY <1>4
<1>6. SharesPrefix(ip, proxy.base, p) <=> Leading(a, w, p) = Leading(b, w, p)
    BY <1>5 DEF SharesPrefix, Leading
<1>7. \A k : Bit(ip, k) = Leading(a, w, k) % 2 /\ Bit(proxy.base, k) = Leading(b, w, k) % 2
    BY <1>2 DEF Bit, Leading
<1> HIDE DEF w, a, b, p
<1>8. Leading(a, w, p) = Leading(b, w, p)
          <=> \A k \in 1 .. p : Leading(a, w, k) % 2 = Leading(b, w, k) % 2
    BY <1>2, <1>3, SamePrefix
<1> QED BY <1>6, <1>7, <1>8 DEF p

\* TrustIsByPrefix: the shifts of is_trusted_proxy decide as a comparison of the leading
\* bits does, for addresses of any width and networks of any prefix but 0 of IPv6.
THEOREM TrustFollowsPrefixes == ChainSpec => []TrustIsByPrefix
<1>1. ASSUME TrustedInv PROVE TrustIsByPrefix
    <2> SUFFICES ASSUME \A proxy \in trusted : proxy.base.family = "v6" => proxy.prefix > 0,
                        NEW ip \in Addresses
                 PROVE  IsTrustedProxy(ip, trusted) <=> \E proxy \in trusted : InNetwork(ip, proxy)
        BY DEF TrustIsByPrefix
    <2>1. \A proxy \in trusted :
              proxy.base.family = ip.family /\ SharesPrefix(ip, proxy.base, proxy.prefix)
                 <=> InNetwork(ip, proxy)
        BY <1>1, ShiftsComparePrefixes DEF TrustedInv
    <2> QED BY <2>1 DEF IsTrustedProxy
<1> QED BY <1>1, TrustedAlways, PTL
=============================================================================
