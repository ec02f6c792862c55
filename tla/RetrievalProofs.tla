--------------------------- MODULE RetrievalProofs ---------------------------
(***************************************************************************)
(* Retrieval: what is shown is allowed, what is better comes first, and    *)
(* the numbers of prompt and citations agree.                              *)
(***************************************************************************)
EXTENDS Retrieval, FiniteSetTheorems, WellFoundedInduction, TLAPS

(***************************************************************************)
(* Arithmetic of scores and positions                                      *)
(***************************************************************************)
LEMMA Least ==
    ASSUME NEW T \in SUBSET Nat, T # {}
    PROVE  \E x \in T : \A y \in T : x <= y
  <1> DEFINE R == OpToRel(<, Nat)
  <1>1. IsWellFoundedOn(R, Nat)
    BY NatLessThanWellFounded
  <1>2. \A x, y \in Nat : x < y => <<x, y>> \in R
    BY DEF OpToRel
  <1> HIDE DEF R
  <1>3. PICK x \in T : \A y \in T : ~ (<<y, x>> \in R)
    BY <1>1, WFMin
  <1>4. \A y \in T : ~(y < x)
    BY <1>2, <1>3
  <1>5. QED
    BY <1>4

\* Fractions a / b with positive terms are compared by a1 * b2 >= a2 * b1.
LEMMA FractionsTransitive ==
    ASSUME NEW a1 \in Nat \ {0}, NEW b1 \in Nat \ {0}, NEW a2 \in Nat \ {0},
           NEW b2 \in Nat \ {0}, NEW a3 \in Nat \ {0}, NEW b3 \in Nat \ {0},
           a1 * b2 >= a2 * b1, a2 * b3 >= a3 * b2
    PROVE  a1 * b3 >= a3 * b1
  <1>1. (a1 * b2) * b3 >= (a2 * b1) * b3
    OBVIOUS
  <1>2. (a2 * b3) * b1 >= (a3 * b2) * b1
    OBVIOUS
  <1>3. (a1 * b3) * b2 >= (a3 * b1) * b2
    BY <1>1, <1>2
  <1>4. QED
    BY <1>3

LEMMA SortedThroughout ==
    ASSUME NEW n \in Nat, NEW a \in [1 .. n -> Nat \ {0}], NEW b \in [1 .. n -> Nat \ {0}],
           \A i \in 1 .. n - 1 : a[i] * b[i + 1] >= a[i + 1] * b[i],
           NEW i \in 1 .. n, NEW j \in 1 .. n, i < j
    PROVE  a[i] * b[j] >= a[j] * b[i]
  <1> DEFINE P(k) == a[i] * b[k] >= a[k] * b[i]
             T == {k \in i + 1 .. n : ~P(k)}
  <1>1. P(i + 1)
    OBVIOUS
  <1>2. ASSUME NEW k \in i + 1 .. n, k - 1 \in i + 1 .. n, P(k - 1)
        PROVE  P(k)
    <2>1. k - 1 \in 1 .. n - 1 /\ (k - 1) + 1 = k
      OBVIOUS
    <2>2. a[k - 1] * b[k] >= a[k] * b[k - 1]
      BY <2>1
    <2>3. /\ a[i] \in Nat \ {0} /\ a[k - 1] \in Nat \ {0} /\ a[k] \in Nat \ {0}
          /\ b[i] \in Nat \ {0} /\ b[k - 1] \in Nat \ {0} /\ b[k] \in Nat \ {0}
      BY <2>1
    <2>4. a[i] * b[k - 1] >= a[k - 1] * b[i]
      BY <1>2
    <2>5. a[i] * b[k] >= a[k] * b[i]
      <3> DEFINE ai == a[i]  bi == b[i]  ah == a[k - 1]  bh == b[k - 1]  ak == a[k]  bk == b[k]
      <3>1. ai * bh >= ah * bi /\ ah * bk >= ak * bh
        BY <2>2, <2>4
      <3>2. /\ ai \in Nat \ {0} /\ ah \in Nat \ {0} /\ ak \in Nat \ {0}
            /\ bi \in Nat \ {0} /\ bh \in Nat \ {0} /\ bk \in Nat \ {0}
        BY <2>3
      <3> HIDE DEF ai, bi, ah, bh, ak, bk
      <3>3. ai * bk >= ak * bi
        BY <3>1, <3>2, FractionsTransitive
      <3>4. QED
        BY <3>3 DEF ai, bi, ak, bk
    <2>6. QED
      BY <2>5
  <1> HIDE DEF P
  <1>3. CASE T = {}
    <2>0. j \in i + 1 .. n
      OBVIOUS
    <2>1. P(j)
      BY <1>3, <2>0
    <2>2. QED
      BY <2>1 DEF P
  <1>4. CASE T # {}
    <2>1. T \in SUBSET Nat
      OBVIOUS
    <2>2. PICK k \in T : \A m \in T : k <= m
      BY <1>4, <2>1, Least
    <2>3. k # i + 1
      BY <1>1, <2>2
    <2>4. k - 1 \in i + 1 .. n /\ k - 1 \notin T
      BY <2>2, <2>3
    <2>5. QED
      BY <1>2, <2>2, <2>4
  <1>5. QED
    BY <1>3, <1>4

\* The reciprocal ranks of a chunk that is in both legs, against one that is too and
\* is behind it in one and not before it in the other; and against one in one leg.
LEMMA BeatsInBoth ==
    ASSUME NEW v \in Nat \ {0}, NEW f \in Nat \ {0}, NEW w \in Nat \ {0}, NEW g \in Nat \ {0},
           v < w, f <= g
    PROVE  (v + f) * (w * g) > (w + g) * (v * f)
  <1>1. (w * v) * g >= (w * v) * f
    OBVIOUS
  <1>2. (f * g) * w > (f * g) * v
    OBVIOUS
  <1>3. (v + f) * (w * g) = (w * v) * g + (f * g) * w
    OBVIOUS
  <1>4. (w + g) * (v * f) = (w * v) * f + (f * g) * v
    OBVIOUS
  <1>5. QED
    BY <1>1, <1>2, <1>3, <1>4

LEMMA BeatsInOne ==
    ASSUME NEW v \in Nat \ {0}, NEW f \in Nat \ {0}, NEW w \in Nat \ {0}, v < w
    PROVE  (v + f) * w > 1 * (v * f)
  <1>1. (v + f) * w = v * w + f * w
    OBVIOUS
  <1>2. f * w > f * v
    OBVIOUS
  <1>3. v * w > 0
    OBVIOUS
  <1>4. QED
    BY <1>1, <1>2, <1>3

(***************************************************************************)
(* The rows of the second statement                                        *)
(***************************************************************************)
UpTo(S, i) == {j \in S : j <= i}

LEMMA UpToType ==
    ASSUME NEW n \in Nat, NEW S \in SUBSET (1 .. n), NEW i \in Nat
    PROVE  /\ IsFiniteSet(S) /\ Cardinality(S) \in Nat /\ Cardinality(S) <= n
           /\ IsFiniteSet(UpTo(S, i)) /\ Cardinality(UpTo(S, i)) \in Nat
           /\ Cardinality(UpTo(S, i)) <= Cardinality(S)
  <1>1. IsFiniteSet(1 .. n) /\ Cardinality(1 .. n) = n
    BY FS_Interval
  <1>2. IsFiniteSet(S) /\ Cardinality(S) <= n
    BY <1>1, FS_Subset
  <1>3. UpTo(S, i) \in SUBSET S
    BY DEF UpTo
  <1>4. IsFiniteSet(UpTo(S, i)) /\ Cardinality(UpTo(S, i)) <= Cardinality(S)
    BY <1>2, <1>3, FS_Subset
  <1>5. QED
    BY <1>2, <1>4, FS_CardinalityType

LEMMA UpToEnds ==
    ASSUME NEW n \in Nat, NEW S \in SUBSET (1 .. n)
    PROVE  UpTo(S, n) = S /\ UpTo(S, 0) = {}
  <1>1. \A j \in S : j \in Int /\ 1 <= j /\ j <= n
    OBVIOUS
  <1>2. \A j \in S : ~(j <= 0)
    BY <1>1
  <1>3. QED
    BY <1>1, <1>2 DEF UpTo

LEMMA UpToNext ==
    ASSUME NEW n \in Nat, NEW S \in SUBSET (1 .. n), NEW m \in 1 .. n
    PROVE  /\ m \notin S => UpTo(S, m) = UpTo(S, m - 1)
           /\ m \in S => UpTo(S, m) = UpTo(S, m - 1) \cup {m} /\ m \notin UpTo(S, m - 1)
  <1>1. \A j \in S : j <= m <=> (j <= m - 1 \/ j = m)
    OBVIOUS
  <1>2. ~(m <= m - 1)
    OBVIOUS
  <1>3. QED
    BY <1>1, <1>2, Zenon DEF UpTo

\* Nth finds a position, and the positions in their order.
LEMMA NthExists ==
    ASSUME NEW n \in Nat, NEW S \in SUBSET (1 .. n), NEW k \in 1 .. Cardinality(S)
    PROVE  Nth(S, k) \in S /\ Cardinality(UpTo(S, Nth(S, k))) = k
  <1> DEFINE T == {m \in 0 .. n : Cardinality(UpTo(S, m)) >= k}
  <1>1. UpTo(S, n) = S /\ UpTo(S, 0) = {}
    BY UpToEnds
  <1>2. n \in T
    BY <1>1, UpToType
  <1>3. T \in SUBSET Nat
    OBVIOUS
  <1>4. PICK m \in T : \A l \in T : m <= l
    BY <1>2, <1>3, Least
  <1>5. Cardinality(UpTo(S, 0)) = 0
    BY <1>1, FS_EmptySet
  <1>6. m # 0
    BY <1>5, <1>4, UpToType
  <1>7. m - 1 \in 0 .. n /\ m - 1 \notin T /\ m \in 1 .. n
    BY <1>4, <1>6
  <1>u. /\ Cardinality(UpTo(S, m - 1)) \in Nat /\ IsFiniteSet(UpTo(S, m - 1))
        /\ Cardinality(UpTo(S, m)) \in Nat
    <2>1. m - 1 \in Nat /\ m \in Nat
      BY <1>7
    <2>2. QED
      BY <2>1, UpToType
  <1>8. Cardinality(UpTo(S, m - 1)) < k
    BY <1>7, <1>u
  <1>9. m \in S
    <2>1. CASE m \notin S
      <3>1. UpTo(S, m) = UpTo(S, m - 1)
        BY <2>1, <1>7, UpToNext
      <3>2. QED
        BY <3>1, <1>4, <1>8, <1>u
    <2>2. QED
      BY <2>1
  <1>10. UpTo(S, m) = UpTo(S, m - 1) \cup {m} /\ m \notin UpTo(S, m - 1)
    BY <1>9, <1>7, UpToNext
  <1>11. Cardinality(UpTo(S, m)) = Cardinality(UpTo(S, m - 1)) + 1
    BY <1>10, <1>u, FS_AddElement
  <1>12. Cardinality(UpTo(S, m)) = k
    BY <1>4, <1>8, <1>11, <1>u
  <1>13. QED
    BY <1>9, <1>12 DEF Nth, UpTo

LEMMA UpToGrows ==
    ASSUME NEW n \in Nat, NEW S \in SUBSET (1 .. n), NEW i \in S, NEW j \in S, i < j
    PROVE  Cardinality(UpTo(S, i)) < Cardinality(UpTo(S, j))
  <1>0. i \in Nat /\ j \in Nat /\ ~(j <= i) /\ j <= j /\ \A k \in S : k <= i => k <= j
    OBVIOUS
  <1>1. UpTo(S, i) \in SUBSET UpTo(S, j) /\ j \in UpTo(S, j) /\ j \notin UpTo(S, i)
    BY <1>0, Zenon DEF UpTo
  <1>2. /\ IsFiniteSet(UpTo(S, j))
        /\ Cardinality(UpTo(S, i)) \in Nat /\ Cardinality(UpTo(S, j)) \in Nat
    BY <1>0, UpToType
  <1>3. /\ Cardinality(UpTo(S, i)) <= Cardinality(UpTo(S, j))
        /\ Cardinality(UpTo(S, i)) # Cardinality(UpTo(S, j))
    BY <1>1, <1>2, FS_Subset
  <1>4. QED
    BY <1>2, <1>3

LEMMA NthEnumerates ==
    ASSUME NEW n \in Nat, NEW S \in SUBSET (1 .. n)
    PROVE  /\ \A k \in 1 .. Cardinality(S) : Nth(S, k) \in S
           /\ \A i \in S : \E k \in 1 .. Cardinality(S) : Nth(S, k) = i
           /\ \A k, l \in 1 .. Cardinality(S) : Nth(S, k) < Nth(S, l) => k < l
  <1>1. \A k \in 1 .. Cardinality(S) : Nth(S, k) \in S /\ Cardinality(UpTo(S, Nth(S, k))) = k
    BY NthExists
  <1>2. ASSUME NEW i \in S
        PROVE  \E k \in 1 .. Cardinality(S) : Nth(S, k) = i
    <2> DEFINE k == Cardinality(UpTo(S, i))
    <2>1. i \in UpTo(S, i) /\ i \in Nat
      BY DEF UpTo
    <2>a. IsFiniteSet(UpTo(S, i)) /\ k \in Nat /\ k <= Cardinality(S) /\ Cardinality(S) \in Nat
      BY <2>1, UpToType
    <2>b. k # 0
      BY <2>1, <2>a, FS_EmptySet
    <2>2. k \in 1 .. Cardinality(S)
      BY <2>a, <2>b
    <2>3. Nth(S, k) \in S /\ Cardinality(UpTo(S, Nth(S, k))) = k
      BY <1>1, <2>2
    <2>4. ~(Nth(S, k) < i) /\ ~(i < Nth(S, k))
      <3> DEFINE m == Nth(S, k)
      <3>1. m \in S /\ Cardinality(UpTo(S, m)) = Cardinality(UpTo(S, i))
        BY <2>3
      <3> HIDE DEF m
      <3>2. ~(m < i) /\ ~(i < m)
        <4>1. m < i => Cardinality(UpTo(S, m)) < Cardinality(UpTo(S, i))
          BY <3>1, UpToGrows
        <4>2. i < m => Cardinality(UpTo(S, i)) < Cardinality(UpTo(S, m))
          BY <3>1, UpToGrows
        <4>3. ~(Cardinality(UpTo(S, i)) < Cardinality(UpTo(S, i)))
          BY <2>a
        <4>4. QED
          BY <3>1, <4>1, <4>2, <4>3
      <3>3. QED
        BY <3>2 DEF m
    <2>5. Nth(S, k) = i
      <3>0. \A j \in S : j \in Nat
        OBVIOUS
      <3>1. Nth(S, k) \in Nat
        BY <2>3, <3>0
      <3> HIDE DEF k
      <3>2. QED
        BY <3>1, <2>1, <2>4
    <2>6. QED
      BY <2>2, <2>5
  <1>3. ASSUME NEW k \in 1 .. Cardinality(S), NEW l \in 1 .. Cardinality(S),
               Nth(S, k) < Nth(S, l)
        PROVE  k < l
    BY <1>1, <1>3, UpToGrows
  <1>4. QED
    BY <1>1, <1>2, <1>3

(***************************************************************************)
(* The legs and their fusion                                               *)
(***************************************************************************)
Distinct(s) == \A i, j \in DOMAIN s : s[i] = s[j] => i = j
Leg(s)      == s \in Seq(Chunks) /\ Distinct(s)

LEMMA LegType ==
    ASSUME NEW S \in SUBSET Chunks, NEW leg \in Legs(S)
    PROVE  Leg(leg) /\ leg \in Seq(S)
  <1>1. PICK s \in SUBSET S : leg \in SetToSeqs(s)
    BY DEF Legs, SetToAllKPermutations
  <1>2. IsFiniteSet(s) /\ Cardinality(s) \in Nat
    <2>1. s \in SUBSET Chunks
      OBVIOUS
    <2>2. QED
      BY <2>1, ConstantsAssumption, FS_Subset, FS_CardinalityType
  <1>3. leg \in [1 .. Cardinality(s) -> s]
        /\ \A i, j \in 1 .. Cardinality(s) : i # j => leg[i] # leg[j]
    BY <1>1 DEF SetToSeqs
  <1>4. leg \in Seq(s) /\ Distinct(leg)
    BY <1>2, <1>3 DEF Distinct
  <1>5. QED
    BY <1>4 DEF Leg

LEMMA RankType ==
    ASSUME NEW leg, Leg(leg), NEW c, In(leg, c)
    PROVE  RankIn(leg, c) \in DOMAIN leg /\ leg[RankIn(leg, c)] = c
           /\ RankIn(leg, c) \in Nat \ {0} /\ c \in Chunks
  <1>1. \E i \in DOMAIN leg : leg[i] = c
    BY DEF In, ToSet
  <1>2. RankIn(leg, c) \in DOMAIN leg /\ leg[RankIn(leg, c)] = c
    BY <1>1 DEF RankIn
  <1>3. QED
    BY <1>2 DEF Leg

\* Of two chunks of a leg, the one that is not behind is before.
LEMMA RanksDiffer ==
    ASSUME NEW leg, Leg(leg), NEW c, NEW e, c # e, In(leg, c), In(leg, e),
           RankIn(leg, c) <= RankIn(leg, e)
    PROVE  RankIn(leg, c) < RankIn(leg, e)
  BY RankType

Beats(c, e) == Score(c)[1] * Score(e)[2] > Score(e)[1] * Score(c)[2]

LEMMA ScoreType ==
    ASSUME Leg(vec'), Leg(fts'), NEW c, In(vec', c) \/ In(fts', c)
    PROVE  Score(c)[1] \in Nat \ {0} /\ Score(c)[2] \in Nat \ {0}
  <1> DEFINE v == RrfK + RankIn(vec', c)
             f == RrfK + RankIn(fts', c)
  <1>1. In(vec', c) => v \in Nat \ {0}
    BY RankType, ConstantsAssumption
  <1>2. In(fts', c) => f \in Nat \ {0}
    BY RankType, ConstantsAssumption
  <1>3. Score(c) = IF In(vec', c) /\ In(fts', c) THEN <<v + f, v * f>>
                   ELSE IF In(vec', c) THEN <<1, v>> ELSE <<1, f>>
    BY DEF Score
  <1> HIDE DEF v, f
  <1>4. CASE In(vec', c) /\ In(fts', c)
    <2>1. v + f \in Nat \ {0} /\ v * f \in Nat \ {0}
      BY <1>1, <1>2, <1>4
    <2>2. QED
      BY <1>3, <1>4, <2>1
  <1>5. CASE ~(In(vec', c) /\ In(fts', c))
    BY <1>1, <1>2, <1>3, <1>5
  <1>6. QED
    BY <1>4, <1>5

\* Reciprocal rank fusion gives the better of two chunks the higher score.
LEMMA DominantScoresHigher ==
    ASSUME Leg(vec'), Leg(fts'), NEW c, NEW e, Dominates(c, e)', In(vec', e) \/ In(fts', e)
    PROVE  Beats(c, e)
  <1> DEFINE v == RrfK + RankIn(vec', c)
             f == RrfK + RankIn(fts', c)
             w == RrfK + RankIn(vec', e)
             g == RrfK + RankIn(fts', e)
  <1>1. /\ In(vec', c) => v \in Nat \ {0}
        /\ In(fts', c) => f \in Nat \ {0}
        /\ In(vec', e) => w \in Nat \ {0}
        /\ In(fts', e) => g \in Nat \ {0}
    BY RankType, ConstantsAssumption
  <1>2. c # e /\ (In(vec', e) => In(vec', c) /\ RankIn(vec', c) <= RankIn(vec', e))
              /\ (In(fts', e) => In(fts', c) /\ RankIn(fts', c) <= RankIn(fts', e))
    BY DEF Dominates
  <1>3. (In(vec', e) => In(vec', c) /\ v < w) /\ (In(fts', e) => In(fts', c) /\ f < g)
    <2>1. In(vec', e) => RankIn(vec', c) < RankIn(vec', e)
      BY <1>2, RanksDiffer
    <2>2. In(fts', e) => RankIn(fts', c) < RankIn(fts', e)
      BY <1>2, RanksDiffer
    <2>3. QED
      BY <1>2, <2>1, <2>2, RankType, ConstantsAssumption
  <1>4. Score(c) = IF In(vec', c) /\ In(fts', c) THEN <<v + f, v * f>>
                   ELSE IF In(vec', c) THEN <<1, v>> ELSE <<1, f>>
    BY DEF Score
  <1>5. Score(e) = IF In(vec', e) /\ In(fts', e) THEN <<w + g, w * g>>
                   ELSE IF In(vec', e) THEN <<1, w>> ELSE <<1, g>>
    BY DEF Score
  <1> HIDE DEF v, f, w, g
  <1>6. CASE In(vec', e) /\ In(fts', e)
    <2>1. (v + f) * (w * g) > (w + g) * (v * f)
      BY <1>1, <1>3, <1>6, BeatsInBoth
    <2>2. QED
      BY <1>3, <1>4, <1>5, <1>6, <2>1 DEF Beats
  <1>7. CASE In(vec', e) /\ ~In(fts', e)
    <2>1. Score(e)[1] = 1 /\ Score(e)[2] = w
      BY <1>5, <1>7
    <2>2. CASE In(fts', c)
      <3>1. (v + f) * w > 1 * (v * f)
        BY <1>1, <1>3, <1>7, <2>2, BeatsInOne
      <3>2. QED
        BY <1>3, <1>4, <1>7, <2>1, <2>2, <3>1 DEF Beats
    <2>3. CASE ~In(fts', c)
      BY <1>1, <1>3, <1>4, <1>7, <2>1, <2>3 DEF Beats
    <2>4. QED
      BY <2>2, <2>3
  <1>8. CASE ~In(vec', e) /\ In(fts', e)
    <2>1. Score(e)[1] = 1 /\ Score(e)[2] = g
      BY <1>5, <1>8
    <2>2. CASE In(vec', c)
      <3>1. (f + v) * g > 1 * (f * v)
        BY <1>1, <1>3, <1>8, <2>2, BeatsInOne
      <3>2. f + v = v + f /\ f * v = v * f
        BY <1>1, <1>3, <1>8, <2>2
      <3>3. Score(c)[1] = v + f /\ Score(c)[2] = v * f
        BY <1>3, <1>4, <1>8, <2>2
      <3>4. QED
        BY <2>1, <3>1, <3>2, <3>3 DEF Beats
    <2>3. CASE ~In(vec', c)
      BY <1>1, <1>3, <1>4, <1>8, <2>1, <2>3 DEF Beats
    <2>4. QED
      BY <2>2, <2>3
  <1>9. QED
    BY <1>6, <1>7, <1>8

\* What a limited list promises: whatever beats one of its chunks is on it before.
Ordered(s) == \A i \in DOMAIN s : \A c \in Chunks :
                  Dominates(c, s[i]) => \E j \in 1 .. i - 1 : s[j] = c

LEMMA LimitType ==
    ASSUME NEW n \in Nat
    PROVE  Min({TopN, n}) \in 0 .. n /\ Min({TopN, n}) <= TopN
  <1>1. TopN \in Nat
    BY ConstantsAssumption
  <1>2. \E x \in {TopN, n} : \A y \in {TopN, n} : x <= y
    BY <1>1
  <1>3. Min({TopN, n}) \in {TopN, n} /\ \A y \in {TopN, n} : Min({TopN, n}) <= y
    BY <1>2 DEF Min
  <1>4. QED
    BY <1>1, <1>3

LEMMA FusedType ==
    ASSUME Leg(vec'), Leg(fts'), NEW s \in Fused
    PROVE  /\ s \in Seq(Chunks) /\ Distinct(s) /\ Len(s) <= TopN
           /\ \A i \in DOMAIN s : In(vec', s[i]) \/ In(fts', s[i])
           /\ \A i \in DOMAIN s : \A c \in Chunks :
                  Dominates(c, s[i])' => \E j \in 1 .. i - 1 : s[j] = c
  <1> DEFINE U == ToSet(vec') \cup ToSet(fts')
             N == Cardinality(U)
  <1>1. PICK r \in SetToSeqs(U) : /\ s = SubSeq(r, 1, Min({TopN, Len(r)}))
                                  /\ \A i \in 1 .. Len(r) - 1 : AtLeast(r[i], r[i + 1])
    BY DEF Fused
  <1>2. U \in SUBSET Chunks
    BY DEF Leg, ToSet
  <1>3. IsFiniteSet(U) /\ N \in Nat
    BY <1>2, ConstantsAssumption, FS_Subset, FS_CardinalityType
  <1>4. \A c \in U : In(vec', c) \/ In(fts', c)
    BY DEF In
  <1>5. r \in [1 .. N -> U] /\ \A i, j \in 1 .. N : i # j => r[i] # r[j]
    BY <1>1 DEF SetToSeqs
  <1>6. \A c \in U : \E p \in 1 .. N : r[p] = c
    <2>1. r \in Injection(1 .. N, U)
      BY <1>5 DEF Injection, IsInjective
    <2>2. Cardinality(1 .. N) = N
      BY <1>3, FS_Interval
    <2>3. r \in Surjection(1 .. N, U)
      BY <1>3, <2>1, <2>2, FS_Injection
    <2>4. QED
      BY <2>3 DEF Surjection
  <1>7. \A c \in Chunks : \A e \in Chunks : Dominates(c, e)' => c \in U
    BY DEF Dominates, In
  <1> HIDE DEF U, N
  <1>8. r \in Seq(U) /\ Len(r) = N /\ DOMAIN r = 1 .. N
    BY <1>3, <1>5
  <1>9. \A i, j \in 1 .. N : i < j => Score(r[i])[1] * Score(r[j])[2] >= Score(r[j])[1] * Score(r[i])[2]
    <2> DEFINE a == [i \in 1 .. N |-> Score(r[i])[1]]
               b == [i \in 1 .. N |-> Score(r[i])[2]]
    <2>1. \A i \in 1 .. N : Score(r[i])[1] \in Nat \ {0} /\ Score(r[i])[2] \in Nat \ {0}
      BY <1>4, <1>5, ScoreType
    <2>2. a \in [1 .. N -> Nat \ {0}] /\ b \in [1 .. N -> Nat \ {0}]
      BY <2>1
    <2>3. \A i \in 1 .. N - 1 : a[i] * b[i + 1] >= a[i + 1] * b[i]
      <3>1. ASSUME NEW i \in 1 .. N - 1
            PROVE  a[i] * b[i + 1] >= a[i + 1] * b[i]
        <4>1. i \in 1 .. N /\ i + 1 \in 1 .. N /\ i \in 1 .. Len(r) - 1
          BY <1>3, <1>8
        <4>2. AtLeast(r[i], r[i + 1])
          BY <1>1, <4>1
        <4>3. QED
          BY <4>1, <4>2 DEF AtLeast
      <3>2. QED
        BY <3>1
    <2>4. \A i \in 1 .. N : a[i] = Score(r[i])[1] /\ b[i] = Score(r[i])[2]
      OBVIOUS
    <2> HIDE DEF a, b
    <2>5. \A i, j \in 1 .. N : i < j => a[i] * b[j] >= a[j] * b[i]
      BY <1>3, <2>2, <2>3, SortedThroughout
    <2>6. QED
      BY <2>4, <2>5
  <1> DEFINE m == Min({TopN, Len(r)})
  <1>10. m \in 0 .. N /\ m <= TopN
    BY <1>3, <1>8, LimitType
  <1>11. s = SubSeq(r, 1, m)
    BY <1>1
  <1> HIDE DEF m
  <1>12. s \in Seq(U) /\ Len(s) = m /\ DOMAIN s = 1 .. m /\ \A i \in 1 .. m : s[i] = r[i]
    BY <1>3, <1>8, <1>10, <1>11
  <1>13. ASSUME NEW i \in DOMAIN s, NEW c \in Chunks, Dominates(c, s[i])'
         PROVE  \E j \in 1 .. i - 1 : s[j] = c
    <2>1. i \in 1 .. N /\ i \in 1 .. m /\ s[i] = r[i] /\ r[i] \in U
      BY <1>3, <1>5, <1>10, <1>12
    <2>2. PICK p \in 1 .. N : r[p] = c
      BY <1>2, <1>6, <1>7, <1>13, <2>1
    <2>3. Beats(c, r[i])
      BY <1>4, <1>13, <2>1, DominantScoresHigher
    <2>4. p # i
      BY <1>13, <2>1, <2>2 DEF Dominates
    <2>5. ~(i < p)
      <3>1. i < p => Score(r[i])[1] * Score(c)[2] >= Score(c)[1] * Score(r[i])[2]
        BY <1>9, <2>1, <2>2
      <3>2. Score(c)[1] * Score(r[i])[2] > Score(r[i])[1] * Score(c)[2]
        BY <2>3 DEF Beats
      <3>3. /\ Score(c)[1] \in Nat /\ Score(c)[2] \in Nat
            /\ Score(r[i])[1] \in Nat /\ Score(r[i])[2] \in Nat
        BY <1>4, <1>5, <2>1, <2>2, ScoreType
      <3>4. /\ Score(c)[1] * Score(r[i])[2] \in Int
            /\ Score(r[i])[1] * Score(c)[2] \in Int
        BY <3>3
      <3>5. QED
        BY <3>1, <3>2, <3>4
    <2>6. p \in 1 .. i - 1 /\ s[p] = c
      BY <1>10, <1>12, <2>1, <2>2, <2>4, <2>5, <1>3
    <2>7. QED
      BY <2>6
  <1>14. Distinct(s)
    BY <1>3, <1>5, <1>10, <1>12 DEF Distinct
  <1>15. QED
    BY <1>2, <1>4, <1>10, <1>12, <1>13, <1>14

(***************************************************************************)
(* The budget                                                              *)
(***************************************************************************)
LEMMA SizeOfEmpty == SizeOf(<<>>) = 0
  <1>1. DOMAIN <<>> = {}
    OBVIOUS
  <1>2. QED
    BY <1>1 DEF SizeOf, FoldLeft, MapThenFoldSet

\* The blocks that are used are the chunks up to one of them, and within the budget.
LEMMA UsedType ==
    ASSUME NEW S, chunks \in Seq(S)
    PROVE  \E m \in 0 .. Len(chunks) : Used = SubSeq(chunks, 1, m) /\ SizeOf(Used) <= CharBudget
  <1> DEFINE fits == {n \in 0 .. Len(chunks) : SizeOf(SubSeq(chunks, 1, n)) <= CharBudget}
  <1>0. Len(chunks) \in Nat
    OBVIOUS
  <1>1. SubSeq(chunks, 1, 0) = <<>>
    OBVIOUS
  <1>2. 0 \in fits
    <2>1. SizeOf(SubSeq(chunks, 1, 0)) <= CharBudget
      <3>1. SizeOf(SubSeq(chunks, 1, 0)) = 0
        BY <1>1, SizeOfEmpty, Zenon
      <3>2. 0 <= CharBudget
        BY ConstantsAssumption
      <3>3. QED
        BY <3>1, <3>2, Zenon
    <2>2. 0 \in 0 .. Len(chunks)
      BY <1>0
    <2>3. QED
      BY <2>1, <2>2, Zenon
  <1>3. \E x \in fits : \A y \in fits : x >= y
    <2> DEFINE T == {n \in 0 .. Len(chunks) : Len(chunks) - n \in fits}
    <2>1. T \in SUBSET Nat /\ Len(chunks) \in T
      BY <1>2
    <2>2. PICK x \in T : \A y \in T : x <= y
      BY <2>1, Least
    <2>3. Len(chunks) - x \in fits /\ x \in 0 .. Len(chunks)
      OBVIOUS
    <2>4. ASSUME NEW y \in fits
          PROVE  Len(chunks) - x >= y
      <3>1. y \in 0 .. Len(chunks) /\ Len(chunks) - (Len(chunks) - y) = y
        BY <1>0
      <3>2. Len(chunks) - y \in T
        BY <1>0, <3>1
      <3>3. x <= Len(chunks) - y
        BY <2>2, <3>2
      <3>4. QED
        BY <1>0, <2>3, <3>1, <3>3
    <2>5. QED
      BY <2>3, <2>4
  <1>4. Max(fits) \in fits
    BY <1>3 DEF Max
  <1>5. QED
    BY <1>4 DEF Used

(***************************************************************************)
(* The invariant                                                           *)
(***************************************************************************)
\* What the WHERE of both legs says of a chunk, later: its document was ready then.
May(c) ==
    LET d == DocOf[c]
    IN  /\ d \in found /\ SourceOf[d] \notin Disabled
        /\ UploadedBy[d] = User \/ c \in Law
        /\ filter = {} \/ SourceOf[d] \in filter

TypeInv ==
    /\ doc \in [Docs -> {"processing", "ready", "deleted"}]
    /\ rows \in SUBSET Chunks /\ filter \in SUBSET Sources
    /\ Leg(vec) /\ Leg(fts)

\* What each step of the turn finds untouched.
FreshInv ==
    /\ pc = "idle" => filter = {}
    /\ pc \in {"idle", "rank", "refused"} => scored = <<>>
    /\ pc \in {"idle", "rank", "refused", "load"} => chunks = <<>>
    /\ pc # "done" => blocks = <<>> /\ citations = <<>>
    /\ pc # "refused" => \A s \in filter : OwnerOf[s] = User

ScoredInv ==
    /\ scored \in Seq(Chunks) /\ Len(scored) <= TopN
    /\ \A i \in DOMAIN scored : May(scored[i])
    /\ Ordered(scored)

ChunksInv ==
    /\ chunks \in Seq([chunk : Chunks, rank : Nat]) /\ Len(chunks) <= TopN
    /\ \A i \in DOMAIN chunks : chunks[i].rank = i /\ May(chunks[i].chunk)
    /\ \A i \in DOMAIN chunks : \A c \in Chunks :
           Dominates(c, chunks[i].chunk) =>
               c \notin rows \/ \E j \in 1 .. i - 1 : chunks[j].chunk = c

\* The prompt and the citations are the same chunks, up to one of them.
BlocksInv ==
    /\ citations = blocks
    /\ \E m \in 0 .. Len(chunks) : blocks = SubSeq(chunks, 1, m)
    /\ SizeOf(blocks) <= CharBudget

SearchInv == TypeInv /\ FreshInv /\ ScoredInv /\ ChunksInv /\ BlocksInv

LEMMA InitInv == Init => SearchInv
  <1> SUFFICES ASSUME Init
               PROVE  SearchInv
    OBVIOUS
  <1>1. TypeInv /\ FreshInv
    BY DEF Init, TypeInv, FreshInv, Leg, Distinct
  <1>2. ScoredInv /\ ChunksInv
    BY ConstantsAssumption DEF Init, ScoredInv, ChunksInv, Ordered
  <1>3. BlocksInv
    <2>1. SubSeq(chunks, 1, 0) = <<>> /\ 0 \in 0 .. Len(chunks)
      BY DEF Init
    <2>2. SizeOf(blocks) <= CharBudget
      BY SizeOfEmpty, ConstantsAssumption DEF Init
    <2>3. QED
      BY <2>1, <2>2 DEF Init, BlocksInv
  <1>4. QED
    BY <1>1, <1>2, <1>3 DEF SearchInv

\* Sequences of records, which the provers take better as of any set.
LEMMA SequenceOf ==
    ASSUME NEW S, NEW s \in Seq(S)
    PROVE  Len(s) \in Nat /\ DOMAIN s = 1 .. Len(s) /\ \A i \in DOMAIN s : s[i] \in S
  OBVIOUS

LEMMA SequenceFrom ==
    ASSUME NEW S, NEW n \in Nat, NEW s \in [1 .. n -> S]
    PROVE  s \in Seq(S) /\ Len(s) = n
  OBVIOUS

LEMMA SequenceUpTo ==
    ASSUME NEW S, NEW s \in Seq(S), NEW m \in 0 .. Len(s)
    PROVE  /\ SubSeq(s, 1, m) \in Seq(S) /\ DOMAIN SubSeq(s, 1, m) = 1 .. m
           /\ \A i \in 1 .. m : SubSeq(s, 1, m)[i] = s[i] /\ i \in DOMAIN s
  OBVIOUS

\* A step that leaves the search alone and adds no chunk.
LEMMA DocumentStep ==
    ASSUME SearchInv, UNCHANGED search,
           doc' \in [Docs -> {"processing", "ready", "deleted"}],
           rows' \subseteq rows,
           FreshInv'
    PROVE  SearchInv'
  <1> USE DEF SearchInv
  <1>1. filter' = filter /\ vec' = vec /\ fts' = fts /\ scored' = scored /\ chunks' = chunks
        /\ blocks' = blocks /\ citations' = citations /\ found' = found
    BY DEF search
  <1>2. TypeInv'
    BY <1>1 DEF TypeInv
  <1>3. \A c \in Chunks : DocOf[c] \in Docs /\ (May(c) => May(c)')
    BY <1>1, ConstantsAssumption DEF May
  <1>4. \A c, e : Dominates(c, e)' <=> Dominates(c, e)
    BY <1>1 DEF Dominates
  <1>5. ScoredInv'
    BY <1>1, <1>3, <1>4 DEF ScoredInv, Ordered
  <1>6. ChunksInv'
    <2>1. \A i \in DOMAIN chunks : chunks[i].chunk \in Chunks
      <3>1. chunks \in Seq([chunk : Chunks, rank : Nat])
        BY DEF ChunksInv
      <3>2. \A i \in DOMAIN chunks : chunks[i] \in [chunk : Chunks, rank : Nat]
        BY <3>1, SequenceOf
      <3>3. QED
        BY <3>2
    <2>2. QED
      BY <1>1, <1>3, <1>4, <2>1 DEF ChunksInv
  <1>7. BlocksInv'
    BY <1>1 DEF BlocksInv
  <1>8. QED
    BY <1>2, <1>5, <1>6, <1>7

LEMMA RankStep == SearchInv /\ Rank => SearchInv'
  <1> SUFFICES ASSUME SearchInv, Rank
               PROVE  SearchInv'
    OBVIOUS
  <1> USE DEF SearchInv
  <1> DEFINE V == {c \in Chunks : Eligible(c)}
             F == {c \in Chunks : FtsEligible(c)}
  <1>1. /\ pc = "rank" /\ vec' \in Legs(V) /\ fts' \in Legs(F) /\ scored' \in Fused
        /\ pc' = IF scored' = <<>> THEN "prompt" ELSE "load"
        /\ found' = {d \in Docs : doc[d] = "ready"}
        /\ UNCHANGED <<doc, rows, filter, chunks, blocks, citations>>
    BY DEF Rank, store
  <1>2. V \in SUBSET Chunks /\ F \in SUBSET Chunks
    OBVIOUS
  <1>3. Leg(vec') /\ Leg(fts') /\ vec' \in Seq(V) /\ fts' \in Seq(F)
    BY <1>1, <1>2, LegType
  <1>4. TypeInv'
    BY <1>1, <1>3 DEF TypeInv, Leg, Distinct
  <1>5. FreshInv'
    BY <1>1 DEF FreshInv
  <1>6. \A c : In(vec', c) \/ In(fts', c) => c \in V \cup F
    BY <1>3 DEF In, ToSet
  <1>7. \A c \in V \cup F : May(c)'
    BY <1>1, ConstantsAssumption DEF May, FtsEligible, Eligible
  <1> HIDE DEF V, F
  <1>8. ScoredInv'
    BY <1>1, <1>3, <1>6, <1>7, FusedType DEF ScoredInv, Ordered
  <1>9. chunks' = <<>> /\ chunks = <<>>
    BY <1>1 DEF FreshInv
  <1>10. ChunksInv'
    BY <1>9, ConstantsAssumption DEF ChunksInv
  <1>11. BlocksInv'
    BY <1>1 DEF BlocksInv
  <1>12. QED
    BY <1>4, <1>5, <1>8, <1>10, <1>11

\* What of the first statement the second one finds is a part of it in its order.
LEMMA LoadStep == SearchInv /\ Load => SearchInv'
  <1> SUFFICES ASSUME SearchInv, Load
               PROVE  SearchInv'
    OBVIOUS
  <1> DEFINE there == {i \in DOMAIN scored : scored[i] \in rows}
             K     == Cardinality(there)
  <1>1. /\ pc = "load" /\ pc' = "prompt"
        /\ chunks' = [k \in 1 .. K |-> [chunk |-> scored[Nth(there, k)], rank |-> k]]
        /\ UNCHANGED <<doc, rows, filter, vec, fts, scored, blocks, citations, found>>
    BY DEF Load, store
  <1>2. /\ scored \in Seq(Chunks) /\ Len(scored) \in Nat /\ DOMAIN scored = 1 .. Len(scored)
        /\ Len(scored) <= TopN
    BY DEF SearchInv, ScoredInv
  <1>3. there \in SUBSET (1 .. Len(scored))
    BY <1>2
  <1>4. \A i \in 1 .. Len(scored) : i \in there <=> scored[i] \in rows
    BY <1>2
  <1> HIDE DEF there
  <1>5. K \in Nat /\ K <= Len(scored)
    <2>1. IsFiniteSet(1 .. Len(scored)) /\ Cardinality(1 .. Len(scored)) = Len(scored)
      BY <1>2, FS_Interval
    <2>2. IsFiniteSet(there) /\ Cardinality(there) <= Cardinality(1 .. Len(scored))
      BY <1>3, <2>1, FS_Subset
    <2>3. Cardinality(there) \in Nat
      BY <2>2, FS_CardinalityType
    <2>4. QED
      BY <2>1, <2>2, <2>3
  <1>6. /\ \A k \in 1 .. K : Nth(there, k) \in there
        /\ \A i \in there : \E k \in 1 .. K : Nth(there, k) = i
        /\ \A k, l \in 1 .. K : Nth(there, k) < Nth(there, l) => k < l
    BY <1>2, <1>3, NthEnumerates
  <1> HIDE DEF K
  <1>7. \A k \in 1 .. K : Nth(there, k) \in 1 .. Len(scored) /\ scored[Nth(there, k)] \in Chunks
    <2>1. \A k \in 1 .. K : Nth(there, k) \in 1 .. Len(scored)
      BY <1>3, <1>6
    <2>2. \A i \in 1 .. Len(scored) : scored[i] \in Chunks
      BY <1>2
    <2>3. QED
      BY <2>1, <2>2
  <1>8. /\ chunks' \in Seq([chunk : Chunks, rank : Nat]) /\ Len(chunks') = K
        /\ DOMAIN chunks' = 1 .. K
        /\ \A k \in 1 .. K : chunks'[k].chunk = scored[Nth(there, k)] /\ chunks'[k].rank = k
    <2>1. chunks' \in [1 .. K -> [chunk : Chunks, rank : Nat]]
      BY <1>1, <1>5, <1>7
    <2>2. chunks' \in Seq([chunk : Chunks, rank : Nat]) /\ Len(chunks') = K
      BY <1>5, <2>1, SequenceFrom
    <2>3. QED
      BY <1>1, <2>1, <2>2
  <1>9. \A c : (May(c)' <=> May(c)) /\ \A e : (Dominates(c, e)' <=> Dominates(c, e))
    BY <1>1 DEF May, Dominates
  <1>10. TypeInv' /\ FreshInv' /\ ScoredInv'
    <2>1. TypeInv'
      BY <1>1 DEF SearchInv, TypeInv, Leg, Distinct
    <2>2. FreshInv'
      BY <1>1 DEF SearchInv, FreshInv
    <2>3. ScoredInv'
      <3>1. /\ \A i \in DOMAIN scored : May(scored[i])
            /\ \A i \in DOMAIN scored : \A c \in Chunks :
                  Dominates(c, scored[i]) => \E j \in 1 .. i - 1 : scored[j] = c
        BY DEF SearchInv, ScoredInv, Ordered
      <3>2. /\ (\A i \in DOMAIN scored : May(scored[i]))'
            /\ (\A i \in DOMAIN scored : \A c \in Chunks :
                   Dominates(c, scored[i]) => \E j \in 1 .. i - 1 : scored[j] = c)'
        BY <1>1, <3>1, Zenon DEF May, Dominates
      <3>3. QED
        BY <1>1, <1>2, <3>1, <3>2 DEF ScoredInv, Ordered
    <2>4. QED
      BY <2>1, <2>2, <2>3
  <1>11. \A k \in 1 .. K : May(scored[Nth(there, k)])
    BY <1>2, <1>7 DEF SearchInv, ScoredInv
  <1>12. ASSUME NEW k \in 1 .. K, NEW c \in Chunks, Dominates(c, scored[Nth(there, k)])
         PROVE  c \notin rows \/ \E j \in 1 .. k - 1 : scored[Nth(there, j)] = c
    <2>1. PICK p \in 1 .. Nth(there, k) - 1 : scored[p] = c
      BY <1>2, <1>7, <1>12 DEF SearchInv, ScoredInv, Ordered
    <2>2. p \in 1 .. Len(scored) /\ p < Nth(there, k)
      BY <1>2, <1>7, <2>1
    <2>3. CASE p \in there
      <3>1. PICK j \in 1 .. K : Nth(there, j) = p
        BY <1>6, <2>3
      <3>2. j < k
        BY <1>6, <2>2, <3>1
      <3>3. j \in 1 .. k - 1
        BY <1>5, <3>2
      <3>4. QED
        BY <2>1, <3>1, <3>3
    <2>4. CASE p \notin there
      BY <1>4, <2>1, <2>2, <2>4
    <2>5. QED
      BY <2>3, <2>4
  <1>13. ChunksInv'
    <2>1. (\A k \in DOMAIN chunks : chunks[k].rank = k /\ May(chunks[k].chunk))'
      BY <1>1, <1>8, <1>11 DEF May
    <2>2. (\A k \in DOMAIN chunks : \A c \in Chunks :
               Dominates(c, chunks[k].chunk) =>
                   c \notin rows \/ \E j \in 1 .. k - 1 : chunks[j].chunk = c)'
      <3>1. ASSUME NEW k \in 1 .. K, NEW c \in Chunks, Dominates(c, scored[Nth(there, k)])
            PROVE  c \notin rows \/ \E j \in 1 .. k - 1 : chunks'[j].chunk = c
        <4>1. \A j \in 1 .. k - 1 : j \in 1 .. K
          BY <1>5
        <4>2. \A j \in 1 .. k - 1 : chunks'[j].chunk = scored[Nth(there, j)]
          BY <1>8, <4>1
        <4>3. c \notin rows \/ \E j \in 1 .. k - 1 : scored[Nth(there, j)] = c
          BY <1>12, <3>1
        <4>4. QED
          BY <4>2, <4>3
      <3>2. \A k \in 1 .. K : \A c \in Chunks :
               Dominates(c, chunks'[k].chunk) =>
                   c \notin rows \/ \E j \in 1 .. k - 1 : chunks'[j].chunk = c
        <4>1. ASSUME NEW k \in 1 .. K, NEW c \in Chunks, Dominates(c, chunks'[k].chunk)
              PROVE  c \notin rows \/ \E j \in 1 .. k - 1 : chunks'[j].chunk = c
          <5>1. chunks'[k].chunk = scored[Nth(there, k)]
            BY <1>8
          <5>2. Dominates(c, scored[Nth(there, k)])
            BY <4>1, <5>1, Zenon
          <5>3. QED
            BY <3>1, <5>2
        <4>2. QED
          BY <4>1
      <3>3. DOMAIN chunks' = 1 .. K /\ rows' = rows /\ vec' = vec /\ fts' = fts
        BY <1>1, <1>8
      <3>4. QED
        BY <3>2, <3>3, Zenon DEF Dominates
    <2>3. Len(chunks') <= TopN
      BY <1>2, <1>5, <1>8, ConstantsAssumption
    <2>4. QED
      BY <1>8, <2>1, <2>2, <2>3 DEF ChunksInv
  <1>14. BlocksInv'
    <2>1. blocks = <<>> /\ citations = <<>>
      BY <1>1 DEF SearchInv, FreshInv
    <2>2. SubSeq(chunks', 1, 0) = <<>> /\ 0 \in 0 .. Len(chunks')
      BY <1>5, <1>8
    <2>3. SizeOf(blocks) <= CharBudget
      BY DEF SearchInv, BlocksInv
    <2>4. blocks' = blocks /\ citations' = citations
      BY <1>1
    <2>5. QED
      BY <2>1, <2>2, <2>3, <2>4 DEF BlocksInv
  <1>15. QED
    BY <1>10, <1>13, <1>14 DEF SearchInv

LEMMA PromptStep == SearchInv /\ Prompt => SearchInv'
  <1> SUFFICES ASSUME SearchInv, Prompt
               PROVE  SearchInv'
    OBVIOUS
  <1>1. /\ pc = "prompt" /\ pc' = "done" /\ blocks' = Numbered(Used) /\ citations' = Numbered(Used)
        /\ UNCHANGED <<doc, rows, filter, vec, fts, scored, chunks, found>>
    BY DEF Prompt, store
  <1>2. /\ chunks \in Seq([chunk : Chunks, rank : Nat])
        /\ \A i \in DOMAIN chunks : chunks[i].rank = i
    BY DEF SearchInv, ChunksInv
  <1>3. PICK m \in 0 .. Len(chunks) : Used = SubSeq(chunks, 1, m) /\ SizeOf(Used) <= CharBudget
    BY <1>2, UsedType
  <1>4. Numbered(Used) = Used
    <2>1. /\ Used \in Seq([chunk : Chunks, rank : Nat]) /\ DOMAIN Used = 1 .. m
          /\ \A i \in 1 .. m : Used[i] = chunks[i] /\ i \in DOMAIN chunks
      BY <1>2, <1>3, SequenceUpTo
    <2>a. \A i \in 1 .. m : Used[i] \in [chunk : Chunks, rank : Nat]
      BY <2>1, SequenceOf
    <2>2. \A i \in 1 .. m : Used[i] = [chunk |-> Used[i].chunk, rank |-> i]
      BY <1>2, <2>1, <2>a
    <2>3. Used = [i \in DOMAIN Used |-> Used[i]]
      BY <2>1
    <2>4. QED
      BY <2>1, <2>2, <2>3 DEF Numbered
  <1>6. TypeInv'
    BY <1>1 DEF SearchInv, TypeInv, Leg, Distinct
  <1>7. FreshInv'
    BY <1>1 DEF SearchInv, FreshInv
  <1>8. ScoredInv'
    <2>1. /\ scored \in Seq(Chunks) /\ Len(scored) <= TopN
          /\ \A i \in DOMAIN scored : May(scored[i])
          /\ \A i \in DOMAIN scored : \A c \in Chunks :
                Dominates(c, scored[i]) => \E j \in 1 .. i - 1 : scored[j] = c
      BY DEF SearchInv, ScoredInv, Ordered
    <2>2. /\ (\A i \in DOMAIN scored : May(scored[i]))'
          /\ (\A i \in DOMAIN scored : \A c \in Chunks :
                 Dominates(c, scored[i]) => \E j \in 1 .. i - 1 : scored[j] = c)'
      BY <1>1, <2>1, Zenon DEF May, Dominates
    <2>3. QED
      BY <1>1, <2>1, <2>2 DEF ScoredInv, Ordered
  <1>9. ChunksInv'
    <2>1. /\ \A i \in DOMAIN chunks : chunks[i].rank = i /\ May(chunks[i].chunk)
          /\ \A i \in DOMAIN chunks : \A c \in Chunks :
                Dominates(c, chunks[i].chunk) =>
                    c \notin rows \/ \E j \in 1 .. i - 1 : chunks[j].chunk = c
      BY DEF SearchInv, ChunksInv
    <2>2. (\A i \in DOMAIN chunks : chunks[i].rank = i /\ May(chunks[i].chunk))'
      BY <1>1, <2>1, Zenon DEF May
    <2>3. ASSUME NEW i \in DOMAIN chunks, NEW c \in Chunks, Dominates(c, chunks[i].chunk)'
          PROVE  c \notin rows \/ \E j \in 1 .. i - 1 : chunks[j].chunk = c
      <3>1. Dominates(c, chunks[i].chunk)
        BY <1>1, <2>3, Zenon DEF Dominates
      <3>2. QED
        BY <2>1, <3>1, Zenon
    <2>4. QED
      BY <1>1, <2>2, <2>3 DEF SearchInv, ChunksInv
  <1>10. BlocksInv'
    BY <1>1, <1>3, <1>4, Zenon DEF BlocksInv
  <1>11. QED
    BY <1>6, <1>7, <1>8, <1>9, <1>10 DEF SearchInv

\* Asking, failing, and what happens to the documents meanwhile.
LEMMA OtherSteps ==
    ASSUME SearchInv,
           \/ \E sources \in SUBSET Sources : Ask(sources)
           \/ RetrieveFails
           \/ \E d \in Docs : BecomesReady(d) \/ SetBack(d) \/ ReplaceChunks(d) \/ Delete(d)
           \/ UNCHANGED vars
    PROVE  SearchInv'
  <1>1. ASSUME NEW sources \in SUBSET Sources, Ask(sources)
        PROVE  SearchInv'
    <2>1. /\ pc = "idle" /\ filter' = sources
          /\ pc' = IF \E s \in sources : OwnerOf[s] # User THEN "refused" ELSE "rank"
          /\ UNCHANGED <<doc, rows, vec, fts, scored, chunks, blocks, citations, found>>
      BY <1>1 DEF Ask, store
    <2>2. scored = <<>> /\ chunks = <<>> /\ blocks = <<>> /\ citations = <<>>
      BY <2>1 DEF SearchInv, FreshInv
    <2>3. TypeInv'
      BY <2>1 DEF SearchInv, TypeInv, Leg, Distinct
    <2>4. FreshInv'
      BY <2>1, <2>2 DEF FreshInv
    <2>5. ScoredInv' /\ ChunksInv'
      BY <2>1, <2>2, ConstantsAssumption DEF ScoredInv, ChunksInv, Ordered
    <2>6. BlocksInv'
      BY <2>1 DEF SearchInv, BlocksInv
    <2>7. QED
      BY <2>3, <2>4, <2>5, <2>6 DEF SearchInv
  <1>2. CASE RetrieveFails
    <2>1. doc' = doc /\ rows' = rows /\ UNCHANGED search /\ pc \in {"rank", "load"} /\ pc' = "failed"
      BY <1>2 DEF RetrieveFails, store
    <2>2. FreshInv'
      BY <2>1 DEF SearchInv, FreshInv, search
    <2>3. QED
      BY <2>1, <2>2, DocumentStep DEF SearchInv, TypeInv
  <1>3. ASSUME NEW d \in Docs, BecomesReady(d) \/ SetBack(d) \/ ReplaceChunks(d) \/ Delete(d)
        PROVE  SearchInv'
    <2>1. /\ UNCHANGED <<pc, search>> /\ rows' \subseteq rows
          /\ \E st \in {"processing", "ready", "deleted"} : doc' = [doc EXCEPT ![d] = st]
      BY <1>3 DEF BecomesReady, SetBack, ReplaceChunks, Delete
    <2>2. FreshInv'
      BY <2>1 DEF SearchInv, FreshInv, search
    <2>3. doc \in [Docs -> {"processing", "ready", "deleted"}]
      BY DEF SearchInv, TypeInv
    <2>4. doc' \in [Docs -> {"processing", "ready", "deleted"}]
      BY <2>1, <2>3
    <2>5. QED
      BY <2>1, <2>2, <2>4, DocumentStep
  <1>4. CASE UNCHANGED vars
    <2>1. doc' = doc /\ rows' = rows /\ pc' = pc /\ UNCHANGED search
      BY <1>4 DEF vars, store
    <2>2. FreshInv'
      BY <2>1 DEF SearchInv, FreshInv, search
    <2>3. QED
      BY <2>1, <2>2, DocumentStep DEF SearchInv, TypeInv
  <1>5. QED
    BY <1>1, <1>2, <1>3, <1>4

LEMMA Invariance == Spec => []SearchInv
  <1>1. SearchInv /\ [Next]_vars => SearchInv'
    BY RankStep, LoadStep, PromptStep, OtherSteps DEF Next
  <1>2. QED
    BY <1>1, InitInv, PTL DEF Spec

(***************************************************************************)
(* The theorems                                                            *)
(***************************************************************************)
\* For any documents, sources, users and limits, whatever order the two legs come in
\* and whatever happens to the documents between the two statements of
\* PgVectorChunkIndex.hybrid_search: the prompt holds only what the WHERE of both legs
\* lets through (pgvector_index.py:34-66) and the sources of the request are the
\* user's own.
THEOREM OnlyAllowedIsShown == Spec => []OnlyAllowed
  <1>1. SearchInv => OnlyAllowed
    <2> SUFFICES ASSUME SearchInv, NEW i \in DOMAIN blocks
                 PROVE  LET c == blocks[i].chunk
                            d == DocOf[c]
                        IN  /\ d \in found /\ SourceOf[d] \notin Disabled
                            /\ UploadedBy[d] = User \/ c \in Law
                            /\ \A s \in filter : OwnerOf[s] = User
                            /\ filter = {} \/ SourceOf[d] \in filter
      BY DEF OnlyAllowed
    <2>1. chunks \in Seq([chunk : Chunks, rank : Nat])
      BY DEF SearchInv, ChunksInv
    <2>2. PICK m \in 0 .. Len(chunks) : blocks = SubSeq(chunks, 1, m)
      BY DEF SearchInv, BlocksInv
    <2>3. blocks[i] = chunks[i] /\ i \in DOMAIN chunks
      BY <2>1, <2>2, SequenceUpTo
    <2>4. May(blocks[i].chunk)
      BY <2>3 DEF SearchInv, ChunksInv
    <2>5. \A s \in filter : OwnerOf[s] = User
      <3>1. blocks # <<>>
        OBVIOUS
      <3>2. QED
        BY <3>1 DEF SearchInv, FreshInv
    <2>6. QED
      BY <2>4, <2>5 DEF May
  <1>2. QED
    BY <1>1, Invariance, PTL

\* Reciprocal rank fusion, LIMIT top_n, the second statement that skips what is gone and
\* the character budget (pgvector_index.py:68-74, 145-170; prompts.py:43-64) keep the
\* order of dominance, for every RRF constant and all limits.
THEOREM DominanceHolds == Spec => []DominanceKept
  <1>1. SearchInv => DominanceKept
    <2> SUFFICES ASSUME SearchInv, NEW i \in DOMAIN blocks, NEW c \in Chunks,
                        Dominates(c, blocks[i].chunk)
                 PROVE  c \notin rows \/ \E j \in 1 .. i - 1 : blocks[j].chunk = c
      BY DEF DominanceKept
    <2>1. chunks \in Seq([chunk : Chunks, rank : Nat])
      BY DEF SearchInv, ChunksInv
    <2>2. PICK m \in 0 .. Len(chunks) : blocks = SubSeq(chunks, 1, m)
      BY DEF SearchInv, BlocksInv
    <2>3. /\ DOMAIN blocks = 1 .. m
          /\ \A j \in 1 .. m : blocks[j] = chunks[j] /\ j \in DOMAIN chunks
      <3>1. /\ DOMAIN SubSeq(chunks, 1, m) = 1 .. m
            /\ \A j \in 1 .. m : SubSeq(chunks, 1, m)[j] = chunks[j] /\ j \in DOMAIN chunks
        BY <2>1, SequenceUpTo
      <3>2. QED
        BY <2>2, <3>1, Zenon
    <2>a. i \in DOMAIN chunks /\ Dominates(c, chunks[i].chunk)
      BY <2>3
    <2>b. \A k \in DOMAIN chunks : \A e \in Chunks :
             Dominates(e, chunks[k].chunk) =>
                 e \notin rows \/ \E j \in 1 .. k - 1 : chunks[j].chunk = e
      BY DEF SearchInv, ChunksInv
    <2>4. c \notin rows \/ \E j \in 1 .. i - 1 : chunks[j].chunk = c
      BY <2>a, <2>b, Zenon
    <2>5. \A j \in 1 .. i - 1 : j \in 1 .. m
      BY <2>2, <2>3
    <2>6. QED
      BY <2>3, <2>4, <2>5
  <1>2. QED
    BY <1>1, Invariance, PTL

\* rag_system_prompt numbers its blocks, the citations enumerate the list it returns
\* (prompts.py:43-64, chat_orchestrator.py:316-343): the numbers agree with the search
\* result, and the blocks keep to char_budget and top_n, for any sizes.
THEOREM NumbersAgree == Spec => []CitedAsNumbered
  <1>1. SearchInv => CitedAsNumbered
    <2> SUFFICES ASSUME SearchInv
                 PROVE  CitedAsNumbered
      OBVIOUS
    <2>1. /\ chunks \in Seq([chunk : Chunks, rank : Nat]) /\ Len(chunks) <= TopN
          /\ \A i \in DOMAIN chunks : chunks[i].rank = i
      BY DEF SearchInv, ChunksInv
    <2>2. PICK m \in 0 .. Len(chunks) : blocks = SubSeq(chunks, 1, m)
      BY DEF SearchInv, BlocksInv
    <2>3. /\ blocks \in Seq([chunk : Chunks, rank : Nat]) /\ DOMAIN blocks = 1 .. m
          /\ \A j \in 1 .. m : blocks[j] = chunks[j] /\ j \in DOMAIN chunks
      BY <2>1, <2>2, SequenceUpTo
    <2>4. Len(blocks) = m /\ Len(chunks) \in Nat
      BY <2>1, <2>2, <2>3, SequenceOf
    <2>5. IsPrefix(blocks, chunks)
      <3>1. blocks = SubSeq(chunks, 1, Len(blocks)) /\ Len(blocks) <= Len(chunks)
        BY <2>2, <2>4
      <3>2. QED
        BY <3>1 DEF IsPrefix
    <2>6. Len(blocks) <= TopN
      BY <2>1, <2>2, <2>4, ConstantsAssumption
    <2>7. \A i \in DOMAIN blocks : blocks[i].rank = i
      BY <2>1, <2>3
    <2>8. QED
      BY <2>5, <2>6, <2>7 DEF CitedAsNumbered, SearchInv, BlocksInv
  <1>2. QED
    BY <1>1, Invariance, PTL
==============================================================================
