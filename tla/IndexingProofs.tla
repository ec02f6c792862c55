---------------------------- MODULE IndexingProofs ----------------------------
(***************************************************************************)
(* Proofs about Indexing: what each algorithm of the chunking returns, and *)
(* the four invariants of the run, each from an inductive one (VectorsInv, *)
(* SizeInv, LossInv and SectionInv, the last two on top of SizeInv, which  *)
(* contains VectorsInv).                                                   *)
(*                                                                         *)
(* Induction is by the least counterexample (Least).  For the folds,       *)
(* FoldExists and FoldRuns turn FoldLeft into a sequence of partial        *)
(* results (Run); SeqInduct is about what Append keeps; SplitsExists is    *)
(* about the recursive function of SplitToLimit.                           *)
(***************************************************************************)
EXTENDS Indexing, FiniteSetTheorems, SequenceTheorems, WellFoundedInduction, TLAPS

(***************************************************************************)
(* Numbers: the first and the last of a set                                *)
(***************************************************************************)
LEMMA Least ==
    ASSUME NEW T \in SUBSET Nat, T # {}
    PROVE  \E x \in T : \A y \in T : x <= y
  <1> DEFINE R == OpToRel(<, Nat)
  <1>1. IsWellFoundedOn(R, Nat)
    BY NatLessThanWellFounded
  <1>2. \A x, y \in Nat : x < y => <<x, y>> \in R
    BY DEF OpToRel
  <1> HIDE DEF R
  <1>3. PICK x \in T : \A y \in T : ~ (<<y, x>> \in R)
    BY <1>1, WFMin
  <1>4. \A y \in T : ~(y < x)
    BY <1>2, <1>3
  <1>5. QED
    BY <1>4

LEMMA MinIs ==
    ASSUME NEW T \in SUBSET Nat, T # {}
    PROVE  Min(T) \in T /\ \A y \in T : Min(T) <= y
  BY Least DEF Min

LEMMA MaxIs ==
    ASSUME NEW n \in Nat, NEW T \in SUBSET (0 .. n), T # {}
    PROVE  Max(T) \in T /\ \A y \in T : y <= Max(T)
  <1> DEFINE U == {m \in 0 .. n : \A y \in T : y <= m}
  <1>1. n \in U /\ U \in SUBSET Nat
    OBVIOUS
  <1>2. PICK m \in U : \A l \in U : m <= l
    BY <1>1, Least
  <1>3. m \in T
    <2>1. CASE m = 0
      <3>1. PICK y \in T : TRUE
        OBVIOUS
      <3>2. y = 0
        BY <1>2, <2>1
      <3>3. QED
        BY <2>1, <3>2
    <2>2. CASE m # 0 /\ m \notin T
      <3>1. m - 1 \in U
        BY <2>2
      <3>2. QED
        BY <1>2, <3>1
    <2>3. QED
      BY <2>1, <2>2
  <1>4. \E x \in T : \A y \in T : x >= y
    BY <1>2, <1>3
  <1>5. Max(T) \in T /\ \A y \in T : Max(T) >= y
    BY <1>4 DEF Max
  <1>6. QED
    BY <1>5

LEMMA MaxOfInterval ==
    ASSUME NEW k \in Nat \ {0}
    PROVE  Max(1 .. k) = k /\ (1 .. k) \ {k} = 1 .. k - 1
  <1>0. 1 .. k \in SUBSET (0 .. k) /\ 1 .. k # {}
    OBVIOUS
  <1>1. Max(1 .. k) \in 1 .. k /\ \A y \in 1 .. k : y <= Max(1 .. k)
    BY <1>0, MaxIs
  <1>2. Max(1 .. k) = k
    BY <1>1
  <1>3. QED
    BY <1>2

(***************************************************************************)
(* Folds.  The accumulators of a fold over the positions 1 .. n, in a set  *)
(* X that is closed under its steps: run[k] is what it holds after k of    *)
(* them.                                                                   *)
(***************************************************************************)
Run(run, n, X, base, G, end) ==
    /\ run \in [0 .. n -> X] /\ run[0] = base /\ run[n] = end
    /\ \A k \in 1 .. n : run[k] = G[<<k, run[k - 1]>>]

\* What a fold iterates, on every set of positions.
Iterates(iter, n, X, base, G) ==
    /\ iter \in [SUBSET (1 .. n) -> X] /\ iter[{}] = base
    /\ \A s \in SUBSET (1 .. n) : s # {} => iter[s] = G[<<Max(s), iter[s \ {Max(s)}]>>]

\* Such an iteration exists.
LEMMA FoldExists ==
    ASSUME NEW n \in Nat, NEW X, NEW base \in X, NEW G \in [(1 .. n) \X X -> X]
    PROVE  \E iter : Iterates(iter, n, X, base, G)
  <1> USE DEF Iterates
  <1> DEFINE Good(k, it) == Iterates(it, k, X, base, G)
             Bad == {k \in 0 .. n : ~ \E it : Good(k, it)}
  <1>1. 0 \notin Bad
    <2> DEFINE it == [s \in SUBSET (1 .. 0) |-> base]
    <2>1. SUBSET (1 .. 0) = {{}}
      OBVIOUS
    <2>2. Good(0, it)
      BY <2>1
    <2>3. QED
      BY <2>2
  <1>2. ASSUME NEW k \in 1 .. n, k - 1 \notin Bad
        PROVE  k \notin Bad
    <2>1. PICK it : Good(k - 1, it)
      <3>1. k - 1 \in 0 .. n
        OBVIOUS
      <3>2. QED
        BY <1>2, <3>1
    <2> DEFINE next == [s \in SUBSET (1 .. k) |->
                          IF k \in s THEN G[<<k, it[s \ {k}]>>] ELSE it[s]]
    <2>2. ASSUME NEW s \in SUBSET (1 .. k), k \notin s
          PROVE  s \in SUBSET (1 .. k - 1)
      BY <2>2
    <2>3. ASSUME NEW s \in SUBSET (1 .. k), k \in s
          PROVE  Max(s) = k /\ s \ {k} \in SUBSET (1 .. k - 1)
      <3>1. s \in SUBSET (0 .. k) /\ s # {}
        BY <2>3
      <3>2. Max(s) \in s /\ \A y \in s : y <= Max(s)
        BY <3>1, MaxIs
      <3>3. Max(s) = k
        <4>1. Max(s) \in 1 .. k /\ k <= Max(s)
          BY <2>3, <3>2
        <4>2. QED
          BY <4>1
      <3>4. \A y \in s \ {k} : y \in 1 .. k - 1
        OBVIOUS
      <3>5. QED
        BY <3>3, <3>4
    <2>4. next \in [SUBSET (1 .. k) -> X]
      <3>1. ASSUME NEW s \in SUBSET (1 .. k)
            PROVE  (IF k \in s THEN G[<<k, it[s \ {k}]>>] ELSE it[s]) \in X
        <4>1. CASE k \in s
          BY <2>1, <2>3, <4>1
        <4>2. CASE k \notin s
          BY <2>1, <2>2, <4>2
        <4>3. QED
          BY <4>1, <4>2
      <3>2. QED
        BY <3>1
    <2>5. next[{}] = base
      BY <2>1
    <2>6. ASSUME NEW s \in SUBSET (1 .. k), s # {}
          PROVE  next[s] = G[<<Max(s), next[s \ {Max(s)}]>>]
      <3>1. CASE k \in s
        <4>1. next[s \ {k}] = it[s \ {k}]
          BY <2>3, <3>1
        <4>2. QED
          BY <2>3, <3>1, <4>1
      <3>2. CASE k \notin s
        <4>1. next[s] = it[s] /\ it[s] = G[<<Max(s), it[s \ {Max(s)}]>>]
          BY <2>1, <2>2, <2>6, <3>2
        <4>2. next[s \ {Max(s)}] = it[s \ {Max(s)}]
          BY <3>2
        <4>3. QED
          BY <4>1, <4>2
      <3>3. QED
        BY <3>1, <3>2
    <2> HIDE DEF next
    <2>7. Good(k, next)
      BY <2>4, <2>5, <2>6
    <2>8. QED
      BY <2>7
  <1> HIDE DEF Good
  <1>3. Bad = {}
    <2>1. ASSUME Bad # {}
          PROVE  FALSE
      <3>0. Bad \in SUBSET Nat
        OBVIOUS
      <3>1. PICK k \in Bad : \A l \in Bad : k <= l
        BY <2>1, <3>0, Least
      <3>2. k # 0 /\ k \in 0 .. n
        BY <1>1, <3>1
      <3>3. k \in 1 .. n /\ k - 1 \notin Bad
        BY <3>1, <3>2
      <3>4. QED
        BY <1>2, <3>1, <3>3
    <2>2. QED
      BY <2>1
  <1>4. PICK it : Good(n, it)
    BY <1>3
  <1>5. QED
    BY <1>4 DEF Good

\* The same of any function, as long as it stays in X.
Follows(iter, n, X, base, G) ==
    /\ iter[{}] = base
    /\ \A s \in SUBSET (1 .. n) : s # {} /\ iter[s \ {Max(s)}] \in X =>
                                    iter[s] = G[<<Max(s), iter[s \ {Max(s)}]>>]

LEMMA FoldRuns ==
    ASSUME NEW n \in Nat, NEW X, NEW base \in X, NEW G \in [(1 .. n) \X X -> X],
           NEW iter, Follows(iter, n, X, base, G)
    PROVE  \E run : Run(run, n, X, base, G, iter[1 .. n])
  <1>0. ASSUME NEW k \in 1 .. n, iter[1 .. k - 1] \in X
        PROVE  iter[1 .. k] = G[<<k, iter[1 .. k - 1]>>]
    <2>1. k \in 1 .. k /\ \A j \in 1 .. k : j \in 1 .. n
      OBVIOUS
    <2>2. 1 .. k \in SUBSET (1 .. n) /\ 1 .. k # {}
      BY <2>1
    <2>3. Max(1 .. k) = k /\ (1 .. k) \ {k} = 1 .. k - 1
      BY MaxOfInterval
    <2>4. QED
      BY <1>0, <2>2, <2>3 DEF Follows
  <1> DEFINE Bad == {k \in 0 .. n : iter[1 .. k] \notin X}
             run == [k \in 0 .. n |-> iter[1 .. k]]
  <1>1. 1 .. 0 = {}
    OBVIOUS
  <1>2. Bad = {}
    <2>1. ASSUME Bad # {}
          PROVE  FALSE
      <3>0. Bad \in SUBSET Nat
        OBVIOUS
      <3>1. PICK k \in Bad : \A l \in Bad : k <= l
        BY <2>1, <3>0, Least
      <3>2. k \in 0 .. n /\ k # 0
        BY <1>1, <3>1 DEF Follows
      <3>3. k \in 1 .. n /\ k - 1 \in 0 .. n /\ k - 1 \notin Bad
        BY <3>1, <3>2
      <3>4. QED
        BY <1>0, <3>1, <3>3
    <2>2. QED
      BY <2>1
  <1>3. run \in [0 .. n -> X]
    BY <1>2
  <1>4. run[0] = base
    BY <1>1 DEF Follows
  <1>5. \A k \in 1 .. n : run[k] = G[<<k, run[k - 1]>>]
    <2>1. \A k \in 1 .. n : k - 1 \in 0 .. n /\ iter[1 .. k - 1] \in X
      BY <1>2
    <2>2. QED
      BY <1>0, <2>1
  <1>6. run[n] = iter[1 .. n]
    OBVIOUS
  <1> HIDE DEF run
  <1>7. QED
    BY <1>3, <1>4, <1>5, <1>6 DEF Run

\* A run of one step more goes on from where the shorter one ends.
LEMMA RunsOn ==
    ASSUME NEW n \in Nat, NEW X, NEW base, NEW G, NEW H, NEW r, NEW q, NEW e, NEW f,
           Run(r, n, X, base, G, e), Run(q, n + 1, X, base, H, f),
           \A k \in 1 .. n, x \in X : H[<<k, x>>] = G[<<k, x>>]
    PROVE  f = H[<<n + 1, e>>]
  <1> DEFINE Bad == {k \in 0 .. n : q[k] # r[k]}
  <1>1. /\ r[0] = base /\ r[n] = e /\ \A k \in 1 .. n : r[k] = G[<<k, r[k - 1]>>]
        /\ q[0] = base /\ q[n + 1] = f /\ \A k \in 1 .. n + 1 : q[k] = H[<<k, q[k - 1]>>]
        /\ \A k \in 0 .. n : r[k] \in X
    BY DEF Run
  <1>2. Bad = {}
    <2>1. ASSUME Bad # {}
          PROVE  FALSE
      <3>0. Bad \in SUBSET Nat
        OBVIOUS
      <3>1. PICK k \in Bad : \A l \in Bad : k <= l
        BY <2>1, <3>0, Least
      <3>2. k \in 1 .. n /\ k - 1 \in 0 .. n /\ k - 1 \notin Bad
        BY <1>1, <3>1
      <3>3. q[k - 1] = r[k - 1] /\ r[k - 1] \in X
        BY <1>1, <3>2
      <3>4. q[k] = H[<<k, q[k - 1]>>] /\ r[k] = G[<<k, r[k - 1]>>]
        BY <1>1, <3>2
      <3>5. q[k] = r[k]
        BY <3>2, <3>3, <3>4
      <3>6. QED
        BY <3>1, <3>5
    <2>2. QED
      BY <2>1
  <1>3. q[n] = e
    BY <1>1, <1>2
  <1>4. n + 1 \in 1 .. n + 1 /\ (n + 1) - 1 = n
    OBVIOUS
  <1>5. QED
    BY <1>1, <1>3, <1>4

LEMMA MaxIn ==
    ASSUME NEW n \in Nat
    PROVE  \A s \in SUBSET (1 .. n) : s # {} => Max(s) \in s /\ Max(s) \in 1 .. n
  <1>1. ASSUME NEW s \in SUBSET (1 .. n), s # {}
        PROVE  Max(s) \in s /\ Max(s) \in 1 .. n
    <2>1. s \in SUBSET (0 .. n)
      OBVIOUS
    <2>2. Max(s) \in s
      BY <1>1, <2>1, MaxIs
    <2>3. QED
      BY <2>2
  <1>2. QED
    BY <1>1

(***************************************************************************)
(* The operators of the model that are folds                               *)
(***************************************************************************)
LEMMA SeqIs ==
    ASSUME NEW S, NEW s \in Seq(S)
    PROVE  Len(s) \in Nat /\ s \in [1 .. Len(s) -> S]
  OBVIOUS

LEMMA SubSeqOne ==
    ASSUME NEW S, NEW s \in Seq(S), NEW k \in 1 .. Len(s)
    PROVE  SubSeq(s, k, k) = <<s[k]>>
  <1>1. k \in Nat /\ s[k] \in S
    OBVIOUS
  <1>2. /\ SubSeq(s, k, k) \in Seq(S) /\ Len(SubSeq(s, k, k)) = 1
        /\ SubSeq(s, k, k)[1] = s[k]
    OBVIOUS
  <1>3. <<s[k]>> \in Seq(S) /\ Len(<<s[k]>>) = 1 /\ <<s[k]>>[1] = s[k]
    BY <1>1
  <1>4. \A i \in 1 .. 1 : i = 1
    OBVIOUS
  <1>5. \A i \in 1 .. Len(SubSeq(s, k, k)) : SubSeq(s, k, k)[i] = <<s[k]>>[i]
    BY <1>2, <1>3, <1>4
  <1>6. QED
    BY <1>2, <1>3, <1>5, SeqEqual

LEMMA SumRun ==
    ASSUME NEW n \in Nat, NEW s \in [1 .. n -> Nat]
    PROVE  \E run : Run(run, n, Nat, 0, [p \in (1 .. n) \X Nat |-> p[2] + s[p[1]]], SumOf(s))
  <1> DEFINE G == [p \in (1 .. n) \X Nat |-> p[2] + s[p[1]]]
             Eq(iter) == iter = [t \in SUBSET (1 .. n) |->
                                   IF t = {} THEN 0 ELSE iter[t \ {Max(t)}] + s[Max(t)]]
             iter == CHOOSE x : Eq(x)
  <1>1. SumOf(s) = iter[1 .. n]
    <2>1. DOMAIN s = 1 .. n
      OBVIOUS
    <2>2. QED
      BY <2>1, Zenon DEF SumOf, FoldLeft, MapThenFoldSet
  <1>3. 0 \in Nat /\ G \in [(1 .. n) \X Nat -> Nat]
    OBVIOUS
  <1>4. \A k \in 1 .. n, x \in Nat : G[<<k, x>>] = x + s[k]
    OBVIOUS
  <1> HIDE DEF G
  <1>5. PICK it : Iterates(it, n, Nat, 0, G)
    BY <1>3, FoldExists
  <1>6. Eq(it)
    BY <1>4, <1>5, MaxIn DEF Iterates
  <1>7. Eq(iter)
    BY <1>6
  <1>8. Follows(iter, n, Nat, 0, G)
    <2> HIDE DEF iter
    <2>1. QED
      BY <1>4, <1>7, MaxIn DEF Follows
  <1>9. PICK run : Run(run, n, Nat, 0, G, iter[1 .. n])
    <2> HIDE DEF iter
    <2>1. QED
      BY <1>3, <1>8, FoldRuns
  <1>10. Run(run, n, Nat, 0, G, SumOf(s))
    BY <1>1, <1>9, Zenon
  <1>11. QED
    BY <1>10 DEF G

LEMMA SumType ==
    ASSUME NEW s \in Seq(Nat)
    PROVE  SumOf(s) \in Nat
  <1>1. Len(s) \in Nat /\ s \in [1 .. Len(s) -> Nat]
    OBVIOUS
  <1>2. PICK run : Run(run, Len(s), Nat, 0,
                       [p \in (1 .. Len(s)) \X Nat |-> p[2] + s[p[1]]], SumOf(s))
    BY <1>1, SumRun
  <1>3. QED
    BY <1>2 DEF Run

LEMMA SumAppend ==
    ASSUME NEW s \in Seq(Nat), NEW m \in Nat
    PROVE  SumOf(Append(s, m)) = SumOf(s) + m /\ SumOf(<<>>) = 0
  <1> DEFINE n == Len(s)
             more == Append(s, m)
             G == [p \in (1 .. n) \X Nat |-> p[2] + s[p[1]]]
             H == [p \in (1 .. n + 1) \X Nat |-> p[2] + more[p[1]]]
  <1>1. /\ n \in Nat /\ s \in [1 .. n -> Nat]
        /\ n + 1 \in Nat /\ more \in [1 .. n + 1 -> Nat]
    <2>1. more \in Seq(Nat) /\ Len(more) = n + 1 /\ n \in Nat
      OBVIOUS
    <2>2. s \in [1 .. n -> Nat]
      OBVIOUS
    <2> HIDE DEF more, n
    <2>3. QED
      BY <2>1, <2>2, SeqIs
  <1>2. PICK r : Run(r, n, Nat, 0, G, SumOf(s))
    BY <1>1, SumRun
  <1>3. PICK q : Run(q, n + 1, Nat, 0, H, SumOf(more))
    BY <1>1, SumRun
  <1>4. \A k \in 1 .. n, x \in Nat : H[<<k, x>>] = G[<<k, x>>]
    OBVIOUS
  <1>5. H[<<n + 1, SumOf(s)>>] = SumOf(s) + m
    BY <1>1, SumType
  <1> HIDE DEF n, G, H, more
  <1>6. SumOf(more) = H[<<n + 1, SumOf(s)>>]
    BY <1>1, <1>2, <1>3, <1>4, RunsOn
  <1>7. SumOf(<<>>) = 0
    <2> DEFINE none == [k \in 1 .. 0 |-> 0]
    <2>1. none = <<>> /\ none \in [1 .. 0 -> Nat]
      OBVIOUS
    <2> HIDE DEF none
    <2>2. PICK run : Run(run, 0, Nat, 0, [p \in (1 .. 0) \X Nat |-> p[2] + none[p[1]]],
                         SumOf(none))
      BY <2>1, SumRun
    <2>3. QED
      BY <2>1, <2>2 DEF Run
  <1>8. QED
    BY <1>5, <1>6, <1>7 DEF more

\* A sequence grows from nothing, one element at a time.
Upto(s, k) == SubSeq(s, 1, k)

LEMMA UptoIs ==
    ASSUME NEW S, NEW s \in Seq(S)
    PROVE  /\ Upto(s, 0) = <<>> /\ Upto(s, Len(s)) = s
           /\ \A k \in 0 .. Len(s) : Upto(s, k) \in Seq(S) /\ Len(Upto(s, k)) = k
           /\ \A k \in 1 .. Len(s) : s[k] \in S /\ Upto(s, k) = Append(Upto(s, k - 1), s[k])
  <1>1. \A k \in 0 .. Len(s) :
          /\ Upto(s, k) \in Seq(S) /\ Len(Upto(s, k)) = k
          /\ \A i \in 1 .. k : Upto(s, k)[i] = s[i]
    BY DEF Upto
  <1>2. Upto(s, 0) = <<>>
    BY DEF Upto
  <1>3. Upto(s, Len(s)) = s
    <2>1. Len(s) \in 0 .. Len(s)
      OBVIOUS
    <2>2. Upto(s, Len(s)) \in Seq(S) /\ Len(Upto(s, Len(s))) = Len(s)
          /\ \A i \in 1 .. Len(s) : Upto(s, Len(s))[i] = s[i]
      BY <1>1, <2>1
    <2>3. QED
      BY <2>2, SeqEqual
  <1>4. ASSUME NEW k \in 1 .. Len(s)
        PROVE  s[k] \in S /\ Upto(s, k) = Append(Upto(s, k - 1), s[k])
    <2>1. k \in 0 .. Len(s) /\ k - 1 \in 0 .. Len(s) /\ s[k] \in S /\ k \in Nat
      OBVIOUS
    <2> DEFINE a == Upto(s, k)
               b == Upto(s, k - 1)
    <2>2. /\ a \in Seq(S) /\ Len(a) = k /\ b \in Seq(S) /\ Len(b) = k - 1
          /\ \A i \in 1 .. k : a[i] = s[i]
          /\ \A i \in 1 .. k - 1 : b[i] = s[i]
      BY <1>1, <2>1
    <2> HIDE DEF a, b
    <2>3. /\ Append(b, s[k]) \in Seq(S) /\ Len(Append(b, s[k])) = k
          /\ \A i \in 1 .. k : a[i] = Append(b, s[k])[i]
      BY <2>1, <2>2
    <2>4. a = Append(b, s[k])
      BY <2>2, <2>3, SeqEqual
    <2>5. QED
      BY <2>1, <2>4 DEF a, b
  <1>5. QED
    BY <1>1, <1>2, <1>3, <1>4

LEMMA ConcatAppend ==
    ASSUME NEW S, NEW s \in Seq(S), NEW t \in Seq(S), NEW x \in S
    PROVE  s \o Append(t, x) = Append(s \o t, x) /\ s \o <<>> = s /\ <<>> \o s = s
  <1>1. s \o Append(t, x) = Append(s \o t, x)
    <2> DEFINE a == s \o Append(t, x)
               b == Append(s \o t, x)
    <2>1. /\ a \in Seq(S) /\ b \in Seq(S) /\ Len(a) = Len(s) + Len(t) + 1 /\ Len(b) = Len(a)
          /\ \A i \in 1 .. Len(a) : a[i] = b[i]
      OBVIOUS
    <2> HIDE DEF a, b
    <2>2. a = b
      BY <2>1, SeqEqual
    <2>3. QED
      BY <2>2 DEF a, b
  <1>2. QED
    BY <1>1

LEMMA SumConcat ==
    ASSUME NEW s \in Seq(Nat), NEW t \in Seq(Nat)
    PROVE  SumOf(s \o t) = SumOf(s) + SumOf(t)
  <1> DEFINE n == Len(t)
             Bad == {k \in 0 .. n : SumOf(s \o Upto(t, k)) # SumOf(s) + SumOf(Upto(t, k))}
  <1>1. n \in Nat /\ SumOf(s) \in Nat
    BY SumType
  <1>2. ASSUME NEW k \in Bad, \A l \in Bad : k <= l
        PROVE  FALSE
    <2>1. k \in 0 .. n /\ SumOf(s \o Upto(t, k)) # SumOf(s) + SumOf(Upto(t, k))
      OBVIOUS
    <2>2. k # 0
      <3>1. Upto(t, 0) = <<>> /\ s \o <<>> = s /\ SumOf(<<>>) = 0
        BY UptoIs, SumAppend, ConcatAppend
      <3>2. SumOf(s \o Upto(t, 0)) = SumOf(s) /\ SumOf(Upto(t, 0)) = 0
        BY <3>1, Zenon
      <3>3. QED
        BY <1>1, <2>1, <3>2
    <2>3. k \in 1 .. n /\ k - 1 \in 0 .. n /\ ~(k <= k - 1)
      BY <1>1, <2>1, <2>2
    <2> DEFINE f == Upto(t, k - 1)
    <2>4. f \in Seq(Nat) /\ t[k] \in Nat /\ Upto(t, k) = Append(f, t[k])
      BY <2>3, UptoIs
    <2>5. SumOf(s \o f) = SumOf(s) + SumOf(f)
      <3>1. k - 1 \notin Bad
        BY <1>2, <2>3, Zenon
      <3>2. QED
        BY <2>3, <3>1
    <2> HIDE DEF f
    <2>6. s \o Append(f, t[k]) = Append(s \o f, t[k]) /\ s \o f \in Seq(Nat)
      <3> DEFINE x == t[k]
      <3>1. x \in Nat /\ f \in Seq(Nat)
        BY <2>4, Zenon
      <3> HIDE DEF x
      <3>2. s \o f \in Seq(Nat)
        BY <3>1
      <3>3. s \o Append(f, x) = Append(s \o f, x)
        BY <3>1, ConcatAppend
      <3>4. QED
        BY <3>2, <3>3, Zenon DEF x
    <2>7. SumOf(Append(s \o f, t[k])) = SumOf(s \o f) + t[k]
          /\ SumOf(Append(f, t[k])) = SumOf(f) + t[k] /\ SumOf(f) \in Nat
      BY <2>4, <2>6, SumAppend, SumType
    <2>8. QED
      BY <1>1, <2>1, <2>4, <2>5, <2>6, <2>7
  <1>3. Bad = {}
    <2>1. Bad \in SUBSET Nat
      OBVIOUS
    <2> HIDE DEF Bad
    <2>2. QED
      BY <1>2, <2>1, Least
  <1>4. n \in 0 .. n /\ Upto(t, n) = t
    BY <1>1, UptoIs
  <1>5. QED
    BY <1>3, <1>4

(***************************************************************************)
(* Texts                                                                   *)
(***************************************************************************)
Sign == Char \cup {NL}

\* The lengths of the characters of a text.
Sizes(text) == [k \in DOMAIN text |-> text[k].chars]

LEMMA SizesAre ==
    ASSUME NEW text \in Seq(Sign)
    PROVE  /\ Sizes(text) \in Seq(Nat) /\ Len(Sizes(text)) = Len(text)
           /\ \A k \in DOMAIN text : Sizes(text)[k] = text[k].chars
  <1>1. \A k \in DOMAIN text : text[k].chars \in Nat
    BY DEF Sign, Char, NL
  <1>2. QED
    BY <1>1 DEF Sizes

LEMMA CharsType ==
    ASSUME NEW text \in Seq(Sign)
    PROVE  CharsOf(text) \in Nat
  BY SizesAre, SumType DEF CharsOf, Sizes

Column(u, s) == u \in Seq(Nat) /\ Len(u) = Len(s) /\ \A k \in DOMAIN s : u[k] = s[k].chars

LEMMA ColumnConcat ==
    ASSUME NEW S, NEW s \in Seq(S), NEW t \in Seq(S), NEW u, NEW v, NEW w,
           Column(u, s), Column(v, t), Column(w, s \o t)
    PROVE  w = u \o v
  <1>0. /\ u \in Seq(Nat) /\ Len(u) = Len(s) /\ \A k \in DOMAIN s : u[k] = s[k].chars
        /\ v \in Seq(Nat) /\ Len(v) = Len(t) /\ \A k \in DOMAIN t : v[k] = t[k].chars
        /\ w \in Seq(Nat) /\ Len(w) = Len(s \o t)
        /\ \A k \in DOMAIN (s \o t) : w[k] = (s \o t)[k].chars
    BY DEF Column
  <1>1. /\ s \o t \in Seq(S) /\ Len(s \o t) = Len(s) + Len(t)
        /\ \A k \in 1 .. Len(s) + Len(t) :
             (s \o t)[k] = IF k <= Len(s) THEN s[k] ELSE t[k - Len(s)]
    OBVIOUS
  <1>2. /\ u \o v \in Seq(Nat) /\ Len(u \o v) = Len(s) + Len(t)
        /\ \A k \in 1 .. Len(s) + Len(t) :
             (u \o v)[k] = IF k <= Len(s) THEN u[k] ELSE v[k - Len(s)]
    <2>1. /\ u \o v \in Seq(Nat) /\ Len(u \o v) = Len(u) + Len(v)
          /\ \A k \in 1 .. Len(u) + Len(v) :
               (u \o v)[k] = IF k <= Len(u) THEN u[k] ELSE v[k - Len(u)]
      <3>1. u \in Seq(Nat) /\ v \in Seq(Nat)
        BY <1>0
      <3>2. QED
        BY <3>1, ConcatProperties, Zenon
    <2>2. Len(u) = Len(s) /\ Len(v) = Len(t)
      BY <1>0
    <2>3. QED
      BY <2>1, <2>2, Zenon
  <1>3. ASSUME NEW k \in 1 .. Len(w)
        PROVE  w[k] = (u \o v)[k]
    <2>1. k \in 1 .. Len(s) + Len(t) /\ k \in DOMAIN (s \o t)
      BY <1>0, <1>1
    <2>2. w[k] = (s \o t)[k].chars
      BY <1>0, <2>1
    <2>3. CASE k <= Len(s)
      <3>1. k \in DOMAIN s
        BY <2>1, <2>3
      <3>2. QED
        BY <1>0, <1>1, <1>2, <2>1, <2>2, <2>3, <3>1
    <2>4. CASE ~(k <= Len(s))
      <3>1. k - Len(s) \in DOMAIN t
        BY <2>1, <2>4
      <3>2. QED
        BY <1>0, <1>1, <1>2, <2>1, <2>2, <2>4, <3>1
    <2>5. QED
      BY <2>3, <2>4
  <1>4. QED
    BY <1>0, <1>1, <1>2, <1>3, SeqEqual

LEMMA CharsConcat ==
    ASSUME NEW s \in Seq(Sign), NEW t \in Seq(Sign)
    PROVE  CharsOf(s \o t) = CharsOf(s) + CharsOf(t)
  <1>1. Sizes(s \o t) = Sizes(s) \o Sizes(t)
    <2>1. s \o t \in Seq(Sign)
      OBVIOUS
    <2>2. Column(Sizes(s), s) /\ Column(Sizes(t), t) /\ Column(Sizes(s \o t), s \o t)
      BY <2>1, SizesAre, Zenon DEF Column
    <2>3. QED
      BY <2>2, ColumnConcat, Zenon
  <1>2. QED
    BY <1>1, SizesAre, SumConcat DEF CharsOf, Sizes

LEMMA CharsOfOne ==
    ASSUME NEW c \in Sign
    PROVE  CharsOf(<<c>>) = c.chars /\ c.chars \in Nat /\ CharsOf(<<>>) = 0
  <1>1. c.chars \in Nat /\ <<>> \in Seq(Nat)
    BY DEF Sign, Char, NL
  <1>2. Sizes(<<c>>) = Append(<<>>, c.chars) /\ Sizes(<<>>) = <<>>
    BY DEF Sizes
  <1>3. SumOf(Append(<<>>, c.chars)) = SumOf(<<>>) + c.chars /\ SumOf(<<>>) = 0
    BY <1>1, SumAppend
  <1>4. QED
    BY <1>1, <1>2, <1>3 DEF CharsOf, Sizes

RawOK == raw \in Seq(RawBlock) /\ Len(raw) <= MaxBlocks

\* The characters of block b; a row of a table is one of any length.
CharOf(b) == {c \in Char : c.block = b /\ (raw[b].type # "table" => c.chars = 1)}

Kinds == {"heading", "text", "table"}

LEMMA CharAtType ==
    ASSUME RawOK, NEW b \in DOMAIN raw, NEW k \in DOMAIN raw[b].body, CharAt(b, raw[b], k).chars > 0
    PROVE  CharAt(b, raw[b], k) \in CharOf(b)
  <1>1. b \in 1 .. MaxBlocks /\ raw[b] \in RawBlock
    BY ConstantsAssumption DEF RawOK
  <1>2. CASE raw[b].type = "table"
    <2>1. raw[b].body \in Seq(Nat)
      BY <1>1, <1>2 DEF RawBlock
    <2>2. k \in Nat \ {0} /\ raw[b].body[k] \in Nat
      BY <2>1
    <2>3. QED
      BY <1>1, <1>2, <2>2 DEF CharAt, Char, CharOf
  <1>3. CASE raw[b].type # "table"
    <2>1. raw[b].body \in Seq(BOOLEAN)
      BY <1>1, <1>3 DEF RawBlock
    <2>2. k \in Nat \ {0} /\ raw[b].body[k] \in BOOLEAN
      BY <2>1
    <2>3. QED
      BY <1>1, <1>3, <2>2 DEF CharAt, Char, CharOf
  <1>4. QED
    BY <1>2, <1>3

NormalStep(b, n) ==
    [p \in (1 .. n) \X Seq(CharOf(b)) |->
       IF CharAt(b, raw[b], p[1]).chars > 0 THEN Append(p[2], CharAt(b, raw[b], p[1])) ELSE p[2]]

LEMMA NormalizedRun ==
    ASSUME RawOK, NEW b \in DOMAIN raw, NEW n \in Nat, n = Len(raw[b].body)
    PROVE  \E run : Run(run, n, Seq(CharOf(b)), <<>>, NormalStep(b, n), Normalized(b).text)
  <1> DEFINE G == NormalStep(b, n)
             c(k) == CharAt(b, raw[b], k)
             pos == [i \in DOMAIN raw[b].body |-> i]
             Eq(iter) == iter = [s \in SUBSET (1 .. n) |->
                                   IF s = {} THEN <<>>
                                   ELSE IF c(pos[Max(s)]).chars > 0
                                        THEN Append(iter[s \ {Max(s)}], c(pos[Max(s)]))
                                        ELSE iter[s \ {Max(s)}]]
             iter == CHOOSE x : Eq(x)
  <1>0. raw[b].body \in Seq(BOOLEAN) \cup Seq(Nat)
    BY DEF RawOK, RawBlock
  <1>d. DOMAIN raw[b].body = 1 .. n
    BY <1>0
  <1>1. Normalized(b).text = iter[1 .. n]
    <2>1. DOMAIN pos = 1 .. n
      BY <1>d
    <2>2. QED
      BY <2>1, Zenon DEF Normalized, NormalForm, FoldLeftDomain, FoldLeft, MapThenFoldSet
  <1>2. \A k \in 1 .. n : c(k).chars > 0 => c(k) \in CharOf(b)
    BY <1>d, CharAtType
  <1>p. \A k \in 1 .. n : pos[k] = k
    BY <1>d
  <1> HIDE DEF c, pos
  <1>4. \A k \in 1 .. n, x \in Seq(CharOf(b)) :
          G[<<k, x>>] = IF c(k).chars > 0 THEN Append(x, c(k)) ELSE x
    BY DEF NormalStep, c
  <1>3. <<>> \in Seq(CharOf(b)) /\ G \in [(1 .. n) \X Seq(CharOf(b)) -> Seq(CharOf(b))]
    <2>1. \A k \in 1 .. n, x \in Seq(CharOf(b)) :
            (IF c(k).chars > 0 THEN Append(x, c(k)) ELSE x) \in Seq(CharOf(b))
      BY <1>2
    <2>2. QED
      BY <2>1 DEF NormalStep, c
  <1> HIDE DEF G
  <1>5. PICK it : Iterates(it, n, Seq(CharOf(b)), <<>>, G)
    BY <1>3, FoldExists
  <1>6. Eq(it)
    <2>1. ASSUME NEW s \in SUBSET (1 .. n), s # {}
          PROVE  it[s] = IF c(pos[Max(s)]).chars > 0
                         THEN Append(it[s \ {Max(s)}], c(pos[Max(s)])) ELSE it[s \ {Max(s)}]
      <3>1. Max(s) \in 1 .. n /\ pos[Max(s)] = Max(s)
        BY <1>p, <2>1, MaxIn
      <3>2. it[s \ {Max(s)}] \in Seq(CharOf(b)) /\ it[s] = G[<<Max(s), it[s \ {Max(s)}]>>]
        BY <1>5, <2>1 DEF Iterates
      <3>3. QED
        BY <1>4, <3>1, <3>2
    <2>2. QED
      BY <1>5, <2>1 DEF Iterates
  <1>7. Eq(iter)
    BY <1>6
  <1>8. Follows(iter, n, Seq(CharOf(b)), <<>>, G)
    <2> HIDE DEF iter
    <2>1. ASSUME NEW s \in SUBSET (1 .. n), s # {}, iter[s \ {Max(s)}] \in Seq(CharOf(b))
          PROVE  iter[s] = G[<<Max(s), iter[s \ {Max(s)}]>>]
      <3>1. Max(s) \in 1 .. n /\ pos[Max(s)] = Max(s)
        BY <1>p, <2>1, MaxIn
      <3>2. iter[s] = IF c(pos[Max(s)]).chars > 0
                      THEN Append(iter[s \ {Max(s)}], c(pos[Max(s)])) ELSE iter[s \ {Max(s)}]
        BY <1>7, <2>1
      <3>3. G[<<Max(s), iter[s \ {Max(s)}]>>]
              = IF c(Max(s)).chars > 0
                THEN Append(iter[s \ {Max(s)}], c(Max(s))) ELSE iter[s \ {Max(s)}]
        BY <1>4, <2>1, <3>1, Zenon
      <3>4. QED
        BY <3>1, <3>2, <3>3, Zenon
    <2>2. iter[{}] = <<>>
      BY <1>7
    <2>3. QED
      BY <2>1, <2>2 DEF Follows
  <1>9. PICK run : Run(run, n, Seq(CharOf(b)), <<>>, G, iter[1 .. n])
    <2> HIDE DEF iter
    <2>1. QED
      BY <1>3, <1>8, FoldRuns
  <1>10. Run(run, n, Seq(CharOf(b)), <<>>, G, Normalized(b).text)
    BY <1>1, <1>9, Zenon
  <1>11. QED
    BY <1>10 DEF G

LEMMA NormalizedType ==
    ASSUME RawOK, NEW b \in DOMAIN raw
    PROVE  Normalized(b).text \in Seq(CharOf(b))
  <1> DEFINE n == Len(raw[b].body)
  <1>1. n \in Nat
    BY DEF RawOK, RawBlock
  <1>2. PICK run : Run(run, n, Seq(CharOf(b)), <<>>, NormalStep(b, n), Normalized(b).text)
    BY <1>1, NormalizedRun
  <1>3. QED
    BY <1>1, <1>2 DEF Run

\* Block b as the document has it.
Shown(b) == Capped(Normalized(b))
Inked    == {b \in DOMAIN raw : Normalized(b).text # <<>>}
Blocks   == {Shown(b) : b \in Inked}

LEMMA ShownIs ==
    ASSUME RawOK, NEW b \in Inked
    PROVE  \E k \in 1 .. Len(Normalized(b).text) :
             Shown(b) = [id |-> b, type |-> raw[b].type, level |-> raw[b].level,
                         text |-> SubSeq(Normalized(b).text, 1, k)]
  <1> DEFINE T == Normalized(b).text
             n == Len(T)
             K == {k \in 0 .. n : CharsOf(SubSeq(T, 1, k)) <= MaxBlock}
                  \cup {IF raw[b].type = "table" THEN 1 ELSE 0}
  <1>1. b \in DOMAIN raw /\ T \in Seq(CharOf(b)) /\ T # <<>>
    BY NormalizedType DEF Inked
  <1>2. n \in Nat \ {0} /\ T[1] \in CharOf(b)
    BY <1>1
  <1>3. Shown(b) = [id |-> b, type |-> raw[b].type, level |-> raw[b].level,
                    text |-> SubSeq(T, 1, Max(K))]
    <2> DEFINE N == Normalized(b)
    <2>1. N = [id |-> b, type |-> raw[b].type, level |-> raw[b].level, text |-> T]
      BY DEF Normalized, NormalForm
    <2> HIDE DEF N, T
    <2>2. Capped(N) = [N EXCEPT !.text = SubSeq(T, 1, Max(K))]
      BY <2>1 DEF Capped
    <2>3. Capped(N) = [id |-> b, type |-> raw[b].type, level |-> raw[b].level,
                       text |-> SubSeq(T, 1, Max(K))]
      BY <2>1, <2>2
    <2>4. QED
      BY <2>3 DEF Shown, N
  <1>4. 1 \in K
    <2>1. CASE raw[b].type = "table"
      BY <2>1
    <2>2. CASE raw[b].type # "table"
      <3>1. T[1] \in Sign /\ T[1].chars = 1
        BY <1>2, <2>2 DEF CharOf, Sign
      <3>2. SubSeq(T, 1, 1) = <<T[1]>>
        BY <1>1, <1>2, SubSeqOne
      <3>3. CharsOf(SubSeq(T, 1, 1)) = 1
        BY <3>1, <3>2, CharsOfOne
      <3>4. QED
        BY <1>2, <3>3, ConstantsAssumption
    <2>3. QED
      BY <2>1, <2>2
  <1>5. K \in SUBSET (0 .. n)
    BY <1>2
  <1> HIDE DEF K, T
  <1>6. Max(K) \in 1 .. n
    <2>1. Max(K) \in K /\ \A y \in K : y <= Max(K)
      BY <1>2, <1>4, <1>5, MaxIs
    <2>2. Max(K) \in 0 .. n /\ 1 <= Max(K)
      BY <1>4, <1>5, <2>1
    <2>3. QED
      BY <2>2
  <1>7. QED
    BY <1>3, <1>6 DEF T

\* What finalize_document has after some of the blocks: those it kept, and a warning
\* for each that it cut.
CutAt(kept) == {i - 1 : i \in {j \in DOMAIN kept : kept[j] # Normalized(kept[j].id)}}
Kept == {acc \in [kept : Seq(Blocks), warnings : SUBSET Nat, total : Nat] :
           acc.warnings = CutAt(acc.kept)}

LEMMA KeepType ==
    ASSUME RawOK, NEW b \in DOMAIN raw, NEW acc \in Kept
    PROVE  Keep(acc, b) \in Kept
  <1> DEFINE N == Normalized(b)
  <1>1. CASE N.text = <<>>
    BY <1>1 DEF Keep
  <1>2. CASE N.text # <<>>
    <2> DEFINE more == Append(acc.kept, Shown(b))
               cut == IF Shown(b) = N THEN {} ELSE {Len(acc.kept)}
               old == {j \in DOMAIN acc.kept : acc.kept[j] # Normalized(acc.kept[j].id)}
               new == {j \in DOMAIN more : more[j] # Normalized(more[j].id)}
    <2>1. Shown(b) \in Blocks /\ b \in Inked
      BY <1>2 DEF Blocks, Inked
    <2>2. Shown(b).id = b /\ CharsOf(Shown(b).text) \in Nat
      <3>1. PICK k \in 1 .. Len(N.text) :
              Shown(b) = [id |-> b, type |-> raw[b].type, level |-> raw[b].level,
                          text |-> SubSeq(N.text, 1, k)]
        BY <2>1, ShownIs
      <3>2. N.text \in Seq(CharOf(b))
        BY NormalizedType
      <3>3. CharOf(b) \subseteq Sign
        BY DEF CharOf, Sign
      <3>4. N.text \in Seq(Sign)
        BY <3>2, <3>3, SeqMonotonic
      <3> HIDE DEF N
      <3>5. SubSeq(N.text, 1, k) \in Seq(Sign)
        BY <3>4
      <3>6. CharsOf(SubSeq(N.text, 1, k)) \in Nat
        BY <3>5, CharsType
      <3>7. QED
        BY <3>1, <3>6
    <2>3. /\ acc.kept \in Seq(Blocks) /\ acc.warnings \in SUBSET Nat /\ acc.total \in Nat
          /\ acc.warnings = {i - 1 : i \in old} /\ Len(acc.kept) \in Nat
      BY DEF Kept, CutAt
    <2>4. Keep(acc, b) = [kept |-> more, warnings |-> acc.warnings \cup cut,
                          total |-> acc.total + CharsOf(Shown(b).text)]
      BY <1>2 DEF Keep, Shown
    <2>5. /\ more \in Seq(Blocks) /\ DOMAIN more = 1 .. Len(acc.kept) + 1
          /\ DOMAIN acc.kept = 1 .. Len(acc.kept)
          /\ more[Len(acc.kept) + 1] = Shown(b)
          /\ \A i \in DOMAIN acc.kept : more[i] = acc.kept[i]
      BY <2>1, <2>3, AppendProperties
    <2> HIDE DEF more, N
    <2>6. new = old \cup (IF Shown(b) = N THEN {} ELSE {Len(acc.kept) + 1})
      <3>1. \A j \in DOMAIN acc.kept : j \in new <=> j \in old
        BY <2>3, <2>5
      <3>2. Len(acc.kept) + 1 \in new <=> Shown(b) # N
        BY <2>2, <2>3, <2>5 DEF N
      <3>3. \A j : j \in DOMAIN more <=> j \in DOMAIN acc.kept \/ j = Len(acc.kept) + 1
        BY <2>3, <2>5
      <3> HIDE DEF new
      <3>4. new \subseteq DOMAIN more /\ old \subseteq DOMAIN acc.kept
        BY DEF new
      <3>5. QED
        BY <3>1, <3>2, <3>3, <3>4
    <2>7. acc.warnings \cup cut = {i - 1 : i \in new}
      <3>1. (Len(acc.kept) + 1) - 1 = Len(acc.kept)
        BY <2>3
      <3> HIDE DEF new, old
      <3>2. QED
        BY <2>3, <2>6, <3>1
    <2>8. acc.warnings \cup cut \in SUBSET Nat /\ acc.total + CharsOf(Shown(b).text) \in Nat
      BY <2>2, <2>3
    <2> HIDE DEF cut, new
    <2>9. acc.warnings \cup cut = CutAt(more)
      BY <2>7 DEF CutAt, new
    <2> DEFINE total == acc.total + CharsOf(Shown(b).text)
    <2>10. [kept |-> more, warnings |-> acc.warnings \cup cut, total |-> total] \in Kept
      <3> HIDE DEF total
      <3>1. total \in Nat /\ more \in Seq(Blocks)
        BY <2>5, <2>8 DEF total
      <3> DEFINE w == acc.warnings \cup cut
      <3>2. w \in SUBSET Nat /\ w = CutAt(more)
        BY <2>8, <2>9
      <3> HIDE DEF w
      <3>3. [kept |-> more, warnings |-> w, total |-> total] \in Kept
        BY <3>1, <3>2 DEF Kept
      <3>4. QED
        BY <3>3 DEF w
    <2>11. QED
      BY <2>4, <2>10
  <1>3. QED
    BY <1>1, <1>2

NothingKept == [kept |-> <<>>, warnings |-> {}, total |-> 0]
KeepStep(n) == [p \in (1 .. n) \X Kept |-> Keep(p[2], p[1])]
Finalized   == FoldLeftDomain(Keep, NothingKept, raw)

LEMMA KeptAtFirst == NothingKept \in Kept
  <1>1. CutAt(<<>>) = {}
    BY DEF CutAt
  <1>2. <<>> \in Seq(Blocks)
    OBVIOUS
  <1>3. QED
    BY <1>1, <1>2 DEF Kept, NothingKept

LEMMA KeepRun ==
    ASSUME RawOK, NEW n \in Nat, n = Len(raw)
    PROVE  \E run : Run(run, n, Kept, NothingKept, KeepStep(n), Finalized)
  <1> DEFINE G == KeepStep(n)
             pos == [i \in DOMAIN raw |-> i]
             Eq(iter) == iter = [s \in SUBSET (1 .. n) |->
                                   IF s = {} THEN NothingKept
                                   ELSE Keep(iter[s \ {Max(s)}], pos[Max(s)])]
             iter == CHOOSE x : Eq(x)
  <1>d. DOMAIN raw = 1 .. n
    BY DEF RawOK
  <1>1. Finalized = iter[1 .. n]
    <2>1. DOMAIN pos = 1 .. n
      BY <1>d
    <2>2. QED
      BY <2>1, Zenon DEF Finalized, FoldLeftDomain, FoldLeft, MapThenFoldSet
  <1>p. \A k \in 1 .. n : pos[k] = k
    BY <1>d
  <1> HIDE DEF pos
  <1>4. \A k \in 1 .. n, x \in Kept : G[<<k, x>>] = Keep(x, k)
    BY DEF KeepStep
  <1>3. NothingKept \in Kept /\ G \in [(1 .. n) \X Kept -> Kept]
    <2>1. \A k \in 1 .. n, x \in Kept : Keep(x, k) \in Kept
      BY <1>d, KeepType
    <2>2. QED
      BY <2>1, KeptAtFirst DEF KeepStep
  <1> HIDE DEF G
  <1>5. PICK it : Iterates(it, n, Kept, NothingKept, G)
    BY <1>3, FoldExists
  <1>6. Eq(it)
    <2>1. ASSUME NEW s \in SUBSET (1 .. n), s # {}
          PROVE  it[s] = Keep(it[s \ {Max(s)}], pos[Max(s)])
      <3>1. Max(s) \in 1 .. n /\ pos[Max(s)] = Max(s)
        BY <1>p, <2>1, MaxIn
      <3>2. it[s \ {Max(s)}] \in Kept /\ it[s] = G[<<Max(s), it[s \ {Max(s)}]>>]
        BY <1>5, <2>1 DEF Iterates
      <3>3. QED
        BY <1>4, <3>1, <3>2, Zenon
    <2>2. QED
      BY <1>5, <2>1 DEF Iterates
  <1>7. Eq(iter)
    BY <1>6
  <1>8. Follows(iter, n, Kept, NothingKept, G)
    <2> HIDE DEF iter
    <2>1. ASSUME NEW s \in SUBSET (1 .. n), s # {}, iter[s \ {Max(s)}] \in Kept
          PROVE  iter[s] = G[<<Max(s), iter[s \ {Max(s)}]>>]
      <3>1. Max(s) \in 1 .. n /\ pos[Max(s)] = Max(s)
        BY <1>p, <2>1, MaxIn
      <3>2. iter[s] = Keep(iter[s \ {Max(s)}], pos[Max(s)])
        BY <1>7, <2>1
      <3>3. G[<<Max(s), iter[s \ {Max(s)}]>>] = Keep(iter[s \ {Max(s)}], Max(s))
        BY <1>4, <2>1, <3>1, Zenon
      <3>4. QED
        BY <3>1, <3>2, <3>3, Zenon
    <2>2. iter[{}] = NothingKept
      BY <1>7
    <2>3. QED
      BY <2>1, <2>2 DEF Follows
  <1>9. PICK run : Run(run, n, Kept, NothingKept, G, iter[1 .. n])
    <2> HIDE DEF iter
    <2>1. QED
      BY <1>3, <1>8, FoldRuns
  <1>10. Run(run, n, Kept, NothingKept, G, Finalized)
    BY <1>1, <1>9, Zenon
  <1>11. QED
    BY <1>10 DEF G

\* The block has at least one of its characters, a first few of all.
LEMMA BlockIs ==
    ASSUME RawOK, NEW b \in Inked
    PROVE  /\ Shown(b).id = b /\ Shown(b).type = raw[b].type /\ Shown(b).level = raw[b].level
           /\ Shown(b).text \in Seq(CharOf(b)) /\ Shown(b).text # <<>>
           /\ Len(Shown(b).text) <= Len(Normalized(b).text)
           /\ \A i \in DOMAIN Shown(b).text : Shown(b).text[i] = Normalized(b).text[i]
  <1> DEFINE T == Normalized(b).text
  <1>1. PICK k \in 1 .. Len(T) :
          Shown(b) = [id |-> b, type |-> raw[b].type, level |-> raw[b].level,
                      text |-> SubSeq(T, 1, k)]
    BY ShownIs
  <1>2. T \in Seq(CharOf(b))
    BY NormalizedType DEF Inked
  <1> HIDE DEF T
  <1>3. /\ SubSeq(T, 1, k) \in Seq(CharOf(b)) /\ Len(SubSeq(T, 1, k)) = k
        /\ \A i \in 1 .. k : SubSeq(T, 1, k)[i] = T[i]
    BY <1>2
  <1>4. k \in Nat \ {0} /\ k <= Len(T)
    BY <1>2
  <1>5. Shown(b).text = SubSeq(T, 1, k)
    BY <1>1
  <1>6. SubSeq(T, 1, k) # <<>> /\ DOMAIN SubSeq(T, 1, k) = 1 .. k
    BY <1>3, <1>4
  <1>7. Shown(b).id = b /\ Shown(b).type = raw[b].type /\ Shown(b).level = raw[b].level
    BY <1>1
  <1>8. QED
    BY <1>3, <1>4, <1>5, <1>6, <1>7 DEF T

\* The document after the first k blocks: those with text, in their order.
Whole(kept, k) ==
    /\ \A i \in DOMAIN kept : kept[i].id \in Inked /\ kept[i].id <= k
                              /\ kept[i] = Shown(kept[i].id)
    /\ \A b \in Inked : b <= k => \E i \in DOMAIN kept : kept[i].id = b
    /\ \A i, j \in DOMAIN kept : i < j => kept[i].id < kept[j].id

LEMMA KeepWhole ==
    ASSUME RawOK, NEW b \in DOMAIN raw, NEW acc \in Kept, Whole(acc.kept, b - 1)
    PROVE  Whole(Keep(acc, b).kept, b)
  <1> DEFINE old == acc.kept
             new == Keep(acc, b).kept
  <1>0. b \in Nat /\ old \in Seq(Blocks) /\ Len(old) \in Nat /\ DOMAIN old = 1 .. Len(old)
    BY DEF RawOK, Kept
  <1>i. \A c \in Inked : c \in Nat
    BY DEF Inked, RawOK
  <1>1. CASE b \notin Inked
    <2>1. new = old
      BY <1>1 DEF Keep, Inked
    <2>2. \A c \in Inked : c <= b => c <= b - 1
      BY <1>0, <1>1, <1>i
    <2>3. Whole(old, b - 1)
      OBVIOUS
    <2> HIDE DEF old, new
    <2>4. \A i \in DOMAIN old : old[i].id \in Inked /\ old[i].id <= b /\ old[i] = Shown(old[i].id)
      BY <1>0, <1>i, <2>3 DEF Whole
    <2>5. Whole(old, b)
      BY <2>2, <2>3, <2>4 DEF Whole
    <2>6. QED
      BY <2>1, <2>5 DEF new
  <1>2. CASE b \in Inked
    <2>1. new = Append(old, Shown(b))
      BY <1>2 DEF Keep, Inked, Shown
    <2>2. Shown(b) \in Blocks
      BY <1>2 DEF Blocks
    <2>3. Whole(old, b - 1)
      OBVIOUS
    <2> HIDE DEF old, new
    <2>4. /\ DOMAIN new = 1 .. Len(old) + 1 /\ new[Len(old) + 1] = Shown(b)
          /\ \A i \in DOMAIN old : new[i] = old[i]
      BY <1>0, <2>1, <2>2, AppendProperties
    <2>5. Shown(b).id = b
      BY <1>2, BlockIs
    <2>6. \A i \in DOMAIN new : i \in DOMAIN old \/ i = Len(old) + 1
      BY <1>0, <2>4
    <2>7. \A i \in DOMAIN old : /\ new[i] = old[i] /\ old[i].id \in Inked /\ old[i].id <= b - 1
                                /\ old[i] = Shown(old[i].id)
      BY <2>3, <2>4 DEF Whole
    <2>8. \A i \in DOMAIN new : new[i].id \in Inked /\ new[i].id <= b /\ new[i] = Shown(new[i].id)
      BY <1>0, <1>2, <1>i, <2>4, <2>5, <2>6, <2>7
    <2>9. \A c \in Inked : c <= b => \E i \in DOMAIN new : new[i].id = c
      <3>1. ASSUME NEW c \in Inked, c <= b, c # b
            PROVE  \E i \in DOMAIN new : new[i].id = c
        <4>1. c <= b - 1
          BY <1>0, <1>i, <3>1
        <4>2. PICK i \in DOMAIN old : old[i].id = c
          BY <2>3, <4>1 DEF Whole
        <4>3. i \in DOMAIN new /\ new[i].id = c
          BY <1>0, <2>4, <4>2
        <4>4. QED
          BY <4>3
      <3>2. Len(old) + 1 \in DOMAIN new /\ new[Len(old) + 1].id = b
        BY <1>0, <2>4, <2>5
      <3>3. QED
        BY <3>1, <3>2
    <2>10. ASSUME NEW i \in DOMAIN new, NEW j \in DOMAIN new, i < j
           PROVE  new[i].id < new[j].id
      <3>1. i \in DOMAIN old
        BY <1>0, <2>4, <2>10
      <3>2. CASE j \in DOMAIN old
        BY <2>3, <2>7, <2>10, <3>1, <3>2 DEF Whole
      <3>3. CASE j = Len(old) + 1
        BY <1>0, <1>i, <2>4, <2>5, <2>7, <3>1, <3>3
      <3>4. QED
        BY <2>6, <3>2, <3>3
    <2>11. QED
      BY <2>8, <2>9, <2>10 DEF Whole, new
  <1>3. QED
    BY <1>1, <1>2

LEMMA DocumentIs ==
    ASSUME RawOK
    PROVE  /\ Finalized.kept \in Seq(Blocks) /\ Finalized.warnings = CutAt(Finalized.kept)
           /\ Whole(Finalized.kept, Len(raw))
  <1> DEFINE n == Len(raw)
  <1>1. n \in Nat /\ DOMAIN raw = 1 .. n
    BY DEF RawOK
  <1>2. PICK run : Run(run, n, Kept, NothingKept, KeepStep(n), Finalized)
    BY <1>1, KeepRun
  <1>3. /\ run \in [0 .. n -> Kept] /\ run[0] = NothingKept /\ run[n] = Finalized
        /\ \A k \in 1 .. n : run[k] = KeepStep(n)[<<k, run[k - 1]>>]
    BY <1>2 DEF Run
  <1>4. \A k \in 1 .. n : run[k - 1] \in Kept /\ run[k] = Keep(run[k - 1], k)
    <2>1. \A k \in 1 .. n : k - 1 \in 0 .. n
      BY <1>1
    <2>2. QED
      BY <1>3, <2>1 DEF KeepStep
  <1> DEFINE Bad == {k \in 0 .. n : ~Whole(run[k].kept, k)}
  <1>5. Bad = {}
    <2>1. ASSUME Bad # {}
          PROVE  FALSE
      <3>0. Bad \in SUBSET Nat
        OBVIOUS
      <3>1. PICK k \in Bad : \A l \in Bad : k <= l
        BY <2>1, <3>0, Least
      <3>2. k \in 0 .. n /\ ~Whole(run[k].kept, k)
        BY <3>1
      <3>3. k # 0
        <4>1. Whole(<<>>, 0)
          BY <1>1 DEF Whole, Inked
        <4>2. QED
          BY <1>3, <3>2, <4>1 DEF NothingKept
      <3>4. k \in 1 .. n /\ k - 1 \in 0 .. n /\ k - 1 \notin Bad
        BY <1>1, <3>1, <3>2, <3>3
      <3>5. Whole(run[k - 1].kept, k - 1)
        BY <3>4
      <3>6. QED
        BY <1>1, <1>4, <3>2, <3>4, <3>5, KeepWhole
    <2>2. QED
      BY <2>1
  <1>6. Whole(Finalized.kept, n) /\ Finalized \in Kept
    <2>1. n \in 0 .. n
      BY <1>1
    <2>2. QED
      BY <1>3, <1>5, <2>1
  <1>7. QED
    BY <1>6 DEF Kept

(***************************************************************************)
(* Tables                                                                  *)
(***************************************************************************)
Lines(h, rows) == [k \in DOMAIN rows |-> LineTokens(h, rows[k])]

LEMMA LinesAre ==
    ASSUME NEW h \in Char, NEW rows \in Seq(Char)
    PROVE  /\ Lines(h, rows) \in Seq(Nat) /\ Len(Lines(h, rows)) = Len(rows)
           /\ \A k \in DOMAIN rows : Lines(h, rows)[k] = LineTokens(h, rows[k])
           /\ LinesTokens(h, rows) \in Nat
  <1>1. \A k \in DOMAIN rows : LineTokens(h, rows[k]) \in Nat
    <2>1. \A r \in Char : LineTokens(h, r) \in Nat
      BY DEF LineTokens, Char
    <2>2. \A k \in DOMAIN rows : rows[k] \in Char
      OBVIOUS
    <2>3. QED
      BY <2>1, <2>2, Zenon
  <1>2. /\ Lines(h, rows) \in Seq(Nat) /\ Len(Lines(h, rows)) = Len(rows)
        /\ \A k \in DOMAIN rows : Lines(h, rows)[k] = LineTokens(h, rows[k])
    BY <1>1 DEF Lines
  <1>3. LinesTokens(h, rows) \in Nat
    BY <1>2, SumType DEF LinesTokens, Lines
  <1>4. QED
    BY <1>2, <1>3

LEMMA LinesAppend ==
    ASSUME NEW h \in Char, NEW rows \in Seq(Char), NEW row \in Char
    PROVE  LinesTokens(h, Append(rows, row)) = LinesTokens(h, rows) + LineTokens(h, row)
  <1> DEFINE more == Append(rows, row)
             a == Lines(h, rows)
             b == Lines(h, more)
             m == LineTokens(h, row)
  <1>1. /\ more \in Seq(Char) /\ Len(more) = Len(rows) + 1 /\ more[Len(rows) + 1] = row
        /\ \A k \in 1 .. Len(rows) : more[k] = rows[k]
    OBVIOUS
  <1>2. m \in Nat
    BY DEF LineTokens, Char
  <1> HIDE DEF more
  <1>3. /\ a \in Seq(Nat) /\ Len(a) = Len(rows)
        /\ \A k \in 1 .. Len(rows) : a[k] = LineTokens(h, rows[k])
    <2>1. DOMAIN rows = 1 .. Len(rows)
      OBVIOUS
    <2>2. QED
      BY <2>1, LinesAre, Zenon
  <1>4. /\ b \in Seq(Nat) /\ Len(b) = Len(rows) + 1
        /\ \A k \in 1 .. Len(rows) + 1 : b[k] = LineTokens(h, more[k])
    BY <1>1, LinesAre
  <1>5. b[Len(rows) + 1] = m /\ \A k \in 1 .. Len(rows) : b[k] = a[k]
    BY <1>1, <1>3, <1>4
  <1> HIDE DEF a, b, m
  <1>6. b = Append(a, m)
    <2>1. /\ Append(a, m) \in Seq(Nat) /\ Len(Append(a, m)) = Len(b)
          /\ \A k \in 1 .. Len(b) : b[k] = Append(a, m)[k]
      BY <1>2, <1>3, <1>4, <1>5
    <2>2. QED
      BY <1>4, <2>1, SeqEqual
  <1>7. SumOf(b) = SumOf(a) + m
    BY <1>2, <1>3, <1>6, SumAppend
  <1>8. QED
    BY <1>7 DEF LinesTokens, Lines, a, b, m, more

\* The rows of a chunk: one, or as many as the lines of fit.
Group(h) == {g \in Seq(Char) : g # <<>> /\ (Len(g) = 1 \/ LinesTokens(h, g) <= Target)}
Packs(h) == [packed : Seq(Group(h)), buffer : Group(h) \cup {<<>>}]

LEMMA PackType ==
    ASSUME NEW h \in Char, NEW acc \in Packs(h), NEW row \in Char
    PROVE  PackRow(h, acc, row) \in Packs(h) /\ PackRow(h, acc, row).buffer # <<>>
  <1>0. acc.packed \in Seq(Group(h)) /\ acc.buffer \in Group(h) \cup {<<>>} /\ acc.buffer \in Seq(Char)
    <2>1. acc.packed \in Seq(Group(h)) /\ acc.buffer \in Group(h) \cup {<<>>}
      BY DEF Packs
    <2>2. Group(h) \subseteq Seq(Char) /\ <<>> \in Seq(Char)
      BY DEF Group
    <2>3. QED
      BY <2>1, <2>2, Zenon
  <1>1. <<row>> \in Group(h) /\ <<row>> # <<>>
    BY DEF Group
  <1>2. CASE acc.buffer # <<>> /\ LinesTokens(h, acc.buffer) + LineTokens(h, row) > Target
    <2>1. PackRow(h, acc, row) = [packed |-> Append(acc.packed, acc.buffer), buffer |-> <<row>>]
      BY <1>2 DEF PackRow
    <2>2. Append(acc.packed, acc.buffer) \in Seq(Group(h))
      BY <1>0, <1>2
    <2>3. QED
      BY <1>1, <2>1, <2>2 DEF Packs
  <1>3. CASE ~(acc.buffer # <<>> /\ LinesTokens(h, acc.buffer) + LineTokens(h, row) > Target)
    <2> DEFINE more == Append(acc.buffer, row)
    <2>1. PackRow(h, acc, row) = [packed |-> acc.packed, buffer |-> more]
      BY <1>3 DEF PackRow
    <2>2. more \in Seq(Char) /\ more # <<>> /\ Len(more) = Len(acc.buffer) + 1
      BY <1>0
    <2>3. CASE acc.buffer = <<>>
      <3>1. Len(more) = 1
        BY <2>2, <2>3
      <3>2. more \in Group(h)
        BY <2>2, <3>1 DEF Group
      <3>3. QED
        BY <1>0, <2>1, <2>2, <3>2 DEF Packs
    <2>4. CASE acc.buffer # <<>>
      <3>1. LinesTokens(h, more) = LinesTokens(h, acc.buffer) + LineTokens(h, row)
        BY <1>0, LinesAppend
      <3>2. LinesTokens(h, acc.buffer) \in Nat /\ LineTokens(h, row) \in Nat
        <4>1. LineTokens(h, row) \in Nat
          BY DEF LineTokens, Char
        <4>2. QED
          BY <1>0, <4>1, LinesAre
      <3>3. LinesTokens(h, more) <= Target
        BY <1>3, <2>4, <3>1, <3>2, ConstantsAssumption
      <3> HIDE DEF more
      <3>4. more \in Group(h)
        BY <2>2, <3>3 DEF Group
      <3>5. QED
        BY <1>0, <2>1, <2>2, <3>4 DEF Packs
    <2>5. QED
      BY <2>3, <2>4
  <1>4. QED
    BY <1>2, <1>3

NothingPacked == [packed |-> <<>>, buffer |-> <<>>]
PackStep(h, body, n) == [p \in (1 .. n) \X Packs(h) |-> PackRow(h, p[2], body[p[1]])]

LEMMA PackRun ==
    ASSUME NEW rows \in Seq(Char), NEW n \in Nat, n + 1 = Len(rows), n # 0
    PROVE  \E run, end :
             /\ Run(run, n, Packs(rows[1]), NothingPacked, PackStep(rows[1], Tail(rows), n), end)
             /\ PackTable(rows) = Append(end.packed, end.buffer)
  <1> DEFINE h == rows[1]
             body == Tail(rows)
             X == Packs(h)
             G == PackStep(h, body, n)
             Eq(iter) == iter = [s \in SUBSET (1 .. n) |->
                                   IF s = {} THEN NothingPacked
                                   ELSE PackRow(h, iter[s \ {Max(s)}], body[Max(s)])]
             iter == CHOOSE x : Eq(x)
  <1>0. h \in Char /\ body \in Seq(Char) /\ Len(body) = n /\ DOMAIN body = 1 .. n /\ Len(rows) # 1
    <2>1. rows # <<>> /\ h \in Char
      OBVIOUS
    <2>2. body \in Seq(Char) /\ Len(body) = Len(rows) - 1
      BY <2>1
    <2>3. QED
      BY <2>1, <2>2
  <1>1. PackTable(rows) = Append(iter[1 .. n].packed, iter[1 .. n].buffer)
    BY <1>0, Zenon DEF PackTable, FoldLeft, MapThenFoldSet, NothingPacked
  <1>2. \A k \in 1 .. n : body[k] \in Char
    BY <1>0
  <1> HIDE DEF body, h
  <1>3. NothingPacked \in X /\ G \in [(1 .. n) \X X -> X]
    <2>1. \A k \in 1 .. n, x \in X : PackRow(h, x, body[k]) \in X
      BY <1>0, <1>2, PackType
    <2>2. NothingPacked \in X
      BY DEF NothingPacked, Packs
    <2> HIDE DEF X
    <2>3. QED
      BY <2>1, <2>2 DEF PackStep, X
  <1>4. \A k \in 1 .. n, x \in X : G[<<k, x>>] = PackRow(h, x, body[k])
    BY DEF PackStep
  <1> HIDE DEF G, X
  <1>5. PICK it : Iterates(it, n, X, NothingPacked, G)
    BY <1>3, FoldExists
  <1>6. Eq(it)
    BY <1>4, <1>5, MaxIn DEF Iterates
  <1>7. Eq(iter)
    BY <1>6
  <1>8. Follows(iter, n, X, NothingPacked, G)
    <2> HIDE DEF iter
    <2>1. QED
      BY <1>4, <1>7, MaxIn DEF Follows
  <1>9. PICK run : Run(run, n, X, NothingPacked, G, iter[1 .. n])
    <2> HIDE DEF iter
    <2>1. QED
      BY <1>3, <1>8, FoldRuns
  <1> HIDE DEF iter
  <1>10. QED
    BY <1>1, <1>9 DEF G, X, h, body

LEMMA PackTableType ==
    ASSUME NEW rows \in Seq(Char), rows # <<>>
    PROVE  PackTable(rows) \in Seq(Group(rows[1]))
  <1>0. rows[1] \in Char /\ Len(rows) \in Nat \ {0}
    OBVIOUS
  <1>1. CASE Len(rows) = 1
    <2>1. PackTable(rows) = <<rows>>
      BY <1>1 DEF PackTable
    <2>2. rows \in Group(rows[1])
      BY <1>1 DEF Group
    <2>3. QED
      BY <2>1, <2>2
  <1>2. CASE Len(rows) # 1
    <2> DEFINE n == Len(rows) - 1
    <2>1. n \in Nat /\ n + 1 = Len(rows) /\ n # 0
      BY <1>0, <1>2
    <2> HIDE DEF n
    <2>2. PICK run, end :
            /\ Run(run, n, Packs(rows[1]), NothingPacked, PackStep(rows[1], Tail(rows), n), end)
            /\ PackTable(rows) = Append(end.packed, end.buffer)
      BY <2>1, PackRun
    <2>3. /\ run \in [0 .. n -> Packs(rows[1])] /\ run[n] = end
          /\ run[n] = PackStep(rows[1], Tail(rows), n)[<<n, run[n - 1]>>]
      <3>1. n \in 1 .. n
        BY <2>1
      <3>2. QED
        BY <2>2, <3>1 DEF Run
    <2>4. end = PackRow(rows[1], run[n - 1], Tail(rows)[n]) /\ run[n - 1] \in Packs(rows[1])
      <3>1. n \in 1 .. n /\ n - 1 \in 0 .. n
        BY <2>1
      <3>2. QED
        BY <2>3, <3>1 DEF PackStep
    <2>5. Tail(rows)[n] \in Char
      <3>1. Tail(rows) \in Seq(Char) /\ Len(Tail(rows)) = n
        BY <2>1
      <3>2. QED
        BY <2>1, <3>1
    <2>6. end \in Packs(rows[1]) /\ end.buffer # <<>>
      BY <1>0, <2>4, <2>5, PackType
    <2>7. end.packed \in Seq(Group(rows[1])) /\ end.buffer \in Group(rows[1])
      BY <2>6 DEF Packs
    <2>8. QED
      BY <2>2, <2>7, AppendProperties
  <1>3. QED
    BY <1>1, <1>2

(***************************************************************************)
(* Vectors                                                                 *)
(***************************************************************************)

\* BatchLen is a length, of texts that are there.
LEMMA BatchLenIs ==
    ASSUME NEW n \in Nat, n = Len(drafts), NEW m \in Nat, m = Len(vectors), m <= n
    PROVE  BatchLen \in Nat /\ BatchLen <= n - m
  <1> DEFINE T == {BatchSize, Len(drafts) - Len(vectors)}
  <1>1. T \in SUBSET Nat /\ T # {}
    BY ConstantsAssumption
  <1>2. Min(T) \in T /\ \A y \in T : Min(T) <= y
    BY <1>1, MinIs
  <1>3. QED
    BY <1>1, <1>2 DEF BatchLen

\* A complete answer, put in order, has at k the row of the k-th text.
LEMMA OrderedRow ==
    ASSUME NEW n \in Nat, n = BatchLen, NEW m \in Nat, m = Len(vectors),
           NEW answer \in Answers, Len(answer) = n, NEW k \in 1 .. n
    PROVE  DOMAIN answer = 1 .. n /\ InInputOrder(answer)[k].of = m + k
  <1> DEFINE row(i) == [index |-> i, of |-> m + i]
             D == 1 .. n
  <1>a. PICK p \in SetToAllKPermutations(D) : answer = [j \in DOMAIN p |-> row(p[j])]
    BY DEF Answers
  <1>1. PICK s \in SUBSET D : p \in SetToSeqs(s)
    BY DEF SetToAllKPermutations
  <1>2. IsFiniteSet(D) /\ Cardinality(D) = n
    BY FS_Interval
  <1>3. IsFiniteSet(s) /\ Cardinality(s) \in Nat
    BY <1>2, FS_Subset, FS_CardinalityType
  <1>4. p \in [1 .. Cardinality(s) -> s] /\ \A i, j \in 1 .. Cardinality(s) : i # j => p[i] # p[j]
    BY <1>1 DEF SetToSeqs
  <1>5. Cardinality(s) = n /\ DOMAIN answer = D
    <2>1. DOMAIN answer = 1 .. Cardinality(s)
      BY <1>a, <1>4
    <2>2. Len(answer) = Cardinality(s)
      BY <1>a, <1>3, <1>4
    <2>3. QED
      BY <2>1, <2>2
  <1>6. s = D
    BY <1>2, <1>5, FS_Subset
  <1>7. \A i \in D : \E j \in D : p[j] = i
    <2>1. p \in Injection(D, D)
      BY <1>4, <1>5, <1>6 DEF Injection, IsInjective
    <2>2. p \in Surjection(D, D)
      BY <1>2, <2>1, FS_Injection
    <2>3. QED
      BY <2>2 DEF Surjection
  <1>8. \A j \in D : p[j] \in D /\ answer[j] = row(p[j])
    BY <1>a, <1>4, <1>5, <1>6
  <1>9. ToSet(answer) = {row(i) : i \in D}
    <2> HIDE DEF row, D
    <2>1. \A j \in D : answer[j] \in {row(i) : i \in D}
      BY <1>8
    <2>2. \A i \in D : row(i) \in ToSet(answer)
      BY <1>5, <1>7, <1>8, Zenon DEF ToSet
    <2>3. QED
      BY <1>5, <2>1, <2>2, Zenon DEF ToSet
  <1> DEFINE R(x) == {r \in ToSet(answer) : r.index <= x.index}
  <1>10. ASSUME NEW i \in D
         PROVE  Cardinality(R(row(i))) = i
    <2> DEFINE f == [j \in 1 .. i |-> row(j)]
    <2>1. R(row(i)) = {row(j) : j \in 1 .. i}
      BY <1>9
    <2>2. f \in Bijection(1 .. i, R(row(i)))
      BY <2>1 DEF Bijection, Injection, Surjection, IsInjective
    <2>3. IsFiniteSet(1 .. i) /\ Cardinality(1 .. i) = i
      <3>1. 1 \in Int /\ i \in Int /\ ~(1 > i) /\ i - 1 + 1 = i
        OBVIOUS
      <3>2. QED
        BY <3>1, FS_Interval
    <2> HIDE DEF R, row, f
    <2>4. ExistsBijection(1 .. i, R(row(i)))
      BY <2>2, Zenon DEF ExistsBijection
    <2>5. QED
      BY <2>3, <2>4, FS_Bijection
  <1>11. \E x \in ToSet(answer) : Cardinality(R(x)) = k
    BY <1>9, <1>10
  <1>12. \A x \in ToSet(answer) : Cardinality(R(x)) = k => x = row(k)
    <2> HIDE DEF R
    <2>1. ASSUME NEW x \in ToSet(answer), Cardinality(R(x)) = k
          PROVE  x = row(k)
      <3>1. PICK i \in D : x = row(i)
        BY <1>9
      <3> HIDE DEF row
      <3>2. Cardinality(R(x)) = i
        BY <1>10, <3>1, Zenon
      <3>3. QED
        BY <2>1, <3>1, <3>2, Zenon
    <2>2. QED
      BY <2>1, Zenon
  <1>13. InInputOrder(answer)[k] = CHOOSE x \in ToSet(answer) : Cardinality(R(x)) = k
    BY <1>5 DEF InInputOrder
  <1> HIDE DEF R
  <1>14. InInputOrder(answer)[k] = row(k)
    BY <1>11, <1>12, <1>13, Zenon
  <1>15. QED
    BY <1>5, <1>14

IsSeq(s) == \E S : s \in Seq(S)

\* The vectors are those of the first drafts, in their order; the document is made of
\* the blocks that have text, as the limits leave them.
VectorsInv ==
    /\ RawOK
    /\ doc \in Seq(Blocks) /\ at \in 0 .. Len(doc) /\ (pc = "finalize" => at = 0)
    /\ IsSeq(drafts)
    /\ vectors \in Seq(Nat) /\ Len(vectors) <= Len(drafts)
    /\ VectorsMatchTexts

LEMMA RawInit == Init => RawOK
  <1> SUFFICES ASSUME Init PROVE RawOK
    OBVIOUS
  <1>1. PICK m \in 0 .. MaxBlocks : raw \in [1 .. m -> RawBlocks]
    BY DEF Init, BoundedSeq, SeqOf
  <1>2. raw \in Seq(RawBlocks) /\ Len(raw) = m
    BY <1>1, ConstantsAssumption
  <1>3. raw \in Seq(RawBlock)
    BY <1>2, ConstantsAssumption, SeqMonotonic
  <1>4. QED
    BY <1>1, <1>2, <1>3, ConstantsAssumption DEF RawOK

LEMMA VectorsInit == Init => VectorsInv
  BY RawInit DEF Init, VectorsInv, VectorsMatchTexts, IsSeq

\* The drafts of the builder remain a sequence, and none is taken back.
LEMMA FlushedIsSeq ==
    ASSUME IsSeq(drafts)
    PROVE  IsSeq(FlushedDrafts) /\ Len(drafts) <= Len(FlushedDrafts)
  <1>1. PICK S : drafts \in Seq(S)
    BY DEF IsSeq
  <1>2. CASE FlushedDrafts = drafts
    BY <1>1, <1>2
  <1>3. ASSUME NEW d, FlushedDrafts = Append(drafts, d)
        PROVE  IsSeq(FlushedDrafts) /\ Len(drafts) <= Len(FlushedDrafts)
    <2>1. drafts \in Seq(S \cup {d}) /\ d \in S \cup {d} /\ Len(drafts) \in Nat
      BY <1>1, SeqMonotonic
    <2>2. Append(drafts, d) \in Seq(S \cup {d}) /\ Len(Append(drafts, d)) = Len(drafts) + 1
      BY <2>1, AppendProperties
    <2>3. QED
      BY <1>3, <2>1, <2>2 DEF IsSeq
  <1>4. FlushedDrafts = drafts \/ \E d : FlushedDrafts = Append(drafts, d)
    BY Zenon DEF FlushedDrafts
  <1>5. QED
    BY <1>2, <1>3, <1>4

LEMMA ConcatIsSeq ==
    ASSUME NEW s, NEW t, IsSeq(s), IsSeq(t)
    PROVE  IsSeq(s \o t) /\ Len(s) <= Len(s \o t)
  <1>1. PICK S : s \in Seq(S)
    BY DEF IsSeq
  <1>2. PICK T : t \in Seq(T)
    BY DEF IsSeq
  <1>3. s \in Seq(S \cup T) /\ t \in Seq(S \cup T)
    BY <1>1, <1>2, SeqMonotonic
  <1>4. QED
    BY <1>3 DEF IsSeq

\* The text of a block is one of characters, at least one.
LEMMA BlockText ==
    ASSUME RawOK, NEW block \in Blocks
    PROVE  block.text \in Seq(Char) /\ block.text # <<>>
  <1>1. PICK b \in Inked : block = Shown(b)
    BY DEF Blocks
  <1>2. block.text \in Seq(CharOf(b)) /\ block.text # <<>>
    BY <1>1, BlockIs
  <1>3. CharOf(b) \subseteq Char
    BY DEF CharOf
  <1>4. QED
    BY <1>2, <1>3, SeqMonotonic

\* The parser's blocks never change, so their normal forms do not.
LEMMA SameBlocks ==
    ASSUME UNCHANGED raw
    PROVE  Blocks' = Blocks /\ Inked' = Inked /\ \A b : (Normalized(b)' = Normalized(b) /\ Shown(b)' = Shown(b))
  <1>2. \A b : Normalized(b)' = Normalized(b)
    BY DEF Normalized
  <1>3. \A b : Shown(b)' = Shown(b)
    BY <1>2 DEF Shown, Capped
  <1>4. Inked' = Inked
    BY <1>2 DEF Inked
  <1>5. Blocks' = Blocks
    BY <1>3, <1>4 DEF Blocks
  <1>6. QED
    BY <1>2, <1>3, <1>4, <1>5

LEMMA VectorsStep == VectorsInv /\ [Next]_vars => VectorsInv'
  <1> SUFFICES ASSUME VectorsInv, [Next]_vars PROVE VectorsInv'
    OBVIOUS
  <1>0. /\ RawOK /\ doc \in Seq(Blocks) /\ at \in 0 .. Len(doc) /\ IsSeq(drafts)
        /\ (pc = "finalize" => at = 0)
        /\ vectors \in Seq(Nat) /\ Len(vectors) <= Len(drafts) /\ VectorsMatchTexts
        /\ Len(vectors) \in Nat /\ Len(drafts) \in Nat
    <2>1. PICK S : drafts \in Seq(S)
      BY DEF VectorsInv, IsSeq
    <2>2. Len(drafts) \in Nat
      BY <2>1
    <2>3. QED
      BY <2>2 DEF VectorsInv
  <1>r. ASSUME UNCHANGED raw
        PROVE  RawOK' /\ Blocks' = Blocks
    BY <1>0, <1>r, SameBlocks DEF RawOK
  <1>k. ASSUME UNCHANGED <<raw, doc, vectors>>, at' \in 0 .. Len(doc),
               IsSeq(drafts'), Len(drafts) <= Len(drafts'),
               pc' # "finalize" \/ UNCHANGED <<pc, at>>
        PROVE  VectorsInv'
    <2>1. Len(drafts') \in Nat
      BY <1>k DEF IsSeq
    <2>2. Len(vectors) <= Len(drafts')
      BY <1>0, <1>k, <2>1
    <2>3. QED
      BY <1>0, <1>r, <1>k, <2>2 DEF VectorsInv, VectorsMatchTexts, IsSeq
  <1>1. CASE Finalize
    <2>1. Finalized.kept \in Seq(Blocks)
      BY <1>0, DocumentIs
    <2>2. doc' \in Seq(Blocks)
      BY <1>0, <1>1, <2>1, Zenon DEF Finalize, Finalized, NothingKept
    <2>3. UNCHANGED <<raw, at, drafts, vectors>>
      BY <1>1 DEF Finalize, builder
    <2>4. at \in 0 .. Len(doc') /\ pc' # "finalize"
      BY <1>0, <1>1, <2>2 DEF Finalize
    <2>5. QED
      BY <1>0, <1>r, <2>2, <2>3, <2>4 DEF VectorsInv, VectorsMatchTexts, IsSeq
  <1>2. CASE StartSection \/ FinishChunking
    <2>1. drafts' = FlushedDrafts /\ UNCHANGED <<raw, doc, vectors>>
      BY <1>2 DEF StartSection, FinishChunking
    <2>2. at' \in 0 .. Len(doc) /\ pc' # "finalize"
      BY <1>0, <1>2 DEF StartSection, FinishChunking, NextBlock
    <2>3. QED
      BY <1>0, <1>k, <2>1, <2>2, FlushedIsSeq
  <1>3. CASE AddText
    <2>1. UNCHANGED <<raw, doc, vectors, drafts>>
      BY <1>3 DEF AddText, builder
    <2>2. at' \in 0 .. Len(doc) /\ pc' # "finalize"
      BY <1>0, <1>3 DEF AddText, NextBlock
    <2>3. QED
      BY <1>0, <1>k, <2>1, <2>2
  <1>4. CASE AddPiece
    <2>1. UNCHANGED <<pc, raw, doc, vectors, at>> /\ (drafts' = FlushedDrafts \/ drafts' = drafts)
      BY <1>4 DEF AddPiece
    <2>2. QED
      BY <1>0, <1>k, <2>1, FlushedIsSeq
  <1>5. CASE AddTable
    <2> DEFINE rows == doc[at + 1].text
               groups == PackTable(rows)
    <2>1. /\ UNCHANGED <<raw, doc, vectors>> /\ at' \in 0 .. Len(doc) /\ doc[at + 1] \in Blocks
          /\ pc' # "finalize"
      BY <1>0, <1>5 DEF AddTable, NextBlock
    <2>2. groups \in Seq(Group(rows[1]))
      BY <1>0, <2>1, BlockText, PackTableType
    <2>3. PICK f : drafts' = FlushedDrafts \o [i \in DOMAIN groups |-> f[i]]
      <3> DEFINE g == [i \in DOMAIN groups |->
                         Draft("table", <<>>, <<>>, groups[i], TableTokens(rows, groups[i]))]
      <3>1. drafts' = FlushedDrafts \o g
        BY <1>5 DEF AddTable
      <3>2. g = [i \in DOMAIN groups |-> g[i]]
        OBVIOUS
      <3> HIDE DEF g
      <3>3. QED
        BY <3>1, <3>2
    <2> DEFINE fresh == [i \in DOMAIN groups |-> f[i]]
    <2>4. IsSeq(fresh)
      <3>1. Len(groups) \in Nat /\ DOMAIN groups = 1 .. Len(groups)
        BY <2>2
      <3>2. fresh \in Seq({f[i] : i \in DOMAIN groups})
        BY <3>1
      <3>3. QED
        BY <3>2 DEF IsSeq
    <2> HIDE DEF fresh
    <2>5. IsSeq(FlushedDrafts) /\ Len(drafts) <= Len(FlushedDrafts)
      BY <1>0, FlushedIsSeq
    <2>6. IsSeq(drafts') /\ Len(FlushedDrafts) <= Len(drafts')
      BY <2>3, <2>4, <2>5, ConcatIsSeq DEF fresh
    <2>7. Len(drafts) <= Len(drafts')
      <3>1. Len(FlushedDrafts) \in Nat /\ Len(drafts') \in Nat
        BY <2>5, <2>6 DEF IsSeq
      <3>2. QED
        BY <1>0, <2>5, <2>6, <3>1
    <2>8. QED
      BY <1>k, <2>1, <2>6, <2>7
  <1>6. CASE EmbedBatch
    <2> DEFINE n == BatchLen
               m == Len(vectors)
    <2>0. UNCHANGED <<raw, doc, at, drafts>> /\ pc' # "finalize"
      BY <1>6 DEF EmbedBatch, builder
    <2>1. n \in Nat /\ n <= Len(drafts) - m
      BY <1>0, BatchLenIs
    <2>2. PICK answer \in Answers :
            IF Len(answer) = n
            THEN vectors' = vectors \o [k \in DOMAIN answer |-> InInputOrder(answer)[k].of]
            ELSE UNCHANGED vectors
      BY <1>6 DEF EmbedBatch
    <2>3. CASE Len(answer) # n
      BY <1>0, <1>r, <2>0, <2>2, <2>3 DEF VectorsInv, VectorsMatchTexts, IsSeq
    <2>4. CASE Len(answer) = n
      <3> DEFINE more == [k \in 1 .. n |-> m + k]
      <3>1. \A k \in 1 .. n : DOMAIN answer = 1 .. n /\ InInputOrder(answer)[k].of = m + k
        BY <1>0, <2>1, <2>4, OrderedRow
      <3>2. n > 0
        BY <1>6 DEF EmbedBatch
      <3>3. DOMAIN answer = 1 .. n
        BY <2>1, <3>1, <3>2
      <3>4. vectors' = vectors \o more
        BY <2>2, <2>4, <3>1, <3>3
      <3>5. more \in Seq(Nat) /\ Len(more) = n /\ \A k \in 1 .. n : more[k] = m + k
        BY <1>0, <2>1
      <3> HIDE DEF more, n
      <3>6. /\ vectors' \in Seq(Nat) /\ Len(vectors') = m + n
            /\ \A k \in 1 .. m + n : vectors'[k] = IF k <= m THEN vectors[k] ELSE more[k - m]
        BY <1>0, <3>4, <3>5, ConcatProperties
      <3>7. \A k \in 1 .. m : vectors[k] = k
        BY <1>0 DEF VectorsMatchTexts
      <3>8. \A k \in 1 .. m + n : vectors'[k] = k
        <4>1. ASSUME NEW k \in 1 .. m + n
              PROVE  vectors'[k] = k
          <5>1. CASE k <= m
            <6>1. k \in 1 .. m
              BY <1>0, <5>1
            <6>2. QED
              BY <3>6, <3>7, <5>1, <6>1
          <5>2. CASE ~(k <= m)
            <6>1. k - m \in 1 .. n /\ m + (k - m) = k
              BY <1>0, <2>1, <5>2
            <6>2. QED
              BY <3>5, <3>6, <5>2, <6>1
          <5>3. QED
            BY <5>1, <5>2
        <4>2. QED
          BY <4>1
      <3>9. VectorsMatchTexts'
        BY <3>6, <3>8 DEF VectorsMatchTexts
      <3>10. Len(vectors') <= Len(drafts')
        BY <1>0, <2>0, <2>1, <3>6
      <3>11. QED
        BY <1>0, <1>r, <2>0, <3>6, <3>9, <3>10 DEF VectorsInv, IsSeq
    <2>5. QED
      BY <2>3, <2>4
  <1>7. CASE EmbedDone \/ UNCHANGED vars
    <2>1. UNCHANGED <<raw, doc, at, drafts, vectors>> /\ (pc' # "finalize" \/ UNCHANGED pc)
      BY <1>7 DEF EmbedDone, vars, builder
    <2>2. QED
      BY <1>0, <1>k, <2>1
  <1>8. QED
    BY <1>1, <1>2, <1>3, <1>4, <1>5, <1>6, <1>7 DEF Next

\* Every vector is stored with the chunk whose text it was computed from, whatever
\* the order of the provider's answers (openai_compat.py:78-95).
THEOREM VectorsBelong == Spec => []VectorsMatchTexts
  <1>1. VectorsInv => VectorsMatchTexts
    BY DEF VectorsInv
  <1>2. QED
    BY <1>1, VectorsInit, VectorsStep, PTL DEF Spec

(***************************************************************************)
(* What holds of the empty sequence, and of a longer one if of a shorter,  *)
(* holds of all.                                                           *)
(***************************************************************************)
Grows(T, S) == <<>> \in T /\ \A s \in T, x \in S : Append(s, x) \in T

\* A set of sequences that has the empty one and is closed under Append has them all.
LEMMA SeqInduct ==
    ASSUME NEW S, NEW T, T \subseteq Seq(S), Grows(T, S)
    PROVE  T = Seq(S)
  <1>1. ASSUME NEW s \in Seq(S)
        PROVE  s \in T
    <2> DEFINE Bad == {k \in 0 .. Len(s) : Upto(s, k) \notin T}
    <2>1. ASSUME NEW k \in Bad, \A l \in Bad : k <= l
          PROVE  FALSE
      <3>1. k \in 0 .. Len(s) /\ Upto(s, k) \notin T
        OBVIOUS
      <3>2. k # 0
        BY <3>1, UptoIs DEF Grows
      <3>3. k \in 1 .. Len(s) /\ k - 1 \in 0 .. Len(s) /\ ~(k <= k - 1)
        BY <3>1, <3>2
      <3>4. k - 1 \notin Bad
        BY <2>1, <3>3, Zenon
      <3>5. Upto(s, k - 1) \in T
        BY <3>3, <3>4
      <3>6. s[k] \in S /\ Upto(s, k) = Append(Upto(s, k - 1), s[k])
        BY <3>3, UptoIs
      <3>7. QED
        BY <3>1, <3>5, <3>6, Zenon DEF Grows
    <2>2. Bad = {}
      <3>1. Bad \in SUBSET Nat
        OBVIOUS
      <3> HIDE DEF Bad
      <3>2. QED
        BY <2>1, <3>1, Least
    <2>3. Len(s) \in 0 .. Len(s) /\ Upto(s, Len(s)) = s
      BY UptoIs
    <2>4. QED
      BY <2>2, <2>3
  <1>2. QED
    BY <1>1, Zenon

(***************************************************************************)
(* Texts, joined by newlines, put together and stripped of them            *)
(***************************************************************************)
Joined(s, t) == IF s = <<>> \/ t = <<>> THEN s \o t ELSE s \o <<NL>> \o t
Inking(s, c) == IF c = NL THEN s ELSE Append(s, c)

LEMMA JoinType == <<>> \in Text /\ \A s, t \in Text : Joined(s, t) \in Text
  <1>1. Text = Seq(Sign) /\ <<NL>> \in Text
    BY DEF Text, Sign
  <1>2. \A s, t \in Seq(Sign) : s \o t \in Seq(Sign)
    OBVIOUS
  <1>3. QED
    BY <1>1, <1>2 DEF Joined

LEMMA JoinRun ==
    ASSUME NEW n \in Nat, NEW texts \in [1 .. n -> Text]
    PROVE  \E run : Run(run, n, Text, <<>>,
                        [p \in (1 .. n) \X Text |-> Joined(p[2], texts[p[1]])], Join(texts))
  <1> DEFINE G == [p \in (1 .. n) \X Text |-> Joined(p[2], texts[p[1]])]
             Eq(iter) == iter = [s \in SUBSET (1 .. n) |->
                                   IF s = {} THEN <<>>
                                   ELSE Joined(iter[s \ {Max(s)}], texts[Max(s)])]
             iter == CHOOSE x : Eq(x)
  <1>1. Join(texts) = iter[1 .. n]
    <2>1. DOMAIN texts = 1 .. n
      OBVIOUS
    <2>2. QED
      BY <2>1, Zenon DEF Join, Joined, FoldLeft, MapThenFoldSet
  <1>2. \A k \in 1 .. n : texts[k] \in Text
    OBVIOUS
  <1>3. <<>> \in Text /\ G \in [(1 .. n) \X Text -> Text]
    <2>1. \A x \in Text, y \in Text : Joined(x, y) \in Text
      BY JoinType
    <2>2. <<>> \in Text
      BY JoinType
    <2>3. QED
      BY <1>2, <2>1, <2>2
  <1>4. \A k \in 1 .. n, x \in Text : G[<<k, x>>] = Joined(x, texts[k])
    OBVIOUS
  <1> HIDE DEF G
  <1>5. PICK it : Iterates(it, n, Text, <<>>, G)
    BY <1>3, FoldExists
  <1>6. Eq(it)
    BY <1>4, <1>5, MaxIn DEF Iterates
  <1>7. Eq(iter)
    BY <1>6
  <1>8. Follows(iter, n, Text, <<>>, G)
    <2> HIDE DEF iter
    <2>1. QED
      BY <1>4, <1>7, MaxIn DEF Follows
  <1>9. PICK run : Run(run, n, Text, <<>>, G, iter[1 .. n])
    <2> HIDE DEF iter
    <2>1. QED
      BY <1>3, <1>8, FoldRuns
  <1>10. Run(run, n, Text, <<>>, G, Join(texts))
    BY <1>1, <1>9, Zenon
  <1>11. QED
    BY <1>10 DEF G

LEMMA JoinAppend ==
    ASSUME NEW texts \in Seq(Text), NEW y \in Text
    PROVE  /\ Join(texts) \in Text /\ Join(<<>>) = <<>>
           /\ Join(Append(texts, y)) = Joined(Join(texts), y)
  <1> DEFINE n == Len(texts)
             more == Append(texts, y)
             G == [p \in (1 .. n) \X Text |-> Joined(p[2], texts[p[1]])]
             H == [p \in (1 .. n + 1) \X Text |-> Joined(p[2], more[p[1]])]
  <1>1. /\ n \in Nat /\ texts \in [1 .. n -> Text]
        /\ n + 1 \in Nat /\ more \in [1 .. n + 1 -> Text]
        /\ more[n + 1] = y /\ \A k \in 1 .. n : more[k] = texts[k]
    <2>1. /\ more \in Seq(Text) /\ Len(more) = n + 1 /\ n \in Nat
          /\ more[n + 1] = y /\ \A k \in 1 .. n : more[k] = texts[k]
      BY AppendProperties
    <2>2. texts \in [1 .. n -> Text]
      BY SeqIs
    <2> HIDE DEF more, n
    <2>3. more \in [1 .. n + 1 -> Text]
      BY <2>1, SeqIs
    <2>4. QED
      BY <2>1, <2>2, <2>3
  <1> HIDE DEF n, more
  <1>2. PICK r : Run(r, n, Text, <<>>, G, Join(texts))
    BY <1>1, JoinRun
  <1>3. PICK q : Run(q, n + 1, Text, <<>>, H, Join(more))
    BY <1>1, JoinRun
  <1>t. Join(texts) \in Text
    BY <1>1, <1>2 DEF Run
  <1>4. \A k \in 1 .. n, x \in Text : H[<<k, x>>] = G[<<k, x>>]
    BY <1>1
  <1>5. H[<<n + 1, Join(texts)>>] = Joined(Join(texts), y)
    BY <1>1, <1>t
  <1> HIDE DEF G, H
  <1>6. Join(more) = H[<<n + 1, Join(texts)>>]
    BY <1>1, <1>2, <1>3, <1>4, RunsOn
  <1>7. Join(<<>>) = <<>>
    <2> DEFINE none == [k \in 1 .. 0 |-> y]
    <2>1. none = <<>> /\ none \in [1 .. 0 -> Text]
      OBVIOUS
    <2> HIDE DEF none
    <2>2. PICK run : Run(run, 0, Text, <<>>,
                         [p \in (1 .. 0) \X Text |-> Joined(p[2], none[p[1]])], Join(none))
      BY <2>1, JoinRun
    <2>3. QED
      BY <2>1, <2>2 DEF Run
  <1>8. QED
    BY <1>t, <1>5, <1>6, <1>7 DEF more

LEMMA InkType == <<>> \in Seq(Char) /\ \A s \in Seq(Char), c \in Sign : Inking(s, c) \in Seq(Char)
  BY DEF Inking, Sign

LEMMA InkRun ==
    ASSUME NEW n \in Nat, NEW text \in [1 .. n -> Sign]
    PROVE  \E run : Run(run, n, Seq(Char), <<>>,
                        [p \in (1 .. n) \X Seq(Char) |-> Inking(p[2], text[p[1]])], Ink(text))
  <1> DEFINE G == [p \in (1 .. n) \X Seq(Char) |-> Inking(p[2], text[p[1]])]
             Eq(iter) == iter = [s \in SUBSET (1 .. n) |->
                                   IF s = {} THEN <<>>
                                   ELSE Inking(iter[s \ {Max(s)}], text[Max(s)])]
             iter == CHOOSE x : Eq(x)
  <1>1. Ink(text) = iter[1 .. n]
    <2>1. DOMAIN text = 1 .. n
      OBVIOUS
    <2>2. QED
      BY <2>1, Zenon DEF Ink, Inking, FoldLeft, MapThenFoldSet
  <1>2. \A k \in 1 .. n : text[k] \in Sign
    OBVIOUS
  <1>3. <<>> \in Seq(Char) /\ G \in [(1 .. n) \X Seq(Char) -> Seq(Char)]
    <2>1. \A x \in Seq(Char), y \in Sign : Inking(x, y) \in Seq(Char)
      BY InkType
    <2>2. <<>> \in Seq(Char)
      BY InkType
    <2>3. QED
      BY <1>2, <2>1, <2>2
  <1>4. \A k \in 1 .. n, x \in Seq(Char) : G[<<k, x>>] = Inking(x, text[k])
    OBVIOUS
  <1> HIDE DEF G
  <1>5. PICK it : Iterates(it, n, Seq(Char), <<>>, G)
    BY <1>3, FoldExists
  <1>6. Eq(it)
    BY <1>4, <1>5, MaxIn DEF Iterates
  <1>7. Eq(iter)
    BY <1>6
  <1>8. Follows(iter, n, Seq(Char), <<>>, G)
    <2> HIDE DEF iter
    <2>1. QED
      BY <1>4, <1>7, MaxIn DEF Follows
  <1>9. PICK run : Run(run, n, Seq(Char), <<>>, G, iter[1 .. n])
    <2> HIDE DEF iter
    <2>1. QED
      BY <1>3, <1>8, FoldRuns
  <1>10. Run(run, n, Seq(Char), <<>>, G, Ink(text))
    BY <1>1, <1>9, Zenon
  <1>11. QED
    BY <1>10 DEF G

LEMMA InkAppend ==
    ASSUME NEW text \in Seq(Sign), NEW y \in Sign
    PROVE  /\ Ink(text) \in Seq(Char) /\ Ink(<<>>) = <<>>
           /\ Ink(Append(text, y)) = Inking(Ink(text), y)
  <1> DEFINE n == Len(text)
             more == Append(text, y)
             G == [p \in (1 .. n) \X Seq(Char) |-> Inking(p[2], text[p[1]])]
             H == [p \in (1 .. n + 1) \X Seq(Char) |-> Inking(p[2], more[p[1]])]
  <1>1. /\ n \in Nat /\ text \in [1 .. n -> Sign]
        /\ n + 1 \in Nat /\ more \in [1 .. n + 1 -> Sign]
        /\ more[n + 1] = y /\ \A k \in 1 .. n : more[k] = text[k]
    <2>1. /\ more \in Seq(Sign) /\ Len(more) = n + 1 /\ n \in Nat
          /\ more[n + 1] = y /\ \A k \in 1 .. n : more[k] = text[k]
      BY AppendProperties
    <2>2. text \in [1 .. n -> Sign]
      BY SeqIs
    <2> HIDE DEF more, n
    <2>3. more \in [1 .. n + 1 -> Sign]
      BY <2>1, SeqIs
    <2>4. QED
      BY <2>1, <2>2, <2>3
  <1> HIDE DEF n, more
  <1>2. PICK r : Run(r, n, Seq(Char), <<>>, G, Ink(text))
    BY <1>1, InkRun
  <1>3. PICK q : Run(q, n + 1, Seq(Char), <<>>, H, Ink(more))
    BY <1>1, InkRun
  <1>t. Ink(text) \in Seq(Char)
    BY <1>1, <1>2 DEF Run
  <1>4. \A k \in 1 .. n, x \in Seq(Char) : H[<<k, x>>] = G[<<k, x>>]
    BY <1>1
  <1>5. H[<<n + 1, Ink(text)>>] = Inking(Ink(text), y)
    BY <1>1, <1>t
  <1> HIDE DEF G, H
  <1>6. Ink(more) = H[<<n + 1, Ink(text)>>]
    BY <1>1, <1>2, <1>3, <1>4, RunsOn
  <1>7. Ink(<<>>) = <<>>
    <2> DEFINE none == [k \in 1 .. 0 |-> y]
    <2>1. none = <<>> /\ none \in [1 .. 0 -> Sign]
      OBVIOUS
    <2> HIDE DEF none
    <2>2. PICK run : Run(run, 0, Seq(Char), <<>>,
                         [p \in (1 .. 0) \X Seq(Char) |-> Inking(p[2], none[p[1]])], Ink(none))
      BY <2>1, InkRun
    <2>3. QED
      BY <2>1, <2>2 DEF Run
  <1>8. QED
    BY <1>t, <1>5, <1>6, <1>7 DEF more


LEMMA CharsAppend ==
    ASSUME NEW t \in Text, NEW c \in Sign
    PROVE  CharsOf(Append(t, c)) = CharsOf(t) + c.chars /\ CharsOf(t) \in Nat /\ c.chars \in Nat
  <1>1. t \in Seq(Sign) /\ <<c>> \in Seq(Sign)
    BY DEF Text, Sign
  <1>2. Append(t, c) = t \o <<c>>
    BY <1>1, AppendIsConcat
  <1>3. QED
    BY <1>1, <1>2, CharsConcat, CharsOfOne, CharsType

LEMMA TextIs == Text = Seq(Sign) /\ Seq(Char) \subseteq Text /\ <<>> \in Text
  <1>1. Text = Seq(Sign) /\ Char \subseteq Sign
    BY DEF Text, Sign
  <1>2. QED
    BY <1>1, SeqMonotonic

LEMMA InkConcat ==
    ASSUME NEW s \in Text, NEW t \in Text
    PROVE  Ink(s \o t) = Ink(s) \o Ink(t)
  <1> DEFINE T == {u \in Seq(Sign) : Ink(s \o u) = Ink(s) \o Ink(u)}
  <1>0. s \in Seq(Sign) /\ t \in Seq(Sign)
    BY TextIs
  <1>1. ASSUME NEW c \in Sign
        PROVE  <<>> \in T
    <2>1. Ink(<<>>) = <<>> /\ Ink(s) \in Seq(Char)
      BY <1>0, <1>1, InkAppend
    <2>2. s \o <<>> = s /\ Ink(s) \o <<>> = Ink(s)
      BY <1>0, <2>1, ConcatEmptySeq
    <2>3. QED
      BY <2>1, <2>2
  <1>2. ASSUME NEW u \in T, NEW c \in Sign
        PROVE  Append(u, c) \in T
    <2>1. u \in Seq(Sign) /\ Ink(s \o u) = Ink(s) \o Ink(u) /\ Append(u, c) \in Seq(Sign)
          /\ s \o u \in Seq(Sign)
      BY <1>0
    <2>2. s \o Append(u, c) = Append(s \o u, c)
      BY <1>0, <2>1, ConcatAppend
    <2>3. /\ Ink(Append(s \o u, c)) = Inking(Ink(s) \o Ink(u), c)
          /\ Ink(Append(u, c)) = Inking(Ink(u), c)
          /\ Ink(s) \in Seq(Char) /\ Ink(u) \in Seq(Char)
      BY <1>0, <2>1, InkAppend
    <2>4. Inking(Ink(s) \o Ink(u), c) = Ink(s) \o Inking(Ink(u), c)
      <3>1. CASE c = NL
        BY <3>1 DEF Inking
      <3>2. CASE c # NL
        <4>1. c \in Char
          BY <3>2 DEF Sign
        <4>2. Ink(s) \o Append(Ink(u), c) = Append(Ink(s) \o Ink(u), c)
          BY <2>3, <4>1, ConcatAppend
        <4>3. QED
          BY <3>2, <4>2 DEF Inking
      <3>3. QED
        BY <3>1, <3>2
    <2>5. Ink(s \o Append(u, c)) = Ink(s) \o Ink(Append(u, c))
      BY <2>2, <2>3, <2>4, Zenon
    <2>6. QED
      BY <2>1, <2>5
  <1>3. NL \in Sign /\ T \subseteq Seq(Sign)
    BY DEF Sign
  <1> HIDE DEF T
  <1>4. Grows(T, Sign)
    BY <1>1, <1>2, <1>3 DEF Grows
  <1>5. T = Seq(Sign)
    BY <1>3, <1>4, SeqInduct, Zenon
  <1>6. QED
    BY <1>0, <1>5 DEF T

\* What is not a newline is all that counts.
LEMMA InkIs ==
    ASSUME NEW t \in Text
    PROVE  Ink(t) \in Seq(Char) /\ CharsOf(Ink(t)) = CharsOf(t) /\ (t \in Seq(Char) => Ink(t) = t)
  <1> DEFINE T == {u \in Seq(Sign) : CharsOf(Ink(u)) = CharsOf(u)}
             U == {u \in Seq(Char) : Ink(u) = u}
  <1>0. NL \in Sign /\ t \in Seq(Sign) /\ T \subseteq Seq(Sign) /\ U \subseteq Seq(Char)
    BY TextIs DEF Sign
  <1>1. Ink(<<>>) = <<>> /\ Ink(t) \in Seq(Char)
    BY <1>0, InkAppend
  <1>2. ASSUME NEW u \in T, NEW c \in Sign
        PROVE  Append(u, c) \in T
    <2>1. u \in Seq(Sign) /\ CharsOf(Ink(u)) = CharsOf(u) /\ Append(u, c) \in Seq(Sign)
      OBVIOUS
    <2>2. Ink(Append(u, c)) = Inking(Ink(u), c) /\ Ink(u) \in Seq(Char)
      BY <2>1, InkAppend
    <2>3. u \in Text /\ Ink(u) \in Text
      BY <2>1, <2>2, TextIs
    <2>4. /\ CharsOf(Append(u, c)) = CharsOf(u) + c.chars /\ CharsOf(u) \in Nat /\ c.chars \in Nat
          /\ CharsOf(Append(Ink(u), c)) = CharsOf(Ink(u)) + c.chars
      BY <2>3, CharsAppend
    <2>5. c = NL => c.chars = 0
      BY DEF NL
    <2>6. CharsOf(Ink(Append(u, c))) = CharsOf(Append(u, c))
      BY <2>1, <2>2, <2>4, <2>5 DEF Inking
    <2>7. QED
      BY <2>1, <2>6
  <1>3. ASSUME NEW u \in U, NEW c \in Char
        PROVE  Append(u, c) \in U
    <2>1. u \in Seq(Char) /\ Ink(u) = u /\ Append(u, c) \in Seq(Char) /\ u \in Seq(Sign) /\ c \in Sign
      BY TextIs DEF Sign
    <2>2. Ink(Append(u, c)) = Inking(u, c)
      BY <2>1, InkAppend
    <2>3. c # NL
      BY DEF Char, NL
    <2>4. QED
      BY <2>1, <2>2, <2>3 DEF Inking
  <1>4. <<>> \in T /\ <<>> \in U
    BY <1>1
  <1> HIDE DEF T, U
  <1>5. Grows(T, Sign) /\ Grows(U, Char)
    BY <1>2, <1>3, <1>4 DEF Grows
  <1>6. T = Seq(Sign) /\ U = Seq(Char)
    BY <1>0, <1>5, SeqInduct, Zenon
  <1>7. QED
    BY <1>0, <1>1, <1>6 DEF T, U

LEMMA TokensIs ==
    ASSUME NEW t \in Text
    PROVE  Tokens(t) \in Nat /\ CharsOf(t) \in Nat /\ CharsOf(t) <= Tokens(t)
  <1> DEFINE S == {k \in DOMAIN t : t[k] = NL}
  <1>1. t \in Seq(Sign)
    BY TextIs
  <1>2. Len(t) \in Nat /\ DOMAIN t = 1 .. Len(t)
    BY <1>1
  <1>3. IsFiniteSet(1 .. Len(t)) /\ S \in SUBSET (1 .. Len(t))
    BY <1>2, FS_Interval
  <1> HIDE DEF S
  <1>4. Cardinality(S) \in Nat
    BY <1>3, FS_Subset, FS_CardinalityType
  <1>5. Newlines(t) \in Nat
    BY <1>4 DEF Newlines, S
  <1>6. (Newlines(t) + 3) \div 4 \in Nat
    BY <1>5
  <1>7. CharsOf(t) \in Nat
    BY <1>1, CharsType
  <1>8. QED
    BY <1>6, <1>7 DEF Tokens

LEMMA TokensOfAppend ==
    ASSUME NEW ts \in Seq(Text), NEW t \in Text
    PROVE  /\ TokensOf(Append(ts, t)) = TokensOf(ts) + Tokens(t)
           /\ TokensOf(ts) \in Nat /\ TokensOf(<<>>) = 0
  <1> DEFINE sizes(s) == [k \in DOMAIN s |-> Tokens(s[k])]
             a == sizes(ts)
             more == Append(ts, t)
             b == sizes(more)
  <1>0. \A u \in Text : Tokens(u) \in Nat
    BY TokensIs
  <1>1. /\ more \in Seq(Text) /\ Len(more) = Len(ts) + 1 /\ more[Len(ts) + 1] = t
        /\ \A k \in 1 .. Len(ts) : more[k] = ts[k]
    BY AppendProperties
  <1> HIDE DEF more
  <1>2. a \in Seq(Nat) /\ Len(a) = Len(ts) /\ \A k \in 1 .. Len(ts) : a[k] = Tokens(ts[k])
    <2>1. \A k \in DOMAIN ts : ts[k] \in Text
      OBVIOUS
    <2>2. \A k \in DOMAIN ts : Tokens(ts[k]) \in Nat
      BY <1>0, <2>1, Zenon
    <2>3. QED
      BY <2>2
  <1>3. b \in Seq(Nat) /\ Len(b) = Len(ts) + 1 /\ \A k \in 1 .. Len(ts) + 1 : b[k] = Tokens(more[k])
    <2>1. \A k \in DOMAIN more : more[k] \in Text
      BY <1>1
    <2>2. \A k \in DOMAIN more : Tokens(more[k]) \in Nat
      BY <1>0, <2>1, Zenon
    <2>3. QED
      BY <1>1, <2>2
  <1> DEFINE m == Tokens(t)
  <1> HIDE DEF a, b
  <1>4. m \in Nat /\ b[Len(ts) + 1] = m /\ \A k \in 1 .. Len(ts) : b[k] = a[k]
    <2>1. m \in Nat
      BY <1>0
    <2>2. Len(ts) + 1 \in 1 .. Len(ts) + 1 /\ \A k \in 1 .. Len(ts) : k \in 1 .. Len(ts) + 1
      OBVIOUS
    <2>3. QED
      BY <1>1, <1>2, <1>3, <2>1, <2>2, Zenon
  <1> HIDE DEF m
  <1>5. b = Append(a, m)
    <2>1. /\ Append(a, m) \in Seq(Nat) /\ Len(Append(a, m)) = Len(b)
          /\ \A k \in 1 .. Len(b) : b[k] = Append(a, m)[k]
      BY <1>2, <1>3, <1>4
    <2>2. QED
      BY <1>3, <2>1, SeqEqual
  <1>6. SumOf(b) = SumOf(a) + m /\ SumOf(a) \in Nat /\ SumOf(<<>>) = 0
    BY <1>2, <1>4, <1>5, SumAppend, SumType
  <1>7. sizes(<<>>) = <<>>
    OBVIOUS
  <1>8. QED
    BY <1>6, <1>7 DEF TokensOf, a, b, m, more

LEMMA JoinedChars ==
    ASSUME NEW s \in Text, NEW t \in Text
    PROVE  CharsOf(Joined(s, t)) = CharsOf(s) + CharsOf(t) /\ Ink(Joined(s, t)) = Ink(s) \o Ink(t)
  <1>1. s \in Seq(Sign) /\ t \in Seq(Sign) /\ NL \in Sign /\ <<NL>> \in Seq(Sign)
    BY TextIs DEF Sign
  <1>2. CharsOf(s) \in Nat /\ CharsOf(t) \in Nat /\ CharsOf(<<NL>>) = 0 /\ CharsOf(s \o t) = CharsOf(s) + CharsOf(t)
    BY <1>1, CharsType, CharsOfOne, CharsConcat DEF NL
  <1>3. CASE s = <<>> \/ t = <<>>
    BY <1>2, <1>3, InkConcat DEF Joined
  <1>4. CASE ~(s = <<>> \/ t = <<>>)
    <2> DEFINE u == s \o <<NL>>
    <2>1. Joined(s, t) = u \o t /\ u \in Seq(Sign) /\ u = Append(s, NL)
      BY <1>1, <1>4, AppendIsConcat DEF Joined
    <2> HIDE DEF u
    <2>2. CharsOf(u \o t) = CharsOf(u) + CharsOf(t) /\ CharsOf(u) = CharsOf(s) + NL.chars
      BY <1>1, <2>1, CharsConcat, CharsAppend, TextIs
    <2>3. Ink(u) = Ink(s)
      BY <1>1, <2>1, InkAppend DEF Inking
    <2>4. Ink(u \o t) = Ink(u) \o Ink(t)
      BY <1>1, <2>1, InkConcat, TextIs
    <2>5. NL.chars = 0
      BY DEF NL
    <2>6. QED
      BY <1>2, <2>1, <2>2, <2>3, <2>4, <2>5
  <1>5. QED
    BY <1>3, <1>4

\* Joined texts have the characters of all of them and as many newlines as it takes.
LEMMA JoinHolds ==
    ASSUME NEW ts \in Seq(Text)
    PROVE  Join(ts) \in Text /\ TokensOf(ts) \in Nat /\ CharsOf(Join(ts)) <= TokensOf(ts)
  <1> DEFINE T == {u \in Seq(Text) : CharsOf(Join(u)) <= TokensOf(u)}
  <1>1. Join(ts) \in Text /\ Join(<<>>) = <<>> /\ TokensOf(<<>>) = 0 /\ TokensOf(ts) \in Nat
    BY TextIs, JoinAppend, TokensOfAppend
  <1>2. CharsOf(<<>>) = 0
    <2>1. NL \in Sign
      BY DEF Sign
    <2>2. QED
      BY <2>1, CharsOfOne
  <1>3. <<>> \in T
    BY <1>1, <1>2
  <1>4. ASSUME NEW u \in T, NEW t \in Text
        PROVE  Append(u, t) \in T
    <2>1. u \in Seq(Text) /\ CharsOf(Join(u)) <= TokensOf(u) /\ Append(u, t) \in Seq(Text)
      OBVIOUS
    <2>2. /\ Join(Append(u, t)) = Joined(Join(u), t) /\ Join(u) \in Text
          /\ TokensOf(Append(u, t)) = TokensOf(u) + Tokens(t) /\ TokensOf(u) \in Nat
      BY <2>1, JoinAppend, TokensOfAppend
    <2>3. /\ Tokens(t) \in Nat /\ CharsOf(t) \in Nat /\ CharsOf(t) <= Tokens(t)
          /\ CharsOf(Join(u)) \in Nat
      BY <2>2, TokensIs
    <2>4. CharsOf(Joined(Join(u), t)) = CharsOf(Join(u)) + CharsOf(t)
      BY <2>2, JoinedChars
    <2>5. CharsOf(Join(Append(u, t))) <= TokensOf(Append(u, t))
      BY <2>1, <2>2, <2>3, <2>4
    <2>6. QED
      BY <2>1, <2>5
  <1>5. T \subseteq Seq(Text)
    OBVIOUS
  <1> HIDE DEF T
  <1>6. T = Seq(Text)
    <2>1. Grows(T, Text)
      BY <1>3, <1>4 DEF Grows
    <2>2. QED
      BY <1>5, <2>1, SeqInduct, Zenon
  <1>7. QED
    BY <1>1, <1>6 DEF T

(***************************************************************************)
(* The newlines of texts that are joined                                   *)
(***************************************************************************)
LEMMA NewlinesAppend ==
    ASSUME NEW t \in Text, NEW c \in Sign
    PROVE  /\ Newlines(t) \in Nat
           /\ Newlines(Append(t, c)) = Newlines(t) + (IF c = NL THEN 1 ELSE 0)
  <1> DEFINE n == Len(t)
             more == Append(t, c)
             S == {k \in DOMAIN t : t[k] = NL}
             R == {k \in DOMAIN more : more[k] = NL}
  <1>1. /\ t \in Seq(Sign) /\ n \in Nat /\ DOMAIN t = 1 .. n /\ DOMAIN more = 1 .. n + 1
        /\ more[n + 1] = c /\ \A k \in 1 .. n : more[k] = t[k]
    BY TextIs
  <1>2. IsFiniteSet(S) /\ Cardinality(S) \in Nat
    <2>1. IsFiniteSet(1 .. n) /\ S \in SUBSET (1 .. n)
      BY <1>1, FS_Interval
    <2>2. QED
      BY <2>1, FS_Subset, FS_CardinalityType
  <1> HIDE DEF more
  <1>3. R = IF c = NL THEN S \cup {n + 1} ELSE S
    BY <1>1
  <1>4. n + 1 \notin S
    BY <1>1
  <1>5. Newlines(t) = Cardinality(S) /\ Newlines(more) = Cardinality(R)
    BY DEF Newlines
  <1> HIDE DEF S, R, n
  <1>6. Cardinality(S \cup {n + 1}) = Cardinality(S) + 1
    BY <1>2, <1>4, FS_AddElement
  <1>7. QED
    BY <1>2, <1>3, <1>5, <1>6 DEF more

LEMMA NewlinesOfOne == Newlines(<<>>) = 0 /\ Newlines(<<NL>>) = 1
  <1>1. <<>> \in Text /\ NL \in Sign /\ <<NL>> = Append(<<>>, NL)
    BY TextIs DEF Sign
  <1>2. Newlines(<<>>) = 0
    BY FS_EmptySet DEF Newlines
  <1>3. Newlines(Append(<<>>, NL)) = Newlines(<<>>) + 1
    BY <1>1, NewlinesAppend
  <1>4. QED
    BY <1>1, <1>2, <1>3

LEMMA NewlinesConcat ==
    ASSUME NEW s \in Text, NEW t \in Text
    PROVE  Newlines(s \o t) = Newlines(s) + Newlines(t)
  <1> DEFINE T == {u \in Seq(Sign) : Newlines(s \o u) = Newlines(s) + Newlines(u)}
  <1>1. s \in Seq(Sign) /\ t \in Seq(Sign) /\ Newlines(s) \in Nat
    <2>1. NL \in Sign
      BY DEF Sign
    <2>2. QED
      BY <2>1, TextIs, NewlinesAppend
  <1>2. <<>> \in T
    BY <1>1, NewlinesOfOne, ConcatEmptySeq
  <1>3. ASSUME NEW u \in T, NEW c \in Sign
        PROVE  Append(u, c) \in T
    <2>1. u \in Seq(Sign) /\ Newlines(s \o u) = Newlines(s) + Newlines(u) /\ Append(u, c) \in Seq(Sign)
      OBVIOUS
    <2>2. s \o Append(u, c) = Append(s \o u, c) /\ s \o u \in Seq(Sign)
      BY <1>1, <2>1
    <2>3. u \in Text /\ s \o u \in Text
      BY <2>1, <2>2, TextIs
    <2>4. /\ Newlines(Append(s \o u, c)) = Newlines(s \o u) + (IF c = NL THEN 1 ELSE 0)
          /\ Newlines(Append(u, c)) = Newlines(u) + (IF c = NL THEN 1 ELSE 0)
          /\ Newlines(u) \in Nat
      BY <2>3, NewlinesAppend
    <2>5. Newlines(s \o Append(u, c)) = Newlines(s) + Newlines(Append(u, c))
      BY <1>1, <2>1, <2>2, <2>4
    <2>6. QED
      BY <2>1, <2>5
  <1>4. T \subseteq Seq(Sign)
    OBVIOUS
  <1> HIDE DEF T
  <1>5. T = Seq(Sign)
    <2>1. Grows(T, Sign)
      BY <1>2, <1>3 DEF Grows
    <2>2. QED
      BY <1>4, <2>1, SeqInduct, Zenon
  <1>6. QED
    BY <1>1, <1>5 DEF T

\* Characters are no newlines.
LEMMA Unbroken ==
    ASSUME NEW t \in Seq(Char)
    PROVE  Newlines(t) = 0
  <1>1. \A c \in Char : c # NL
    BY DEF Char, NL
  <1>2. \A k \in DOMAIN t : t[k] \in Char
    OBVIOUS
  <1>3. {k \in DOMAIN t : t[k] = NL} = {}
    BY <1>1, <1>2, Zenon
  <1>4. QED
    BY <1>3, FS_EmptySet DEF Newlines

(***************************************************************************)
(* Texts put together                                                      *)
(***************************************************************************)
LEMMA CatType == <<>> \in Text /\ \A s, t \in Text : s \o t \in Text
  <1>1. \A s, t \in Seq(Sign) : s \o t \in Seq(Sign)
    OBVIOUS
  <1>2. QED
    BY <1>1, TextIs

LEMMA FlattenRun ==
    ASSUME NEW n \in Nat, NEW texts \in [1 .. n -> Text], Len(texts) = n
    PROVE  \E run : Run(run, n, Text, <<>>,
                        [p \in (1 .. n) \X Text |-> p[2] \o texts[p[1]]], FlattenSeq(texts))
  <1> DEFINE G == [p \in (1 .. n) \X Text |-> p[2] \o texts[p[1]]]
             Eq(f) == f = [i \in 1 .. n |-> IF i = 1 THEN texts[i] ELSE f[i - 1] \o texts[i]]
             flatten == CHOOSE f : Eq(f)
  <1>1. \A k \in 1 .. n : texts[k] \in Text
    OBVIOUS
  <1>2. <<>> \in Text /\ G \in [(1 .. n) \X Text -> Text]
    <2>1. \A x, y \in Text : x \o y \in Text
      BY CatType
    <2>2. QED
      BY <1>1, <2>1, CatType
  <1>3. \A k \in 1 .. n, x \in Text : G[<<k, x>>] = x \o texts[k]
    OBVIOUS
  <1> HIDE DEF G
  <1>4. PICK it : Iterates(it, n, Text, <<>>, G)
    BY <1>2, FoldExists
  <1>5. Follows(it, n, Text, <<>>, G)
    BY <1>4, Zenon DEF Iterates, Follows
  <1>6. PICK run : Run(run, n, Text, <<>>, G, it[1 .. n])
    BY <1>2, <1>5, FoldRuns
  <1>7. /\ run \in [0 .. n -> Text] /\ run[0] = <<>>
        /\ \A k \in 1 .. n : run[k - 1] \in Text /\ run[k] = run[k - 1] \o texts[k]
    <2>1. \A k \in 1 .. n : k - 1 \in 0 .. n
      OBVIOUS
    <2>2. run \in [0 .. n -> Text] /\ run[0] = <<>> /\ \A k \in 1 .. n : run[k] = G[<<k, run[k - 1]>>]
      BY <1>6 DEF Run
    <2>3. QED
      BY <1>3, <2>1, <2>2
  <1>8. \A x \in Text : <<>> \o x = x
    BY TextIs, ConcatEmptySeq
  <1>9. Eq([i \in 1 .. n |-> run[i]])
    <2> DEFINE f == [i \in 1 .. n |-> run[i]]
    <2>1. ASSUME NEW i \in 1 .. n
          PROVE  run[i] = IF i = 1 THEN texts[i] ELSE f[i - 1] \o texts[i]
      <3>1. CASE i = 1
        <4>1. i - 1 = 0
          BY <3>1
        <4>2. run[i] = <<>> \o texts[i]
          BY <1>7, <4>1
        <4>3. QED
          BY <1>1, <1>8, <3>1, <4>2
      <3>2. CASE i # 1
        <4>1. i - 1 \in 1 .. n
          BY <3>2
        <4>2. QED
          BY <1>7, <3>2, <4>1
      <3>3. QED
        BY <3>1, <3>2
    <2>2. QED
      BY <2>1
  <1>10. Eq(flatten)
    BY <1>9
  <1>11. \A i \in 1 .. n : flatten[i] = run[i]
    <2> HIDE DEF flatten
    <2> DEFINE Bad == {i \in 1 .. n : flatten[i] # run[i]}
    <2>1. ASSUME NEW i \in Bad, \A j \in Bad : i <= j
          PROVE  FALSE
      <3>1. i \in 1 .. n /\ flatten[i] # run[i]
        OBVIOUS
      <3>2. flatten[i] = IF i = 1 THEN texts[i] ELSE flatten[i - 1] \o texts[i]
        BY <1>10, <3>1
      <3>3. CASE i = 1
        <4>1. run[i] = <<>> \o texts[i]
          <5>1. i - 1 = 0
            BY <3>3
          <5>2. QED
            BY <1>7, <3>1, <5>1
        <4>2. QED
          BY <1>1, <1>8, <3>1, <3>2, <3>3, <4>1
      <3>4. CASE i # 1
        <4>1. i - 1 \in 1 .. n /\ ~(i <= i - 1)
          BY <3>1, <3>4
        <4>2. i - 1 \notin Bad
          BY <2>1, <4>1, Zenon
        <4>3. flatten[i - 1] = run[i - 1]
          BY <4>1, <4>2
        <4>4. QED
          BY <1>7, <3>1, <3>2, <3>4, <4>3
      <3>5. QED
        BY <3>3, <3>4
    <2>2. Bad \in SUBSET Nat
      OBVIOUS
    <2>3. Bad = {}
      <3> HIDE DEF Bad
      <3>1. QED
        BY <2>1, <2>2, Least
    <2>4. QED
      BY <2>3
  <1>12. FlattenSeq(texts) = run[n]
    <2>1. CASE n = 0
      <3>1. FlattenSeq(texts) = texts
        BY <2>1 DEF FlattenSeq
      <3>2. texts = <<>>
        BY <2>1
      <3>3. QED
        BY <1>7, <2>1, <3>1, <3>2
    <2>2. CASE n # 0
      <3>1. FlattenSeq(texts) = flatten[n]
        BY <2>2, Zenon DEF FlattenSeq
      <3>2. n \in 1 .. n
        BY <2>2
      <3> HIDE DEF flatten
      <3>3. QED
        BY <1>11, <3>1, <3>2
    <2>3. QED
      BY <2>1, <2>2
  <1> HIDE DEF flatten
  <1>13. Run(run, n, Text, <<>>, G, FlattenSeq(texts))
    BY <1>6, <1>12 DEF Run
  <1>14. QED
    BY <1>13 DEF G

LEMMA FlattenAppend ==
    ASSUME NEW texts \in Seq(Text), NEW y \in Text
    PROVE  /\ FlattenSeq(texts) \in Text /\ FlattenSeq(<<>>) = <<>>
           /\ FlattenSeq(Append(texts, y)) = FlattenSeq(texts) \o y
  <1> DEFINE n == Len(texts)
             more == Append(texts, y)
             G == [p \in (1 .. n) \X Text |-> p[2] \o texts[p[1]]]
             H == [p \in (1 .. n + 1) \X Text |-> p[2] \o more[p[1]]]
  <1>1. /\ n \in Nat /\ texts \in [1 .. n -> Text]
        /\ n + 1 \in Nat /\ more \in [1 .. n + 1 -> Text]
        /\ more[n + 1] = y /\ \A k \in 1 .. n : more[k] = texts[k]
        /\ Len(more) = n + 1
    <2>1. /\ more \in Seq(Text) /\ Len(more) = n + 1 /\ n \in Nat
          /\ more[n + 1] = y /\ \A k \in 1 .. n : more[k] = texts[k]
      BY AppendProperties
    <2>2. texts \in [1 .. n -> Text]
      BY SeqIs
    <2> HIDE DEF more, n
    <2>3. more \in [1 .. n + 1 -> Text]
      BY <2>1, SeqIs
    <2>4. QED
      BY <2>1, <2>2, <2>3
  <1>e. Len(texts) = n
    OBVIOUS
  <1> HIDE DEF n, more
  <1>2. PICK r : Run(r, n, Text, <<>>, G, FlattenSeq(texts))
    BY <1>1, <1>e, FlattenRun
  <1>3. PICK q : Run(q, n + 1, Text, <<>>, H, FlattenSeq(more))
    BY <1>1, FlattenRun
  <1>t. FlattenSeq(texts) \in Text
    BY <1>1, <1>2 DEF Run
  <1>4. \A k \in 1 .. n, x \in Text : H[<<k, x>>] = G[<<k, x>>]
    BY <1>1
  <1>5. H[<<n + 1, FlattenSeq(texts)>>] = FlattenSeq(texts) \o y
    <2>1. n + 1 \in 1 .. n + 1
      BY <1>1
    <2>2. \A x \in Text : H[<<n + 1, x>>] = x \o more[n + 1]
      BY <2>1
    <2> HIDE DEF H
    <2>3. QED
      BY <1>1, <1>t, <2>2, Zenon
  <1> HIDE DEF G, H
  <1>6. FlattenSeq(more) = H[<<n + 1, FlattenSeq(texts)>>]
    BY <1>1, <1>2, <1>3, <1>4, RunsOn
  <1>7. FlattenSeq(<<>>) = <<>>
    BY DEF FlattenSeq
  <1>8. QED
    BY <1>t, <1>5, <1>6, <1>7 DEF more

LEMMA FlattenOne ==
    ASSUME NEW t \in Text
    PROVE  FlattenSeq(<<t>>) = t
  <1>1. <<>> \in Seq(Text) /\ Append(<<>>, t) = <<t>>
    OBVIOUS
  <1>2. FlattenSeq(Append(<<>>, t)) = FlattenSeq(<<>>) \o t /\ FlattenSeq(<<>>) = <<>>
    BY <1>1, FlattenAppend
  <1>3. <<>> \o t = t
    BY TextIs, ConcatEmptySeq
  <1>4. QED
    BY <1>1, <1>2, <1>3, Zenon

LEMMA TextsConcat == \A x, y, z \in Seq(Sign) : (x \o y) \o z = x \o (y \o z)
  BY ConcatAssociative

LEMMA FlattenConcat ==
    ASSUME NEW s \in Seq(Text), NEW t \in Seq(Text)
    PROVE  FlattenSeq(s \o t) = FlattenSeq(s) \o FlattenSeq(t)
  <1> DEFINE T == {u \in Seq(Text) : FlattenSeq(s \o u) = FlattenSeq(s) \o FlattenSeq(u)}
  <1>1. <<>> \in T
    <2>1. FlattenSeq(<<>>) = <<>> /\ FlattenSeq(s) \in Text
      BY TextIs, FlattenAppend
    <2>2. s \o <<>> = s
      BY ConcatEmptySeq
    <2>3. FlattenSeq(s) \o <<>> = FlattenSeq(s)
      BY <2>1, TextIs, ConcatEmptySeq
    <2>4. FlattenSeq(s \o <<>>) = FlattenSeq(s) \o FlattenSeq(<<>>)
      BY <2>1, <2>2, <2>3, Zenon
    <2>5. QED
      BY <2>4
  <1>2. ASSUME NEW u \in T, NEW x \in Text
        PROVE  Append(u, x) \in T
    <2>1. u \in Seq(Text) /\ FlattenSeq(s \o u) = FlattenSeq(s) \o FlattenSeq(u)
          /\ Append(u, x) \in Seq(Text) /\ s \o u \in Seq(Text)
      OBVIOUS
    <2>2. s \o Append(u, x) = Append(s \o u, x)
      BY <2>1, ConcatAppend
    <2>3. /\ FlattenSeq(Append(s \o u, x)) = (FlattenSeq(s) \o FlattenSeq(u)) \o x
          /\ FlattenSeq(Append(u, x)) = FlattenSeq(u) \o x
          /\ FlattenSeq(s) \in Text /\ FlattenSeq(u) \in Text
      <3> DEFINE v == s \o u
      <3>1. v \in Seq(Text) /\ u \in Seq(Text)
        BY <2>1, Zenon
      <3> HIDE DEF v
      <3>2. FlattenSeq(Append(v, x)) = FlattenSeq(v) \o x
        BY <3>1, FlattenAppend
      <3>3. FlattenSeq(Append(u, x)) = FlattenSeq(u) \o x
        BY <3>1, FlattenAppend
      <3>4. FlattenSeq(s) \in Text /\ FlattenSeq(u) \in Text
        BY <3>1, FlattenAppend
      <3>5. QED
        BY <2>1, <3>2, <3>3, <3>4, Zenon DEF v
    <2>4. (FlattenSeq(s) \o FlattenSeq(u)) \o x = FlattenSeq(s) \o (FlattenSeq(u) \o x)
      <3> DEFINE a == FlattenSeq(s)
                 b == FlattenSeq(u)
      <3>1. a \in Seq(Sign) /\ b \in Seq(Sign) /\ x \in Seq(Sign)
        BY <2>3, TextIs
      <3> HIDE DEF a, b
      <3>2. (a \o b) \o x = a \o (b \o x)
        BY <3>1, TextsConcat, Zenon
      <3>3. QED
        BY <3>2 DEF a, b
    <2>5. FlattenSeq(s \o Append(u, x)) = FlattenSeq(s) \o FlattenSeq(Append(u, x))
      BY <2>2, <2>3, <2>4, Zenon
    <2>6. QED
      BY <2>1, <2>5
  <1>3. T \subseteq Seq(Text)
    OBVIOUS
  <1> HIDE DEF T
  <1>4. T = Seq(Text)
    <2>1. Grows(T, Text)
      BY <1>1, <1>2 DEF Grows
    <2>2. QED
      BY <1>3, <2>1, SeqInduct, Zenon
  <1>5. QED
    BY <1>4 DEF T

(***************************************************************************)
(* The recursive halving of a text                                         *)
(***************************************************************************)

\* Either part of a cut is shorter than the text: the recursion ends.
LEMMA CutInside ==
    ASSUME NEW text \in Text, NEW n \in Nat, n = Len(text), n > 1
    PROVE  CutOf(text) \in 1 .. n - 1
  <1> DEFINE middle == n \div 2
             candidates == Stops(text) \ {n}
             nearest == {j \in candidates : \A k \in candidates :
                             Distance(j, middle) <= Distance(k, middle)}
  <1>1. middle \in 1 .. n - 1
    OBVIOUS
  <1>2. candidates \in SUBSET (1 .. n - 1)
    <2>1. DOMAIN text = 1 .. n
      BY TextIs
    <2>2. QED
      BY <2>1 DEF Stops
  <1>3. CutOf(text) = IF candidates = {} THEN middle ELSE Min(nearest)
    BY DEF CutOf
  <1> HIDE DEF candidates, middle
  <1>4. CASE candidates # {}
    <2> DEFINE D == {Distance(j, middle) : j \in candidates}
    <2>1. \A j \in candidates : Distance(j, middle) \in Nat
      BY <1>1, <1>2 DEF Distance
    <2>2. D \in SUBSET Nat /\ D # {}
      BY <1>4, <2>1
    <2>3. PICK d \in D : \A e \in D : d <= e
      <3> HIDE DEF D
      <3>1. QED
        BY <2>2, Least
    <2>4. PICK j \in candidates : d = Distance(j, middle)
      BY <2>3
    <2>5. \A k \in candidates : d <= Distance(k, middle)
      BY <2>3
    <2>6. j \in nearest
      BY <2>4, <2>5
    <2>r. nearest \subseteq candidates
      OBVIOUS
    <2>s. nearest # {}
      BY <2>6
    <2>7. nearest \in SUBSET Nat /\ nearest # {} /\ nearest \subseteq candidates
      <3> HIDE DEF nearest
      <3>1. \A x \in nearest : x \in Nat
        BY <1>2, <2>r
      <3>2. QED
        BY <2>r, <2>s, <3>1
    <2>8. Min(nearest) \in nearest
      <3> HIDE DEF nearest
      <3>1. QED
        BY <2>7, MinIs
    <2>9. QED
      BY <1>2, <1>3, <1>4, <2>7, <2>8
  <1>5. QED
    BY <1>1, <1>3, <1>4

\* A part of a part is a part, and the two of a cut make it up.
LEMMA HalvesOf ==
    ASSUME NEW C, NEW text \in Seq(C), NEW part \in SubSeqs(text), NEW c \in 1 .. Len(part) - 1
    PROVE  LET a == SubSeq(part, 1, c)
               b == SubSeq(part, c + 1, Len(part))
           IN  /\ a \in SubSeqs(text) /\ a \in Seq(C) /\ Len(a) = c
               /\ b \in SubSeqs(text) /\ b \in Seq(C) /\ Len(b) = Len(part) - c
               /\ part \in Seq(C) /\ part = a \o b
  <1> DEFINE n == Len(text)
             a == SubSeq(part, 1, c)
             b == SubSeq(part, c + 1, Len(part))
  <1>1. PICK i, j \in 0 .. n : part = SubSeq(text, i + 1, j)
    BY DEF SubSeqs
  <1>2. n \in Nat /\ DOMAIN text = 1 .. n
    OBVIOUS
  <1>3. part \in Seq(C) /\ Len(part) \in Nat
    BY <1>1
  <1>4. i < j /\ Len(part) = j - i /\ \A k \in 1 .. j - i : part[k] = text[i + k]
    <2>1. Len(part) >= 2
      BY <1>3
    <2>2. i < j
      BY <1>1, <1>2, <2>1
    <2>3. QED
      BY <1>1, <1>2, <2>2
  <1>5. /\ a \in Seq(C) /\ Len(a) = c /\ \A k \in 1 .. c : a[k] = part[k]
        /\ b \in Seq(C) /\ Len(b) = Len(part) - c
        /\ \A k \in 1 .. Len(part) - c : b[k] = part[c + k]
    BY <1>3
  <1>6. SubSeq(text, i + 1, i + c) \in Seq(C) /\ Len(SubSeq(text, i + 1, i + c)) = c
        /\ \A k \in 1 .. c : SubSeq(text, i + 1, i + c)[k] = text[i + k]
    BY <1>1, <1>2, <1>4
  <1>7. SubSeq(text, i + c + 1, j) \in Seq(C) /\ Len(SubSeq(text, i + c + 1, j)) = j - i - c
        /\ \A k \in 1 .. j - i - c : SubSeq(text, i + c + 1, j)[k] = text[i + c + k]
    BY <1>1, <1>2, <1>4
  <1>8. c \in Nat /\ i \in Nat /\ j \in Nat
    BY <1>4
  <1> HIDE DEF a, b
  <1>9. a = SubSeq(text, i + 1, i + c)
    <2>1. \A k \in 1 .. c : a[k] = SubSeq(text, i + 1, i + c)[k]
      <3>1. \A k \in 1 .. c : k \in 1 .. j - i
        BY <1>4, <1>8
      <3>2. QED
        BY <1>4, <1>5, <1>6, <3>1, Zenon
    <2>2. QED
      BY <1>5, <1>6, <2>1, SeqEqual
  <1>10. b = SubSeq(text, i + c + 1, j)
    <2>1. \A k \in 1 .. j - i - c : b[k] = SubSeq(text, i + c + 1, j)[k]
      <3>1. ASSUME NEW k \in 1 .. j - i - c
            PROVE  b[k] = text[i + c + k]
        <4>1. c + k \in 1 .. j - i /\ i + (c + k) = i + c + k
          BY <1>8
        <4>2. b[k] = part[c + k]
          BY <1>4, <1>5
        <4>3. part[c + k] = text[i + (c + k)]
          BY <1>4, <4>1
        <4>4. QED
          BY <4>1, <4>2, <4>3
      <3>2. QED
        BY <1>7, <3>1
    <2>2. Len(b) = j - i - c
      BY <1>4, <1>5, <1>8
    <2>3. QED
      BY <1>5, <1>7, <2>1, <2>2, SeqEqual
  <1>11. a \in SubSeqs(text) /\ b \in SubSeqs(text)
    <2>1. i \in 0 .. n /\ i + c \in 0 .. n /\ j \in 0 .. n
      BY <1>2, <1>4, <1>8
    <2>2. QED
      BY <1>9, <1>10, <2>1 DEF SubSeqs
  <1>12. part = a \o b
    <2>1. a \o b \in Seq(C) /\ Len(a \o b) = Len(part)
      <3>1. a \o b \in Seq(C) /\ Len(a \o b) = Len(a) + Len(b)
        BY <1>5, ConcatProperties
      <3>2. QED
        BY <1>3, <1>5, <1>8, <3>1
    <2>2. ASSUME NEW k \in 1 .. Len(part)
          PROVE  part[k] = (a \o b)[k]
      <3>1. CASE k <= c
        <4>1. k \in 1 .. c /\ (a \o b)[k] = a[k]
          BY <1>3, <1>5, <1>8, <3>1
        <4>2. QED
          BY <1>5, <4>1
      <3>2. CASE ~(k <= c)
        <4>1. k - c \in 1 .. Len(part) - c /\ c + (k - c) = k /\ (a \o b)[k] = b[k - c]
          BY <1>3, <1>5, <1>8, <3>2
        <4>2. b[k - c] = part[c + (k - c)]
          BY <1>5, <4>1
        <4>3. QED
          BY <4>1, <4>2
      <3>3. QED
        BY <3>1, <3>2
    <2>3. QED
      BY <1>3, <2>1, <2>2, SeqEqual
  <1>13. QED
    BY <1>3, <1>5, <1>11, <1>12 DEF a, b

LEMMA PartType ==
    ASSUME NEW C, NEW text \in Seq(C)
    PROVE  text \in SubSeqs(text) /\ \A part \in SubSeqs(text) : part \in Seq(C) /\ Len(part) \in Nat
  <1>1. 0 \in 0 .. Len(text) /\ Len(text) \in 0 .. Len(text) /\ text = SubSeq(text, 0 + 1, Len(text))
    BY UptoIs DEF Upto
  <1>2. \A i, j \in 0 .. Len(text) : SubSeq(text, i + 1, j) \in Seq(C)
    OBVIOUS
  <1>3. \A part \in Seq(C) : Len(part) \in Nat
    OBVIOUS
  <1>4. text \in SubSeqs(text)
    <2>1. \E i, j \in 0 .. Len(text) : text = SubSeq(text, i + 1, j)
      BY <1>1, Zenon
    <2>2. QED
      BY <2>1 DEF SubSeqs
  <1>5. ASSUME NEW part \in SubSeqs(text)
        PROVE  part \in Seq(C)
    <2>1. PICK i, j \in 0 .. Len(text) : part = SubSeq(text, i + 1, j)
      BY DEF SubSeqs
    <2>2. QED
      BY <1>2, <2>1
  <1>6. QED
    BY <1>3, <1>4, <1>5

\* One level of the recursion of SplitToLimit.
Halved(f, part) ==
    IF Tokens(part) <= Target \/ Len(part) <= 1 THEN <<part>>
    ELSE f[SubSeq(part, 1, CutOf(part))] \o f[SubSeq(part, CutOf(part) + 1, Len(part))]

SplitsBelow(f, text, d) == \A part \in SubSeqs(text) : Len(part) < d => f[part] = Halved(f, part)

LEMMA HalvedType ==
    ASSUME NEW text \in Text, NEW f \in [SubSeqs(text) -> Seq(Text)], NEW part \in SubSeqs(text)
    PROVE  Halved(f, part) \in Seq(Text)
  <1>1. CASE Tokens(part) <= Target \/ Len(part) <= 1
    <2>1. part \in Text
      BY TextIs, PartType
    <2>2. QED
      BY <1>1, <2>1 DEF Halved
  <1>2. CASE ~(Tokens(part) <= Target \/ Len(part) <= 1)
    <2> DEFINE c == CutOf(part)
               x == f[SubSeq(part, 1, c)]
               y == f[SubSeq(part, c + 1, Len(part))]
    <2>0. part \in Text /\ Len(part) \in Nat
      BY TextIs, PartType
    <2>1. part \in Text /\ Len(part) \in Nat /\ Len(part) > 1
      BY <1>2, <2>0
    <2>2. c \in 1 .. Len(part) - 1
      BY <2>1, CutInside
    <2>3. SubSeq(part, 1, c) \in SubSeqs(text) /\ SubSeq(part, c + 1, Len(part)) \in SubSeqs(text)
      <3> HIDE DEF c
      <3>1. QED
        BY <2>2, TextIs, HalvesOf
    <2>4. x \in Seq(Text) /\ y \in Seq(Text)
      <3> HIDE DEF c
      <3>1. QED
        BY <2>3
    <2>5. Halved(f, part) = x \o y
      BY <1>2 DEF Halved
    <2> HIDE DEF x, y
    <2>6. QED
      BY <2>4, <2>5
  <1>3. QED
    BY <1>1, <1>2

\* The function SplitToLimit defines exists: texts shorter than any bound have one.
LEMMA SplitsExists ==
    ASSUME NEW text \in Text, NEW m \in Nat
    PROVE  \E f \in [SubSeqs(text) -> Seq(Text)] : SplitsBelow(f, text, m)
  <1> DEFINE Fs == [SubSeqs(text) -> Seq(Text)]
             Bad == {d \in Nat : ~ \E f \in Fs : SplitsBelow(f, text, d)}
  <1>0. \A part \in SubSeqs(text) : part \in Text /\ Len(part) \in Nat
    BY TextIs, PartType
  <1>1. ASSUME NEW d \in Bad, \A e \in Bad : d <= e
        PROVE  FALSE
    <2>1. d # 0
      <3> DEFINE f == [part \in SubSeqs(text) |-> <<>>]
      <3>1. f \in Fs
        OBVIOUS
      <3>2. SplitsBelow(f, text, 0)
        BY <1>0 DEF SplitsBelow
      <3>3. QED
        BY <3>1, <3>2
    <2>2. d - 1 \in Nat /\ ~(d <= d - 1)
      BY <2>1
    <2>3. d - 1 \notin Bad
      BY <1>1, <2>2, Zenon
    <2>4. PICK f \in Fs : SplitsBelow(f, text, d - 1)
      BY <2>2, <2>3
    <2> DEFINE g == [part \in SubSeqs(text) |-> Halved(f, part)]
    <2>5. g \in Fs
      <3>1. \A part \in SubSeqs(text) : Halved(f, part) \in Seq(Text)
        BY HalvedType
      <3>2. QED
        BY <3>1
    <2>6. ASSUME NEW part \in SubSeqs(text), Len(part) < d
          PROVE  g[part] = Halved(g, part)
      <3>1. g[part] = Halved(f, part)
        OBVIOUS
      <3>2. CASE Tokens(part) <= Target \/ Len(part) <= 1
        BY <3>1, <3>2 DEF Halved
      <3>3. CASE ~(Tokens(part) <= Target \/ Len(part) <= 1)
        <4> DEFINE c == CutOf(part)
                   a == SubSeq(part, 1, c)
                   b == SubSeq(part, c + 1, Len(part))
        <4>1. part \in Text /\ Len(part) \in Nat /\ Len(part) > 1
          BY <1>0, <3>3
        <4>2. c \in 1 .. Len(part) - 1
          BY <4>1, CutInside
        <4> HIDE DEF c
        <4>3. a \in SubSeqs(text) /\ b \in SubSeqs(text) /\ Len(a) = c /\ Len(b) = Len(part) - c
          BY <4>2, TextIs, HalvesOf
        <4> HIDE DEF a, b
        <4>4. Len(a) < d - 1 /\ Len(b) < d - 1
          BY <2>6, <4>1, <4>2, <4>3
        <4>5. f[a] = g[a] /\ f[b] = g[b]
          <5>1. f[a] = Halved(f, a) /\ f[b] = Halved(f, b)
            BY <2>4, <4>3, <4>4 DEF SplitsBelow
          <5>2. QED
            BY <4>3, <5>1
        <4>6. Halved(f, part) = f[a] \o f[b] /\ Halved(g, part) = g[a] \o g[b]
          BY <3>3 DEF Halved, a, b, c
        <4>7. QED
          BY <3>1, <4>5, <4>6
      <3>4. QED
        BY <3>2, <3>3
    <2> HIDE DEF g
    <2>7. SplitsBelow(g, text, d)
      BY <2>6 DEF SplitsBelow
    <2>8. QED
      BY <2>5, <2>7
  <1>2. Bad \in SUBSET Nat
    OBVIOUS
  <1> HIDE DEF Bad
  <1>3. Bad = {}
    BY <1>1, <1>2, Least
  <1>4. QED
    BY <1>3 DEF Bad

\* A character of a text, which is one token.
Ones == {c \in Char : c.chars = 1}

\* A part of a text that does not have to be cut again.
Piece(C) == {t \in Seq(C) : t # <<>> /\ Tokens(t) <= Target}

\* A text of characters has as many tokens.
LEMMA CharTokens ==
    ASSUME NEW t \in Seq(Char)
    PROVE  Tokens(t) = CharsOf(t) /\ CharsOf(t) \in Nat
  <1>1. t \in Text /\ CharsOf(t) \in Nat
    BY TextIs, TokensIs
  <1>2. \A k \in DOMAIN t : t[k] # NL
    <2>1. \A c \in Char : c # NL
      BY DEF Char, NL
    <2>2. QED
      BY <2>1
  <1>3. {k \in DOMAIN t : t[k] = NL} = {}
    BY <1>2
  <1>4. Newlines(t) = 0
    BY <1>3, FS_EmptySet DEF Newlines
  <1>5. (0 + 3) \div 4 = 0
    OBVIOUS
  <1>6. QED
    BY <1>1, <1>4, <1>5 DEF Tokens

\* The pieces of a text fit a chunk, are not empty, and put together are the text.
LEMMA SplitIs ==
    ASSUME NEW C, C \subseteq Ones, NEW text \in Seq(C), text # <<>>
    PROVE  SplitToLimit(text) \in Seq(Piece(C)) /\ FlattenSeq(SplitToLimit(text)) = text
  <1> DEFINE S == SubSeqs(text)
             Eq(f) == f = [part \in S |->
                             IF Tokens(part) <= Target \/ Len(part) <= 1 THEN <<part>>
                             ELSE f[SubSeq(part, 1, CutOf(part))]
                                  \o f[SubSeq(part, CutOf(part) + 1, Len(part))]]
             split == CHOOSE f : Eq(f)
             Good(part) == split[part] \in Seq(Piece(C)) /\ FlattenSeq(split[part]) = part
             Bad == {d \in Nat : \E part \in S : part # <<>> /\ Len(part) = d /\ ~Good(part)}
  <1>0. C \subseteq Char /\ C \subseteq Ones /\ Seq(C) \subseteq Seq(Char) /\ Seq(C) \subseteq Text
    <2>1. C \subseteq Char /\ C \subseteq Ones
      BY DEF Ones
    <2>2. QED
      BY <2>1, SeqMonotonic, TextIs
  <1>1. text \in S /\ \A part \in S : part \in Seq(C) /\ Len(part) \in Nat
    BY PartType
  <1>2. PICK f \in [S -> Seq(Text)] : SplitsBelow(f, text, Len(text) + 1)
    <2>1. text \in Text /\ Len(text) + 1 \in Nat
      BY <1>0
    <2>2. QED
      BY <2>1, SplitsExists
  <1>3. \A part \in S : Len(part) <= Len(text)
    <2>1. Len(text) \in Nat /\ \A i, j \in 0 .. Len(text) : Len(SubSeq(text, i + 1, j)) <= Len(text)
      OBVIOUS
    <2>2. QED
      BY <2>1 DEF SubSeqs
  <1>4. Eq(f)
    <2>1. \A part \in S : Len(part) < Len(text) + 1
      BY <1>1, <1>3
    <2>2. \A part \in S : f[part] = Halved(f, part)
      BY <1>2, <2>1 DEF SplitsBelow
    <2>3. QED
      BY <1>2, <2>2 DEF Halved
  <1>5. Eq(split)
    BY <1>4
  <1>6. SplitToLimit(text) = split[text]
    BY Zenon DEF SplitToLimit
  <1> HIDE DEF split
  <1>7. \A part \in S : split[part] = Halved(split, part)
    BY <1>5 DEF Halved
  <1>8. ASSUME NEW d \in Bad, \A e \in Bad : d <= e
        PROVE  FALSE
    <2>1. PICK part \in S : part # <<>> /\ Len(part) = d /\ ~Good(part)
      OBVIOUS
    <2>2. part \in Seq(C) /\ Len(part) \in Nat /\ part \in Seq(Char) /\ part \in Text
      BY <1>0, <1>1
    <2>3. CASE Tokens(part) <= Target \/ Len(part) <= 1
      <3>1. split[part] = <<part>>
        BY <1>7, <2>3 DEF Halved
      <3>2. Tokens(part) <= Target
        <4>1. CASE Len(part) <= 1
          <5>1. Len(part) = 1 /\ part[1] \in C
            BY <2>1, <2>2, <4>1
          <5>2. part = <<part[1]>> /\ part[1] \in Sign /\ part[1].chars = 1
            BY <1>0, <2>2, <5>1 DEF Sign, Ones
          <5>3. CharsOf(part) = 1
            BY <5>2, CharsOfOne
          <5>4. QED
            BY <2>2, <5>3, CharTokens, ConstantsAssumption
        <4>2. QED
          BY <2>3, <4>1
      <3>3. part \in Piece(C)
        BY <2>1, <2>2, <3>2 DEF Piece
      <3>4. FlattenSeq(<<part>>) = part /\ <<part>> \in Seq(Piece(C))
        BY <2>2, <3>3, FlattenOne
      <3>5. QED
        BY <2>1, <3>1, <3>4
    <2>4. CASE ~(Tokens(part) <= Target \/ Len(part) <= 1)
      <3> DEFINE c == CutOf(part)
                 a == SubSeq(part, 1, c)
                 b == SubSeq(part, c + 1, Len(part))
      <3>1. Len(part) > 1
        BY <2>2, <2>4
      <3>2. c \in 1 .. Len(part) - 1
        BY <2>2, <3>1, CutInside
      <3> HIDE DEF c
      <3>3. /\ a \in S /\ b \in S /\ Len(a) = c /\ Len(b) = Len(part) - c
            /\ a \in Seq(C) /\ b \in Seq(C) /\ part = a \o b
        BY <3>2, HalvesOf
      <3> HIDE DEF a, b
      <3>4. /\ Len(a) \in Nat /\ Len(b) \in Nat /\ ~(d <= Len(a)) /\ ~(d <= Len(b))
            /\ a # <<>> /\ b # <<>>
        BY <2>1, <2>2, <3>2, <3>3
      <3>5. Good(a) /\ Good(b)
        <4>1. Len(a) \notin Bad /\ Len(b) \notin Bad
          BY <1>8, <3>4, Zenon
        <4> HIDE DEF Good
        <4>2. QED
          BY <3>3, <3>4, <4>1
      <3>6. split[part] = split[a] \o split[b]
        BY <1>7, <2>4 DEF Halved, a, b, c
      <3> DEFINE x == split[a]
                 y == split[b]
      <3>7. x \in Seq(Piece(C)) /\ y \in Seq(Piece(C)) /\ FlattenSeq(x) = a /\ FlattenSeq(y) = b
        BY <3>5
      <3>8. split[part] = x \o y
        BY <3>6
      <3> HIDE DEF x, y
      <3>9. Piece(C) \subseteq Text
        BY <1>0 DEF Piece
      <3>10. x \in Seq(Text) /\ y \in Seq(Text)
        BY <3>7, <3>9, SeqMonotonic
      <3>11. FlattenSeq(x \o y) = a \o b
        BY <3>7, <3>10, FlattenConcat
      <3>12. x \o y \in Seq(Piece(C))
        BY <3>7
      <3>13. QED
        BY <2>1, <3>3, <3>8, <3>11, <3>12
    <2>5. QED
      BY <2>3, <2>4
  <1>9. Bad = {}
    <2>1. Bad \in SUBSET Nat
      OBVIOUS
    <2> HIDE DEF Bad
    <2>2. QED
      BY <1>8, <2>1, Least
  <1>10. Len(text) \in Nat /\ Good(text)
    <2> HIDE DEF Good
    <2>1. QED
      BY <1>1, <1>9
  <1>11. QED
    BY <1>6, <1>10

(***************************************************************************)
(* The overlap: the sentences of a text, counted from its end              *)
(***************************************************************************)

\* How many of S there are up to e.
Rank(S, e) == Cardinality({k \in S : k <= e})

LEMMA RankStep ==
    ASSUME NEW n \in Nat, NEW S \in SUBSET (1 .. n), NEW d \in 0 .. n, NEW e \in 1 .. n, d < e,
           \A k \in S : ~(d < k /\ k < e)
    PROVE  Rank(S, e) = IF e \in S THEN Rank(S, d) + 1 ELSE Rank(S, d)
  <1> DEFINE A == {k \in S : k <= d}
             B == {k \in S : k <= e}
  <1>0. d \in Nat /\ e \in Nat /\ \A k \in S : k \in Nat /\ (k <= e <=> k <= d \/ k = e)
    OBVIOUS
  <1>1. IsFiniteSet(A)
    <2>1. IsFiniteSet(1 .. n)
      BY FS_Interval
    <2>2. IsFiniteSet(S) /\ A \in SUBSET S
      BY <2>1, FS_Subset
    <2>3. QED
      BY <2>2, FS_Subset
  <1>2. CASE e \in S
    <2>1. B = A \cup {e}
      BY <1>0, <1>2
    <2>r. e \notin A
      BY <1>0
    <2> HIDE DEF A, B
    <2>2. Cardinality(B) = Cardinality(A) + 1
      BY <1>1, <2>1, <2>r, FS_AddElement
    <2>3. QED
      BY <1>2, <2>2 DEF Rank, A, B
  <1>3. CASE e \notin S
    <2>1. B = A
      BY <1>0, <1>3
    <2>2. QED
      BY <1>3, <2>1, Zenon DEF Rank
  <1>4. QED
    BY <1>2, <1>3

LEMMA RankIs ==
    ASSUME NEW n \in Nat, NEW S \in SUBSET (1 .. n)
    PROVE  /\ Cardinality(S) \in Nat /\ Rank(S, 0) = 0 /\ Rank(S, n) = Cardinality(S)
           /\ \A e \in 0 .. n : Rank(S, e) \in 0 .. Cardinality(S)
           /\ \A d \in 0 .. n, e \in S : d < e => Rank(S, d) < Rank(S, e)
           /\ \A i \in 1 .. Cardinality(S) : \E e \in S : Rank(S, e) = i
  <1> DEFINE N == Cardinality(S)
             U(e) == {k \in S : k <= e}
  <1>1. IsFiniteSet(S) /\ N \in Nat
    <2>1. IsFiniteSet(1 .. n)
      BY FS_Interval
    <2>2. QED
      BY <2>1, FS_Subset, FS_CardinalityType
  <1>0. \A k \in S : k \in Nat /\ k <= n /\ ~(k <= 0)
    OBVIOUS
  <1>2. U(0) = {} /\ U(n) = S
    BY <1>0
  <1>3. Rank(S, 0) = 0 /\ Rank(S, n) = N
    BY <1>2, FS_EmptySet DEF Rank
  <1>4. ASSUME NEW e \in 0 .. n
        PROVE  Rank(S, e) \in 0 .. N
    <2>1. U(e) \in SUBSET S
      OBVIOUS
    <2> HIDE DEF U
    <2>2. Cardinality(U(e)) \in Nat /\ Cardinality(U(e)) <= N
      BY <1>1, <2>1, FS_Subset, FS_CardinalityType
    <2>3. QED
      BY <1>1, <2>2 DEF Rank, U
  <1>5. ASSUME NEW d \in 0 .. n, NEW e \in S, d < e
        PROVE  Rank(S, d) < Rank(S, e)
    <2>a. d \in Nat /\ e \in Nat /\ \A k \in S : k <= d => k <= e
      BY <1>0, <1>5
    <2>b. e \in U(e) /\ e \notin U(d)
      BY <1>5, <2>a
    <2>1. U(d) \in SUBSET U(e) /\ U(d) # U(e) /\ U(e) \in SUBSET S
      BY <2>a, <2>b
    <2> HIDE DEF U
    <2>2. IsFiniteSet(U(e))
      BY <1>1, <2>1, FS_Subset
    <2>3. Cardinality(U(d)) <= Cardinality(U(e)) /\ Cardinality(U(d)) # Cardinality(U(e))
      BY <2>1, <2>2, FS_Subset
    <2>4. Cardinality(U(d)) \in Nat /\ Cardinality(U(e)) \in Nat
      BY <2>1, <2>2, FS_Subset, FS_CardinalityType
    <2>5. QED
      BY <2>3, <2>4 DEF Rank, U
  <1>6. ASSUME NEW i \in 1 .. N
        PROVE  \E e \in S : Rank(S, e) = i
    <2> DEFINE T == {e \in 0 .. n : i <= Rank(S, e)}
    <2>1. n \in T /\ T \in SUBSET Nat
      BY <1>1, <1>3
    <2>2. PICK e \in T : \A x \in T : e <= x
      <3> HIDE DEF T
      <3>1. QED
        BY <2>1, Least
    <2>3. e \in 0 .. n /\ i <= Rank(S, e)
      OBVIOUS
    <2>4. e # 0
      BY <1>3, <2>3
    <2>5. e - 1 \in 0 .. n /\ e \in 1 .. n /\ e - 1 < e /\ ~(e <= e - 1)
      BY <2>3, <2>4
    <2>6. e - 1 \notin T
      <3> HIDE DEF T
      <3>1. QED
        BY <2>2, <2>5, Zenon
    <2>7. ~(i <= Rank(S, e - 1))
      BY <2>5, <2>6
    <2>8. \A k \in S : ~(e - 1 < k /\ k < e)
      BY <2>5
    <2>9. Rank(S, e) = IF e \in S THEN Rank(S, e - 1) + 1 ELSE Rank(S, e - 1)
      BY <2>5, <2>8, RankStep
    <2>10. Rank(S, e) \in Nat /\ Rank(S, e - 1) \in Nat
      <3>1. Rank(S, e) \in 0 .. N /\ Rank(S, e - 1) \in 0 .. N
        BY <1>4, <2>3, <2>5
      <3>2. QED
        BY <1>1, <3>1
    <2>11. e \in S /\ Rank(S, e) = i
      BY <2>3, <2>7, <2>9, <2>10
    <2>12. QED
      BY <2>11
  <1>7. QED
    BY <1>1, <1>3, <1>4, <1>5, <1>6

\* Sentences, in parts: the ends of the sentences of a text, the sentence that ends at
\* e, the ends of those that are not blank and the i-th of them.
EndsOf(text)      == Stops(text) \cup {Len(text)}
StartOf(text, e)  == Max({0} \cup {k \in EndsOf(text) : k < e}) + 1
PartOf(text, e)   == SubSeq(text, StartOf(text, e), e)
InkedEnds(text)   == {e \in EndsOf(text) : CharsOf(PartOf(text, e)) > 0}
NthEnd(text, i)   == CHOOSE e \in InkedEnds(text) : Rank(InkedEnds(text), e) = i

LEMMA SentencesAre ==
    ASSUME NEW text
    PROVE  Sentences(text) = [i \in 1 .. Cardinality(InkedEnds(text)) |-> PartOf(text, NthEnd(text, i))]
  BY Zenon DEF Sentences, EndsOf, StartOf, PartOf, InkedEnds, NthEnd, Rank

LEMMA EndsAre ==
    ASSUME NEW text \in Text, NEW n \in Nat, n = Len(text)
    PROVE  /\ EndsOf(text) \in SUBSET (0 .. n) /\ n \in EndsOf(text)
           /\ \A e \in EndsOf(text) : e # 0 => StartOf(text, e) \in 1 .. e
           /\ \A e \in EndsOf(text) : PartOf(text, e) \in Text
           /\ InkedEnds(text) \in SUBSET (1 .. n)
  <1>1. EndsOf(text) \in SUBSET (0 .. n) /\ n \in EndsOf(text)
    <2>1. DOMAIN text = 1 .. n
      BY TextIs
    <2>2. QED
      BY <2>1 DEF EndsOf, Stops
  <1>2. ASSUME NEW e \in EndsOf(text)
        PROVE  (e # 0 => StartOf(text, e) \in 1 .. e) /\ (e = 0 => StartOf(text, e) = 1)
    <2> DEFINE T == {0} \cup {k \in EndsOf(text) : k < e}
    <2>1. e \in 0 .. n /\ e \in Nat
      BY <1>1
    <2>2. T \in SUBSET (0 .. e) /\ T # {} /\ (e = 0 => T = {0})
      BY <1>1, <2>1
    <2>3. \A k \in T : k = 0 \/ k < e
      OBVIOUS
    <2> HIDE DEF T
    <2>4. Max(T) \in T
      BY <2>1, <2>2, MaxIs
    <2>5. Max(T) \in 0 .. e /\ (Max(T) = 0 \/ Max(T) < e)
      BY <2>2, <2>3, <2>4
    <2>6. StartOf(text, e) = Max(T) + 1
      BY DEF StartOf, T
    <2>7. QED
      BY <2>1, <2>5, <2>6
  <1>3. \A i, j \in 0 .. n : SubSeq(text, i + 1, j) \in Text
    BY TextIs
  <1>4. ASSUME NEW e \in EndsOf(text)
        PROVE  PartOf(text, e) \in Text /\ (e = 0 => PartOf(text, e) = <<>>)
    <2>0. e \in 0 .. n
      BY <1>1
    <2>1. CASE e = 0
      <3>1. PartOf(text, e) = SubSeq(text, 1, 0)
        BY <1>2, <2>1 DEF PartOf
      <3>2. SubSeq(text, 1, 0) = <<>>
        BY TextIs
      <3>3. QED
        BY <3>1, <3>2, TextIs
    <2>2. CASE e # 0
      <3>1. StartOf(text, e) \in 1 .. e
        BY <1>2, <2>2
      <3>2. StartOf(text, e) - 1 \in 0 .. n /\ (StartOf(text, e) - 1) + 1 = StartOf(text, e)
        BY <2>0, <3>1
      <3>3. SubSeq(text, (StartOf(text, e) - 1) + 1, e) \in Text
        BY <1>3, <2>0, <3>2
      <3>4. QED
        BY <2>2, <3>2, <3>3 DEF PartOf
    <2>3. QED
      BY <2>1, <2>2
  <1>5. InkedEnds(text) \in SUBSET (1 .. n)
    <2>1. CharsOf(<<>>) = 0
      <3>1. NL \in Sign
        BY DEF Sign
      <3>2. QED
        BY <3>1, CharsOfOne
    <2>2. \A e \in InkedEnds(text) : e \in 1 .. n
      BY <1>1, <1>4, <2>1 DEF InkedEnds
    <2>3. QED
      BY <2>2
  <1>6. QED
    BY <1>1, <1>2, <1>4, <1>5

\* The k-th of the sentences that are not blank.
LEMMA NthEndIs ==
    ASSUME NEW text \in Text, NEW i \in 1 .. Cardinality(InkedEnds(text))
    PROVE  NthEnd(text, i) \in InkedEnds(text) /\ Rank(InkedEnds(text), NthEnd(text, i)) = i
  <1>1. Len(text) \in Nat
    BY TextIs
  <1>2. InkedEnds(text) \in SUBSET (1 .. Len(text))
    BY <1>1, EndsAre
  <1>3. \E e \in InkedEnds(text) : Rank(InkedEnds(text), e) = i
    BY <1>1, <1>2, RankIs
  <1>4. QED
    BY <1>3, Zenon DEF NthEnd

LEMMA Cuts ==
    ASSUME NEW S, NEW s \in Seq(S)
    PROVE  /\ SubSeq(s, Len(s) + 1, Len(s)) = <<>> /\ SubSeq(s, 1, Len(s)) = s
           /\ \A a, b \in 0 .. Len(s) : SubSeq(s, a + 1, b) \in Seq(S)
           /\ \A a, b \in 0 .. Len(s) :
                a <= b => SubSeq(s, a + 1, Len(s)) = SubSeq(s, a + 1, b) \o SubSeq(s, b + 1, Len(s))
  <1>1. \A a, b \in 0 .. Len(s) : SubSeq(s, a + 1, b) \in Seq(S)
    OBVIOUS
  <1>2. SubSeq(s, Len(s) + 1, Len(s)) = <<>> /\ SubSeq(s, 1, Len(s)) = s
    BY UptoIs DEF Upto
  <1>3. ASSUME NEW a \in 0 .. Len(s), NEW b \in 0 .. Len(s), a <= b
        PROVE  SubSeq(s, a + 1, Len(s)) = SubSeq(s, a + 1, b) \o SubSeq(s, b + 1, Len(s))
    <2>1. a + 1 \in 1 .. Len(s) + 1 /\ b \in (a + 1) - 1 .. Len(s) /\ Len(s) \in b .. Len(s)
      BY <1>3
    <2>2. QED
      BY <2>1, ConcatAdjacentSubSeq
  <1>4. QED
    BY <1>1, <1>2, <1>3

LEMMA CutOnce ==
    ASSUME NEW S, NEW s \in Seq(S), NEW k \in 0 .. Len(s)
    PROVE  /\ s = SubSeq(s, 1, k) \o SubSeq(s, k + 1, Len(s))
           /\ SubSeq(s, 1, k) \in Seq(S) /\ SubSeq(s, k + 1, Len(s)) \in Seq(S)
  <1>1. Len(s) \in Nat
    OBVIOUS
  <1>2. SubSeq(s, 1, k) \in Seq(S) /\ SubSeq(s, k + 1, Len(s)) \in Seq(S)
    BY <1>1
  <1>3. SubSeq(s, 1, Len(s)) = s
    BY Cuts
  <1>4. 1 \in 1 .. Len(s) + 1 /\ k \in 1 - 1 .. Len(s) /\ Len(s) \in k .. Len(s)
    BY <1>1
  <1>5. SubSeq(s, 1, Len(s)) = SubSeq(s, 1, k) \o SubSeq(s, k + 1, Len(s))
    BY <1>4, ConcatAdjacentSubSeq
  <1>6. QED
    BY <1>2, <1>3, <1>5

\* Newlines are no text.
LEMMA BlankIs ==
    ASSUME NEW t \in Text, CharsOf(t) = 0
    PROVE  Ink(t) = <<>>
  <1>1. Ink(t) \in Seq(Char) /\ CharsOf(Ink(t)) = 0
    BY InkIs
  <1>2. ASSUME NEW u \in Seq(Char), u # <<>>
        PROVE  CharsOf(u) # 0
    <2> DEFINE n == Len(u)
               f == SubSeq(u, 1, n - 1)
    <2>1. n \in Nat /\ n >= 1 /\ n \in 1 .. n /\ n - 1 \in 0 .. n
      BY <1>2
    <2>2. f \in Seq(Char) /\ u[n] \in Char /\ u = Append(f, u[n])
      BY <2>1, UptoIs DEF Upto
    <2>3. u[n].chars \in Nat \ {0} /\ u[n] \in Sign /\ f \in Text
      BY <2>2, TextIs DEF Char, Sign
    <2>4. CharsOf(u) = CharsOf(f) + u[n].chars /\ CharsOf(f) \in Nat
      BY <2>2, <2>3, CharsAppend
    <2>5. QED
      BY <2>3, <2>4
  <1>3. QED
    BY <1>1, <1>2

\* What Strip takes away are newlines.
LEMMA StripIs ==
    ASSUME NEW t \in Text
    PROVE  Strip(t) \in Text /\ Ink(Strip(t)) = Ink(t)
  <1> DEFINE n == Len(t)
             inked == {k \in DOMAIN t : t[k] # NL}
             T == {u \in Seq(Sign) : (\A k \in DOMAIN u : u[k] = NL) => Ink(u) = <<>>}
  <1>1. n \in Nat /\ n = Len(t) /\ DOMAIN t = 1 .. n /\ t \in Seq(Sign)
    BY TextIs
  <1> HIDE DEF n
  <1>2. T = Seq(Sign)
    <2>1. ASSUME NEW u \in T, NEW c \in Sign
          PROVE  Append(u, c) \in T
      <3>1. u \in Seq(Sign) /\ Append(u, c) \in Seq(Sign)
        OBVIOUS
      <3>2. ASSUME \A k \in DOMAIN Append(u, c) : Append(u, c)[k] = NL
            PROVE  Ink(Append(u, c)) = <<>>
        <4>1. \A k \in DOMAIN u : k \in DOMAIN Append(u, c) /\ Append(u, c)[k] = u[k]
          BY <3>1
        <4>2. Len(u) + 1 \in DOMAIN Append(u, c) /\ Append(u, c)[Len(u) + 1] = c
          BY <3>1
        <4>3. c = NL /\ \A k \in DOMAIN u : u[k] = NL
          BY <3>2, <4>1, <4>2, Zenon
        <4>4. Ink(u) = <<>>
          BY <4>3
        <4>5. Ink(Append(u, c)) = Inking(Ink(u), c)
          BY <3>1, InkAppend
        <4>6. QED
          BY <4>3, <4>4, <4>5 DEF Inking
      <3>3. QED
        BY <3>1, <3>2
    <2>2. <<>> \in T
      <3>1. NL \in Sign
        BY DEF Sign
      <3>2. Ink(<<>>) = <<>>
        BY <3>1, <1>1, InkAppend
      <3>3. QED
        BY <3>2
    <2>3. T \subseteq Seq(Sign)
      OBVIOUS
    <2> HIDE DEF T
    <2>4. Grows(T, Sign)
      BY <2>1, <2>2 DEF Grows
    <2>5. QED
      BY <2>3, <2>4, SeqInduct, Zenon
  <1>3. \A u \in Text : (\A k \in DOMAIN u : u[k] = NL) => Ink(u) = <<>>
    BY <1>2, TextIs
  <1> HIDE DEF T
  <1>4. CASE inked = {}
    <2>1. \A k \in DOMAIN t : t[k] = NL
      BY <1>4
    <2>2. Ink(t) = <<>>
      BY <1>3, <2>1
    <2>3. Ink(<<>>) = <<>> /\ <<>> \in Text
      <3>1. \A k \in DOMAIN <<>> : <<>>[k] = NL
        OBVIOUS
      <3>2. <<>> \in Text
        BY TextIs
      <3>3. QED
        BY <1>3, <3>1, <3>2, Zenon
    <2>4. QED
      BY <1>4, <2>2, <2>3, Zenon DEF Strip
  <1>5. CASE inked # {}
    <2> DEFINE a == Min(inked) - 1
               b == Max(inked)
               u == SubSeq(t, 1, a)
               v == SubSeq(t, a + 1, b)
               w == SubSeq(t, b + 1, n)
               r == SubSeq(t, a + 1, n)
    <2>1. /\ Min(inked) \in inked /\ Max(inked) \in inked
          /\ \A k \in inked : Min(inked) <= k /\ k <= Max(inked)
      <3>1. inked \in SUBSET Nat /\ inked \in SUBSET (0 .. n)
        BY <1>1
      <3> HIDE DEF inked
      <3>2. Min(inked) \in inked /\ \A k \in inked : Min(inked) <= k
        BY <1>5, <3>1, MinIs
      <3>3. Max(inked) \in inked /\ \A k \in inked : k <= Max(inked)
        BY <1>1, <1>5, <3>1, MaxIs
      <3>4. QED
        BY <3>2, <3>3
    <2>2. Min(inked) \in 1 .. n /\ Max(inked) \in 1 .. n /\ Min(inked) <= Max(inked)
      BY <1>1, <2>1
    <2>3. \A k \in 1 .. n : (k < Min(inked) \/ k > Max(inked)) => t[k] = NL
      <3>1. \A k \in 1 .. n : t[k] # NL => k \in inked
        BY <1>1
      <3> HIDE DEF inked
      <3>2. QED
        BY <2>1, <2>2, <3>1
    <2>4. Strip(t) = v
      <3>1. Strip(t) = SubSeq(t, Min(inked), Max(inked))
        BY <1>5, Zenon DEF Strip
      <3>2. Min(inked) = a + 1
        BY <2>2
      <3>3. QED
        BY <3>1, <3>2
    <2>5. a \in 0 .. n /\ b \in a .. n /\ \A k \in 1 .. n : (k <= a \/ k > b) => t[k] = NL
      <3> DEFINE i == Min(inked)
                 j == Max(inked)
      <3>1. i \in 1 .. n /\ j \in 1 .. n /\ i <= j
            /\ \A k \in 1 .. n : (k < i \/ k > j) => t[k] = NL
        BY <2>2, <2>3
      <3> HIDE DEF i, j
      <3>2. i - 1 \in 0 .. n /\ j \in i - 1 .. n /\ \A k \in 1 .. n : k <= i - 1 => k < i
        BY <1>1, <3>1
      <3>3. \A k \in 1 .. n : (k <= i - 1 \/ k > j) => t[k] = NL
        BY <3>1, <3>2
      <3>4. QED
        BY <3>2, <3>3 DEF i, j
    <2> HIDE DEF a, b
    <2>6. t = u \o r /\ r = v \o w /\ u \in Text /\ v \in Text /\ w \in Text /\ r \in Text
      <3>1. /\ r = v \o w /\ v \in Seq(Sign) /\ w \in Seq(Sign)
        <4>1. a \in 0 .. n /\ b \in 0 .. n /\ n \in 0 .. n /\ a <= b
          BY <1>1, <2>5
        <4>2. QED
          BY <1>1, <4>1, Cuts
      <3>2. t \in Seq(Sign) /\ a \in 0 .. Len(t) /\ n = Len(t)
        BY <1>1, <2>5
      <3>3. t = u \o r /\ u \in Seq(Sign) /\ r \in Seq(Sign)
        BY <3>2, CutOnce
      <3> HIDE DEF u, v, w, r
      <3>4. QED
        BY <3>1, <3>3, TextIs, Zenon
    <2>7. Ink(u) = <<>> /\ Ink(w) = <<>>
      <3>1. \A k \in DOMAIN u : u[k] = NL
        BY <1>1, <2>5
      <3>2. \A k \in DOMAIN w : w[k] = NL
        <4>1. DOMAIN w = 1 .. n - b /\ \A k \in 1 .. n - b : w[k] = t[b + k]
          <5>1. b + 1 \in Int /\ n \in Int /\ \A k \in b + 1 .. n : t[k] \in Sign
            BY <1>1, <2>5
          <5>2. w \in Seq(Sign) /\ Len(w) = (IF b + 1 <= n THEN n - (b + 1) + 1 ELSE 0)
                /\ \A k \in 1 .. n - (b + 1) + 1 : w[k] = t[b + 1 + k - 1]
            BY <5>1, SubSeqProperties
          <5>3. QED
            BY <1>1, <2>5, <5>2
        <4>2. \A k \in 1 .. n - b : b + k \in 1 .. n /\ b + k > b
          BY <1>1, <2>5
        <4>3. QED
          BY <2>5, <4>1, <4>2
      <3>3. QED
        BY <1>3, <2>6, <3>1, <3>2
    <2> HIDE DEF u, v, w, r
    <2>8. Ink(t) = Ink(u) \o Ink(r) /\ Ink(r) = Ink(v) \o Ink(w)
      BY <2>6, InkConcat
    <2>9. Ink(v) \in Seq(Char)
      BY <2>6, InkIs
    <2>10. Ink(v) \o <<>> = Ink(v) /\ <<>> \o Ink(v) = Ink(v)
      BY <2>9, ConcatEmptySeq
    <2>11. Ink(t) = Ink(v)
      BY <2>7, <2>8, <2>10, Zenon
    <2>12. QED
      BY <2>4, <2>6, <2>11
  <1>6. QED
    BY <1>4, <1>5

\* Between two ends in a row lies one sentence.
LEMMA NextEnd ==
    ASSUME NEW text \in Text, NEW n \in Nat, n = Len(text),
           NEW e \in EndsOf(text) \cup {0}, e # n
    PROVE  \E d \in EndsOf(text) :
             /\ e < d /\ d <= n /\ StartOf(text, d) = e + 1
             /\ \A k \in EndsOf(text) : ~(e < k /\ k < d)
  <1> DEFINE E == EndsOf(text)
             T == {k \in E : k > e}
             d == Min(T)
             U == {0} \cup {k \in E : k < d}
  <1>1. E \in SUBSET (0 .. n) /\ n \in E
    BY EndsAre
  <1>2. e \in 0 .. n /\ e < n
    BY <1>1
  <1>3. T \in SUBSET Nat /\ n \in T
    BY <1>1, <1>2
  <1>4. d \in T /\ \A k \in T : d <= k
    <2> HIDE DEF T
    <2>1. QED
      BY <1>3, MinIs
  <1>5. d \in E /\ e < d /\ d \in 0 .. n /\ \A k \in E : k > e => d <= k
    BY <1>1, <1>4
  <1> HIDE DEF d
  <1>6. \A k \in E : ~(e < k /\ k < d)
    BY <1>1, <1>2, <1>5
  <1>7. U \in SUBSET (0 .. n) /\ e \in U
    <2>1. e = 0 \/ e \in E
      OBVIOUS
    <2>2. QED
      BY <1>1, <1>2, <1>5, <2>1
  <1>8. \A k \in U : k <= e
    BY <1>1, <1>2, <1>6
  <1>9. Max(U) = e
    <2> HIDE DEF U
    <2>1. Max(U) \in U /\ \A k \in U : k <= Max(U)
      BY <1>7, MaxIs
    <2>2. Max(U) <= e /\ e <= Max(U) /\ Max(U) \in 0 .. n
      BY <1>7, <1>8, <2>1
    <2>3. QED
      BY <1>2, <2>2
  <1>10. StartOf(text, d) = e + 1
    BY <1>9 DEF StartOf
  <1>11. QED
    BY <1>1, <1>5, <1>6, <1>10

\* The sentences after an end are the text after it.
LEMMA SentencesAfter ==
    ASSUME NEW text \in Text
    PROVE  /\ Sentences(text) \in Seq(Text) /\ Len(Sentences(text)) = Cardinality(InkedEnds(text))
           /\ \A e \in EndsOf(text) \cup {0} :
                Ink(FlattenSeq(SubSeq(Sentences(text), Rank(InkedEnds(text), e) + 1,
                                      Len(Sentences(text)))))
                  = Ink(SubSeq(text, e + 1, Len(text)))
  <1> DEFINE n == Len(text)
             I == InkedEnds(text)
             N == Cardinality(I)
             s == Sentences(text)
             After(e) == Ink(FlattenSeq(SubSeq(s, Rank(I, e) + 1, N))) = Ink(SubSeq(text, e + 1, n))
             Bad == {n - e : e \in {x \in EndsOf(text) \cup {0} : ~After(x)}}
  <1>1. n \in Nat /\ n = Len(text) /\ text \in Seq(Sign)
    BY TextIs
  <1> HIDE DEF n
  <1>2. /\ EndsOf(text) \in SUBSET (0 .. n) /\ n \in EndsOf(text) /\ I \in SUBSET (1 .. n)
        /\ \A e \in EndsOf(text) : PartOf(text, e) \in Text
        /\ I \subseteq EndsOf(text)
    BY <1>1, EndsAre DEF InkedEnds
  <1>3. /\ N \in Nat /\ Rank(I, 0) = 0 /\ Rank(I, n) = N
        /\ \A e \in 0 .. n : Rank(I, e) \in 0 .. N
        /\ \A d \in 0 .. n, e \in I : d < e => Rank(I, d) < Rank(I, e)
    BY <1>1, <1>2, RankIs
  <1>4. \A i \in 1 .. N : NthEnd(text, i) \in I /\ Rank(I, NthEnd(text, i)) = i
    BY NthEndIs
  <1>5. s = [i \in 1 .. N |-> PartOf(text, NthEnd(text, i))]
    BY SentencesAre
  <1>6. s \in Seq(Text) /\ Len(s) = N /\ \A i \in 1 .. N : s[i] = PartOf(text, NthEnd(text, i))
    <2>1. \A i \in 1 .. N : PartOf(text, NthEnd(text, i)) \in Text
      BY <1>2, <1>4
    <2> HIDE DEF s, N
    <2>2. QED
      BY <1>3, <1>5, <2>1
  <1> HIDE DEF I, N, s
  <1>7. ASSUME NEW e \in I
        PROVE  Rank(I, e) \in 1 .. N /\ s[Rank(I, e)] = PartOf(text, e)
    <2>1. e \in 1 .. n /\ 0 < e /\ 0 \in 0 .. n /\ e \in 0 .. n
      BY <1>1, <1>2
    <2>2. Rank(I, 0) < Rank(I, e) /\ Rank(I, e) \in 0 .. N
      BY <1>3, <2>1
    <2>3. Rank(I, e) \in 1 .. N
      BY <1>3, <2>2
    <2> DEFINE d == NthEnd(text, Rank(I, e))
    <2>4. d \in I /\ Rank(I, d) = Rank(I, e)
      BY <1>4, <2>3
    <2> HIDE DEF d
    <2>5. d \in 0 .. n /\ ~(Rank(I, d) < Rank(I, e)) /\ ~(Rank(I, e) < Rank(I, d))
      BY <1>2, <1>3, <2>1, <2>2, <2>4
    <2>6. ~(d < e) /\ ~(e < d)
      BY <1>3, <2>1, <2>4, <2>5
    <2>7. d = e
      BY <2>1, <2>5, <2>6
    <2>8. s[Rank(I, e)] = PartOf(text, d)
      BY <1>6, <2>3 DEF d
    <2>9. QED
      BY <2>3, <2>7, <2>8
  <1>8. ASSUME NEW x \in Bad, \A y \in Bad : x <= y
        PROVE  FALSE
    <2>1. PICK e \in EndsOf(text) \cup {0} : x = n - e /\ ~After(e)
      OBVIOUS
    <2>2. e \in 0 .. n
      BY <1>1, <1>2
    <2>3. e # n
      <3>1. SubSeq(s, N + 1, N) = <<>> /\ SubSeq(text, n + 1, n) = <<>>
        BY <1>1, <1>6, Cuts
      <3>2. Rank(I, n) = N /\ FlattenSeq(<<>>) = <<>>
        BY <1>3, <1>6, FlattenAppend
      <3>3. After(n)
        BY <3>1, <3>2
      <3> HIDE DEF After
      <3>4. QED
        BY <2>1, <3>3
    <2>4. PICK d \in EndsOf(text) :
             /\ e < d /\ d <= n /\ StartOf(text, d) = e + 1
             /\ \A k \in EndsOf(text) : ~(e < k /\ k < d)
      BY <1>1, <2>3, NextEnd
    <2>5. d \in 1 .. n /\ d \in 0 .. n
      BY <1>2, <2>2, <2>4
    <2>6. After(d)
      <3>1. n - d \notin Bad
        <4>1. ~(x <= n - d)
          BY <1>1, <2>1, <2>2, <2>4, <2>5
        <4> HIDE DEF Bad
        <4>2. QED
          BY <1>8, <4>1, Zenon
      <3> HIDE DEF After
      <3>2. QED
        BY <3>1
    <2> DEFINE i == Rank(I, e)
               j == Rank(I, d)
               u == SubSeq(s, j + 1, N)
               v == SubSeq(text, d + 1, n)
               part == PartOf(text, d)
    <2>7. j = IF d \in I THEN i + 1 ELSE i
      <3>1. \A k \in I : ~(e < k /\ k < d)
        BY <1>2, <2>4
      <3>2. QED
        BY <1>1, <1>2, <2>2, <2>4, <2>5, <3>1, RankStep
    <2>8. i \in 0 .. N /\ j \in 0 .. N
      BY <1>3, <2>2, <2>5
    <2>9. part = SubSeq(text, e + 1, d) /\ part \in Text
      BY <1>2, <2>4 DEF PartOf
    <2>10. SubSeq(text, e + 1, n) = part \o v /\ v \in Text
      <3>1. /\ SubSeq(text, e + 1, n) = SubSeq(text, e + 1, d) \o SubSeq(text, d + 1, n)
            /\ SubSeq(text, d + 1, n) \in Seq(Sign)
        <4>1. e <= d /\ n \in 0 .. n
          BY <1>1, <2>2, <2>4, <2>5
        <4>2. QED
          BY <1>1, <2>2, <2>5, <4>1, Cuts
      <3>2. QED
        BY <2>9, <3>1, TextIs
    <2>11. u \in Seq(Text) /\ FlattenSeq(u) \in Text
      <3>1. j \in 0 .. Len(s) /\ N \in 0 .. Len(s)
        BY <1>3, <1>6, <2>8
      <3>2. u \in Seq(Text)
        BY <1>6, <3>1, Cuts
      <3> HIDE DEF u
      <3>3. QED
        BY <3>2, FlattenAppend, TextIs
    <2>12. Ink(FlattenSeq(u)) = Ink(v)
      BY <2>6
    <2>13. Ink(part \o v) = Ink(part) \o Ink(v)
      <3> HIDE DEF part, v
      <3>1. QED
        BY <2>9, <2>10, InkConcat
    <2> HIDE DEF i, j, part, v
    <2>14. CASE d \in I
      <3>1. j = i + 1 /\ j \in 1 .. N /\ s[j] = part
        BY <1>7, <2>7, <2>14 DEF part, j
      <3>2. SubSeq(s, i + 1, N) = SubSeq(s, i + 1, j) \o SubSeq(s, j + 1, N)
        <4>1. i <= j /\ i \in 0 .. Len(s) /\ j \in 0 .. Len(s)
          BY <1>3, <1>6, <2>8, <3>1
        <4>2. QED
          BY <1>6, <4>1, Cuts
      <3>3. SubSeq(s, j, j) = <<s[j]>>
        BY <1>6, <3>1, SubSeqOne
      <3>4. SubSeq(s, i + 1, N) = <<part>> \o u
        BY <3>1, <3>2, <3>3
      <3> HIDE DEF u
      <3>5. <<part>> \in Seq(Text) /\ FlattenSeq(<<part>>) = part
        <4>1. part \in Text
          BY <2>9
        <4>2. FlattenSeq(<<part>>) = part
          BY <4>1, FlattenOne
        <4>3. <<part>> \in Seq(Text)
          BY <4>1
        <4>4. QED
          BY <4>2, <4>3
      <3>6. FlattenSeq(<<part>> \o u) = part \o FlattenSeq(u)
        BY <2>11, <3>5, FlattenConcat
      <3>7. Ink(part \o FlattenSeq(u)) = Ink(part) \o Ink(FlattenSeq(u))
        BY <2>9, <2>11, InkConcat
      <3>8. Ink(FlattenSeq(SubSeq(s, i + 1, N))) = Ink(SubSeq(text, e + 1, n))
        BY <2>10, <2>12, <2>13, <3>4, <3>6, <3>7, Zenon
      <3>9. QED
        BY <2>1, <3>8 DEF i
    <2>15. CASE d \notin I
      <3>1. j = i
        BY <2>7, <2>15
      <3>2. CharsOf(part) \in Nat /\ ~(CharsOf(part) > 0)
        BY <2>9, <2>15, TokensIs DEF I, InkedEnds, part
      <3>3. Ink(part) = <<>>
        BY <2>9, <3>2, BlankIs
      <3>4. Ink(v) \in Seq(Char)
        BY <2>10, InkIs
      <3>5. <<>> \o Ink(v) = Ink(v)
        BY <3>4, ConcatEmptySeq
      <3>6. Ink(FlattenSeq(SubSeq(s, i + 1, N))) = Ink(SubSeq(text, e + 1, n))
        BY <2>10, <2>12, <2>13, <3>1, <3>3, <3>5, Zenon
      <3>7. QED
        BY <2>1, <3>6 DEF i
    <2>16. QED
      BY <2>14, <2>15
  <1>9. Bad = {}
    <2>1. Bad \in SUBSET Nat
      BY <1>1, <1>2
    <2> HIDE DEF Bad
    <2>2. QED
      BY <1>8, <2>1, Least
  <1>10. \A e \in EndsOf(text) \cup {0} : After(e)
    <2> HIDE DEF After
    <2>1. QED
      BY <1>9
  <1>11. QED
    BY <1>6, <1>10 DEF n, s, I, N

\* Texts put together and texts joined differ by newlines.
LEMMA FlattenHolds ==
    ASSUME NEW ts \in Seq(Text)
    PROVE  /\ FlattenSeq(ts) \in Text /\ Ink(Join(ts)) = Ink(FlattenSeq(ts))
           /\ CharsOf(FlattenSeq(ts)) <= TokensOf(ts)
  <1> DEFINE T == {u \in Seq(Text) : Ink(Join(u)) = Ink(FlattenSeq(u))}
  <1>1. ASSUME NEW u \in T, NEW t \in Text
        PROVE  Append(u, t) \in T
    <2>1. u \in Seq(Text) /\ Append(u, t) \in Seq(Text) /\ Ink(Join(u)) = Ink(FlattenSeq(u))
      OBVIOUS
    <2>2. /\ Join(u) \in Text /\ Join(Append(u, t)) = Joined(Join(u), t)
          /\ FlattenSeq(u) \in Text /\ FlattenSeq(Append(u, t)) = FlattenSeq(u) \o t
      BY <2>1, JoinAppend, FlattenAppend
    <2>3. Ink(Joined(Join(u), t)) = Ink(Join(u)) \o Ink(t)
      BY <2>2, JoinedChars
    <2>4. Ink(FlattenSeq(u) \o t) = Ink(FlattenSeq(u)) \o Ink(t)
      BY <2>2, InkConcat
    <2>5. Ink(Join(Append(u, t))) = Ink(FlattenSeq(Append(u, t)))
      BY <2>1, <2>2, <2>3, <2>4, Zenon
    <2>6. QED
      BY <2>1, <2>5
  <1>2. <<>> \in T
    <2>1. <<>> \in Text
      BY TextIs
    <2>2. Join(<<>>) = <<>> /\ FlattenSeq(<<>>) = <<>>
      BY <2>1, JoinAppend, FlattenAppend
    <2>3. QED
      BY <2>2
  <1>3. T \subseteq Seq(Text)
    OBVIOUS
  <1> HIDE DEF T
  <1>4. T = Seq(Text)
    <2>1. Grows(T, Text)
      BY <1>1, <1>2 DEF Grows
    <2>2. QED
      BY <1>3, <2>1, SeqInduct, Zenon
  <1>5. FlattenSeq(ts) \in Text /\ Join(ts) \in Text /\ Ink(Join(ts)) = Ink(FlattenSeq(ts))
    BY <1>4, TextIs, FlattenAppend, JoinAppend DEF T
  <1>6. CharsOf(Join(ts)) <= TokensOf(ts)
    BY JoinHolds
  <1>7. CharsOf(Join(ts)) = CharsOf(FlattenSeq(ts))
    BY <1>5, InkIs
  <1>8. QED
    BY <1>5, <1>6, <1>7

\* a is the end of b.
Ends(a, b) == \E u \in Seq(Char) : b = u \o a

\* The overlap is the end of the text it was taken from, and no longer than allowed.
LEMMA TailIs ==
    ASSUME NEW text \in Text
    PROVE  /\ TailWithin(text) \in Text /\ CharsOf(TailWithin(text)) <= Overlap
           /\ Ends(Ink(TailWithin(text)), Ink(text))
  <1> DEFINE n == Len(text)
             I == InkedEnds(text)
             s == Sentences(text)
             N == Len(s)
             F == {j \in 1 .. N : TokensOf(SubSeq(s, j, N)) <= Overlap} \cup {N + 1}
             first == Min(F)
             tail == SubSeq(s, first, N)
  <1>1. n \in Nat /\ n = Len(text) /\ text \in Seq(Sign)
    BY TextIs
  <1>2. s \in Seq(Text) /\ N \in Nat /\ N = Cardinality(I)
    BY SentencesAfter
  <1>3. TailWithin(text) = Strip(FlattenSeq(tail))
    BY Zenon DEF TailWithin
  <1> HIDE DEF n, I, s
  <1>4. first \in F
    <2>1. F \in SUBSET Nat /\ F # {}
      BY <1>2
    <2> HIDE DEF F
    <2>2. QED
      BY <2>1, MinIs
  <1> HIDE DEF first
  <1>5. first \in 1 .. N + 1 /\ first - 1 \in 0 .. N /\ first = (first - 1) + 1
    BY <1>2, <1>4
  <1>6. tail \in Seq(Text) /\ TokensOf(tail) \in Nat /\ TokensOf(tail) <= Overlap
    <2>1. CASE first = N + 1
      <3>1. tail = <<>>
        BY <1>2, <2>1, Cuts
      <3>2. TokensOf(<<>>) = 0 /\ <<>> \in Seq(Text)
        BY <1>2, TextIs, TokensOfAppend
      <3>3. QED
        BY <3>1, <3>2, ConstantsAssumption
    <2>2. CASE first # N + 1
      <3>1. TokensOf(tail) <= Overlap
        BY <1>4, <2>2
      <3>2. N \in 0 .. N
        BY <1>2
      <3>3. SubSeq(s, (first - 1) + 1, N) \in Seq(Text)
        BY <1>2, <1>5, <3>2, Cuts
      <3>4. tail \in Seq(Text)
        BY <1>5, <3>3
      <3> HIDE DEF tail
      <3>5. TokensOf(tail) \in Nat
        BY <3>4, TextIs, TokensOfAppend
      <3>6. QED
        BY <3>1, <3>4, <3>5
    <2>3. QED
      BY <2>1, <2>2
  <1> DEFINE flat == FlattenSeq(tail)
  <1>7. flat \in Text /\ CharsOf(flat) <= TokensOf(tail)
    <2> HIDE DEF tail
    <2>1. QED
      BY <1>6, FlattenHolds
  <1>8. PICK e \in EndsOf(text) \cup {0} : Rank(I, e) = first - 1
    <2>1. I \in SUBSET (1 .. n) /\ I \subseteq EndsOf(text)
      BY <1>1, EndsAre DEF I, InkedEnds
    <2>2. Rank(I, 0) = 0 /\ \A i \in 1 .. Cardinality(I) : \E e \in I : Rank(I, e) = i
      BY <1>1, <2>1, RankIs
    <2>3. CASE first - 1 = 0
      BY <2>2, <2>3
    <2>4. CASE first - 1 # 0
      <3>1. first - 1 \in 1 .. Cardinality(I)
        BY <1>2, <1>5, <2>4
      <3>2. QED
        BY <2>1, <2>2, <3>1
    <2>5. QED
      BY <2>3, <2>4
  <1> DEFINE head == SubSeq(text, 1, e)
             rest == SubSeq(text, e + 1, n)
  <1>9. Ink(flat) = Ink(rest)
    <2>1. Ink(FlattenSeq(SubSeq(s, Rank(I, e) + 1, N))) = Ink(rest)
      BY <1>1, SentencesAfter DEF s, I
    <2>2. Rank(I, e) + 1 = first
      BY <1>5, <1>8
    <2>3. QED
      BY <2>1, <2>2
  <1>10. text = head \o rest /\ head \in Text /\ rest \in Text
    <2>1. text \in Seq(Sign) /\ e \in 0 .. Len(text) /\ n = Len(text)
      BY <1>1, EndsAre
    <2>2. text = head \o rest /\ head \in Seq(Sign) /\ rest \in Seq(Sign)
      BY <2>1, CutOnce
    <2> HIDE DEF head, rest
    <2>3. QED
      BY <2>2, TextIs, Zenon
  <1> HIDE DEF head, rest, flat, tail
  <1>11. Ink(text) = Ink(head) \o Ink(rest) /\ Ink(head) \in Seq(Char)
    BY <1>10, InkConcat, InkIs
  <1>12. Strip(flat) \in Text /\ Ink(Strip(flat)) = Ink(flat)
    BY <1>7, StripIs
  <1>13. CharsOf(Strip(flat)) = CharsOf(flat) /\ CharsOf(flat) \in Nat
    BY <1>7, <1>12, InkIs, TokensIs
  <1>14. CharsOf(Strip(flat)) <= Overlap
    BY <1>6, <1>7, <1>13, ConstantsAssumption
  <1>15. TailWithin(text) = Strip(flat)
    BY <1>3 DEF flat
  <1>16. Ends(Ink(TailWithin(text)), Ink(text))
    BY <1>9, <1>11, <1>12, <1>15, Zenon DEF Ends
  <1>17. QED
    BY <1>12, <1>14, <1>15, <1>16

(***************************************************************************)
(* The sizes of the chunks                                                 *)
(***************************************************************************)

\* The drafts that keep to the sizes.
Drafts ==
    {d \in [type : {"text", "table"}, path : Seq(1 .. MaxBlocks), overlap : Text,
            prefix : Seq(Char), body : Text, tokens : Nat] : DraftOK(d)}

\* The pieces fit a chunk, and so does what is pending: TypeOK bounds the drafts but not
\* what they will be made of.  A warning names a block that is cut, and only such.
SizeInv ==
    /\ VectorsInv
    /\ pc \in {"finalize", "chunk", "embed", "done", "failed"}
    /\ warnings = CutAt(doc)
    /\ pieces \in Seq(Piece(Ones))
    /\ pending \in Seq(Piece(Ones)) /\ TokensOf(pending) <= Target
    /\ headings \in Seq(Nat \X (1 .. MaxBlocks))
    /\ prefix \in Seq(Char) /\ overlap \in Text /\ CharsOf(overlap) <= Overlap
    /\ drafts \in Seq(Drafts)

LEMMA PieceIs == Piece(Ones) \subseteq Text \ {<<>>} /\ Piece(Ones) \subseteq Seq(Char)
  <1>1. Ones \subseteq Char
    BY DEF Ones
  <1>2. Seq(Ones) \subseteq Seq(Char)
    BY <1>1, SeqMonotonic
  <1>3. QED
    BY <1>2, TextIs DEF Piece

LEMMA BlockIsAt ==
    ASSUME RawOK, NEW block \in Blocks
    PROVE  /\ block.id \in 1 .. MaxBlocks /\ block.level \in Nat
           /\ block.type = "text" => block.text \in Seq(Ones)
  <1>1. PICK b \in Inked : block = Shown(b)
    BY DEF Blocks
  <1>2. /\ block.id = b /\ block.type = raw[b].type /\ block.level = raw[b].level
        /\ block.text \in Seq(CharOf(b))
    BY <1>1, BlockIs
  <1>3. b \in 1 .. MaxBlocks /\ raw[b] \in RawBlock
    BY ConstantsAssumption DEF Inked, RawOK
  <1>4. raw[b].level \in Nat
    BY <1>3 DEF RawBlock
  <1>5. ASSUME block.type = "text"
        PROVE  block.text \in Seq(Ones)
    <2>1. CharOf(b) \subseteq Ones
      BY <1>2, <1>5 DEF CharOf, Ones
    <2>2. QED
      BY <1>2, <2>1, SeqMonotonic
  <1>6. QED
    BY <1>2, <1>3, <1>4, <1>5

\* The headings of a chunk.
Path == [i \in DOMAIN headings |-> headings[i][2]]

LEMMA PathIs ==
    ASSUME headings \in Seq(Nat \X (1 .. MaxBlocks))
    PROVE  Path \in Seq(1 .. MaxBlocks)
  <1>1. Len(headings) \in Nat /\ DOMAIN headings = 1 .. Len(headings)
    OBVIOUS
  <1>2. \A i \in DOMAIN headings : headings[i][2] \in 1 .. MaxBlocks
    OBVIOUS
  <1>3. QED
    BY <1>1, <1>2 DEF Path

\* A text with characters counts some.
LEMMA InkedChars ==
    ASSUME NEW t \in Text, Ink(t) # <<>>
    PROVE  CharsOf(t) \in Nat \ {0}
  <1>1. CharsOf(t) \in Nat
    BY TokensIs
  <1>2. QED
    BY <1>1, BlankIs

LEMMA JoinThree ==
    ASSUME NEW o \in Text, NEW p \in Text, NEW b \in Text
    PROVE  Join(<<o, p, b>>) = Joined(Joined(o, p), b) /\ Join(<<o, p, b>>) \in Text
  <1>1. /\ <<>> \in Seq(Text) /\ <<o>> \in Seq(Text) /\ <<o, p>> \in Seq(Text)
        /\ <<o, p, b>> \in Seq(Text)
    OBVIOUS
  <1>2. /\ <<o>> = Append(<<>>, o) /\ <<o, p>> = Append(<<o>>, p)
        /\ <<o, p, b>> = Append(<<o, p>>, b)
    OBVIOUS
  <1>3. Join(<<>>) = <<>> /\ Join(<<o>>) = Joined(<<>>, o)
    BY <1>1, <1>2, JoinAppend
  <1>4. Join(<<o, p>>) = Joined(Join(<<o>>), p)
    BY <1>1, <1>2, JoinAppend
  <1>5. Join(<<o, p, b>>) = Joined(Join(<<o, p>>), b) /\ Join(<<o, p, b>>) \in Text
    BY <1>1, <1>2, JoinAppend
  <1>6. Joined(<<>>, o) = o
    BY TextIs, ConcatEmptySeq DEF Joined
  <1>7. QED
    BY <1>3, <1>4, <1>5, <1>6

\* The chunk that flush makes of the pieces that wait.
TextDraft ==
    Draft("text", overlap, prefix, Join(pending), Tokens(Join(<<overlap, prefix, Join(pending)>>)))

\* Pieces put together are characters.
LEMMA PiecesFlat ==
    ASSUME NEW ps \in Seq(Piece(Ones))
    PROVE  FlattenSeq(ps) \in Seq(Char)
  <1> DEFINE T == {u \in Seq(Piece(Ones)) : FlattenSeq(u) \in Seq(Char)}
  <1>1. ASSUME NEW u \in T, NEW t \in Piece(Ones)
        PROVE  Append(u, t) \in T
    <2>1. /\ u \in Seq(Piece(Ones)) /\ FlattenSeq(u) \in Seq(Char)
          /\ Append(u, t) \in Seq(Piece(Ones))
      OBVIOUS
    <2>2. u \in Seq(Text) /\ t \in Text /\ t \in Seq(Char)
      BY <2>1, PieceIs, SeqMonotonic
    <2>3. FlattenSeq(Append(u, t)) = FlattenSeq(u) \o t
      BY <2>2, FlattenAppend
    <2>4. FlattenSeq(u) \o t \in Seq(Char)
      BY <2>1, <2>2
    <2>5. QED
      BY <2>1, <2>3, <2>4
  <1>2. <<>> \in T
    <2>1. FlattenSeq(<<>>) = <<>>
      BY EmptySeq, TextIs, FlattenAppend
    <2>2. <<>> \in Seq(Piece(Ones))
      BY EmptySeq
    <2>3. <<>> \in Seq(Char)
      BY EmptySeq
    <2>4. QED
      BY <2>1, <2>2, <2>3, Zenon
  <1>3. T \subseteq Seq(Piece(Ones))
    OBVIOUS
  <1> HIDE DEF T
  <1>4. Grows(T, Piece(Ones))
    BY <1>1, <1>2 DEF Grows
  <1>5. T = Seq(Piece(Ones))
    BY <1>3, <1>4, SeqInduct, Zenon
  <1>6. QED
    BY <1>5 DEF T

\* Pieces that are joined have a character for each newline, and one more.
LEMMA JoinBreaks ==
    ASSUME NEW ps \in Seq(Piece(Ones)), ps # <<>>
    PROVE  Newlines(Join(ps)) \in Nat /\ Newlines(Join(ps)) < CharsOf(Join(ps))
  <1> DEFINE OK(j) == j # <<>> /\ Newlines(j) < CharsOf(j)
             T == {u \in Seq(Piece(Ones)) : u = <<>> \/ OK(Join(u))}
  <1>0. NL \in Sign /\ <<NL>> \in Text
    BY DEF Sign, Text
  <1>1. ASSUME NEW u \in T, NEW t \in Piece(Ones)
        PROVE  Append(u, t) \in T
    <2>1. u \in Seq(Piece(Ones)) /\ (u = <<>> \/ OK(Join(u))) /\ Append(u, t) \in Seq(Piece(Ones))
      OBVIOUS
    <2>2. u \in Seq(Text) /\ t \in Text /\ t \in Seq(Char) /\ t # <<>>
      BY <2>1, PieceIs, SeqMonotonic
    <2>3. Join(Append(u, t)) = Joined(Join(u), t) /\ Join(u) \in Text /\ Join(<<>>) = <<>>
      BY <2>2, JoinAppend
    <2>4. Newlines(t) = 0 /\ CharsOf(t) \in Nat \ {0}
      BY <2>2, Unbroken, InkIs, InkedChars
    <2> DEFINE j == Join(u)
    <2>5. CharsOf(Joined(j, t)) = CharsOf(j) + CharsOf(t) /\ CharsOf(j) \in Nat /\ Newlines(j) \in Nat
      BY <1>0, <2>2, <2>3, JoinedChars, TokensIs, NewlinesAppend
    <2>6. CASE u = <<>>
      <3>1. Joined(<<>>, t) = t
        BY <2>2, ConcatEmptySeq DEF Joined
      <3>2. QED
        BY <2>1, <2>2, <2>3, <2>4, <2>6, <3>1
    <2>7. CASE u # <<>>
      <3>1. j # <<>> /\ Newlines(j) < CharsOf(j)
        BY <2>1, <2>7
      <3> HIDE DEF j
      <3>2. Joined(j, t) = (j \o <<NL>>) \o t
        BY <2>2, <3>1 DEF Joined
      <3>3. j \in Text /\ j \o <<NL>> \in Text
        BY <1>0, <2>3, CatType DEF j
      <3>4. Newlines(j \o <<NL>>) = Newlines(j) + 1
        BY <1>0, <3>3, NewlinesConcat, NewlinesOfOne
      <3>5. Newlines(Joined(j, t)) = Newlines(j) + 1
        BY <2>2, <2>4, <2>5, <3>2, <3>3, <3>4, NewlinesConcat
      <3>6. Newlines(Joined(j, t)) < CharsOf(Joined(j, t))
        BY <2>4, <2>5, <3>1, <3>5
      <3>7. Joined(j, t) # <<>>
        BY <2>5, <3>5, <3>6, CharsOfOne, <1>0
      <3>8. QED
        BY <2>1, <2>3, <3>6, <3>7 DEF j
    <2>8. QED
      BY <2>6, <2>7
  <1>2. <<>> \in T
    OBVIOUS
  <1>3. T \subseteq Seq(Piece(Ones))
    OBVIOUS
  <1> HIDE DEF T
  <1>4. Grows(T, Piece(Ones))
    BY <1>1, <1>2 DEF Grows
  <1>5. T = Seq(Piece(Ones))
    BY <1>3, <1>4, SeqInduct, Zenon
  <1>6. ps \in Seq(Text)
    BY PieceIs, SeqMonotonic
  <1>7. Newlines(Join(ps)) \in Nat
    BY <1>0, <1>6, JoinAppend, TextIs, NewlinesAppend
  <1>8. QED
    BY <1>5, <1>7 DEF T

LEMMA JoinedBody ==
    ASSUME pending \in Seq(Piece(Ones)), TokensOf(pending) <= Target
    PROVE  /\ Join(pending) \in Text /\ CharsOf(Join(pending)) <= Target
           /\ Ink(Join(pending)) = FlattenSeq(pending)
           /\ pending # <<>> => Ink(Join(pending)) # <<>>
           /\ pending # <<>> => Tokens(Join(pending)) <= Limit
  <1>1. pending \in Seq(Text)
    BY PieceIs, SeqMonotonic
  <1>2. Join(pending) \in Text /\ TokensOf(pending) \in Nat /\ CharsOf(Join(pending)) <= TokensOf(pending)
    BY <1>1, JoinHolds
  <1>3. CharsOf(Join(pending)) <= Target
    BY <1>2, TokensIs, ConstantsAssumption
  <1>4. Ink(Join(pending)) = Ink(FlattenSeq(pending)) /\ FlattenSeq(pending) \in Text
    BY <1>1, FlattenHolds
  <1>5. FlattenSeq(pending) \in Seq(Char)
    BY PiecesFlat
  <1>6. Ink(Join(pending)) = FlattenSeq(pending)
    BY <1>4, <1>5, InkIs
  <1>7. ASSUME pending # <<>>
        PROVE  FlattenSeq(pending) # <<>>
    <2> DEFINE n == Len(pending)
               u == SubSeq(pending, 1, n - 1)
               t == pending[n]
    <2>1. n \in Nat /\ n # 0
      BY <1>1, <1>7
    <2>2. n \in 1 .. n /\ n - 1 \in 0 .. n
      BY <2>1
    <2>3. t \in Piece(Ones) /\ u \in Seq(Piece(Ones)) /\ pending = Append(u, t)
      BY <2>2, UptoIs DEF Upto
    <2> HIDE DEF u, t
    <2>4. u \in Seq(Text) /\ t \in Text /\ t # <<>> /\ t \in Seq(Sign)
      BY <2>3, PieceIs, SeqMonotonic, TextIs
    <2>5. FlattenSeq(pending) = FlattenSeq(u) \o t /\ FlattenSeq(u) \in Seq(Sign)
      BY <2>3, <2>4, FlattenAppend, TextIs
    <2>6. QED
      BY <2>4, <2>5, ConcatEqualIffEmpty
  <1>8. ASSUME pending # <<>>
        PROVE  Tokens(Join(pending)) <= Limit
    <2> DEFINE c == CharsOf(Join(pending))
               n == Newlines(Join(pending))
    <2>1. n \in Nat /\ n < c
      BY <1>8, JoinBreaks
    <2>2. c \in Nat /\ c <= Target /\ Target \in Nat
      BY <1>2, <1>3, TokensIs, ConstantsAssumption
    <2>3. Tokens(Join(pending)) = c + (n + 3) \div 4
      BY DEF Tokens
    <2> HIDE DEF c, n
    <2> DEFINE a == (n + 3) \div 4
               b == (Target + 2) \div 4
    <2>4. a <= b /\ a \in Int /\ b \in Int
      BY <2>1, <2>2
    <2>5. Tokens(Join(pending)) = c + a
      BY <2>3
    <2> HIDE DEF a
    <2>6. Tokens(Join(pending)) <= Target + b
      <3> HIDE DEF b
      <3>1. QED
        BY <2>2, <2>4, <2>5
    <2>7. QED
      BY <2>6 DEF Limit
  <1>9. QED
    BY <1>2, <1>3, <1>6, <1>7, <1>8

LEMMA TextDraftIs ==
    ASSUME SizeInv, pending # <<>>
    PROVE  TextDraft \in Drafts
  <1> DEFINE b == Join(pending)
             all == Join(<<overlap, prefix, b>>)
  <1>1. /\ headings \in Seq(Nat \X (1 .. MaxBlocks)) /\ prefix \in Seq(Char)
        /\ overlap \in Text /\ CharsOf(overlap) <= Overlap
        /\ b \in Text /\ Tokens(b) <= Limit /\ Ink(b) # <<>>
    BY JoinedBody DEF SizeInv
  <1>2. Path \in Seq(1 .. MaxBlocks)
    BY <1>1, PathIs
  <1> HIDE DEF b
  <1>3. all = Joined(Joined(overlap, prefix), b) /\ all \in Text /\ Joined(overlap, prefix) \in Text
    <2>1. prefix \in Text
      BY <1>1, TextIs
    <2>2. QED
      BY <1>1, <2>1, JoinThree, JoinType
  <1> HIDE DEF all
  <1>4. CharsOf(all) = CharsOf(Joined(overlap, prefix)) + CharsOf(b)
    BY <1>1, <1>3, JoinedChars
  <1>5. CharsOf(Joined(overlap, prefix)) \in Nat /\ CharsOf(b) \in Nat \ {0}
    BY <1>1, <1>3, TokensIs, InkedChars
  <1>6. Tokens(all) \in Nat /\ CharsOf(all) <= Tokens(all) /\ CharsOf(all) \in Nat
    BY <1>3, TokensIs
  <1>7. Tokens(all) \in Nat \ {0}
    BY <1>4, <1>5, <1>6
  <1>8. TextDraft = [type |-> "text", path |-> Path, overlap |-> overlap, prefix |-> prefix,
                     body |-> b, tokens |-> Tokens(all)]
    BY DEF TextDraft, Draft, Path, b, all
  <1>9. QED
    BY <1>1, <1>2, <1>7, <1>8 DEF Drafts, DraftOK

LEMMA FlushSizes ==
    ASSUME SizeInv
    PROVE  /\ FlushedDrafts \in Seq(Drafts) /\ FlushedPrefix \in Seq(Char)
           /\ FlushedOverlap \in Text /\ CharsOf(FlushedOverlap) <= Overlap
  <1>1. CASE pending = <<>>
    BY <1>1 DEF FlushedDrafts, FlushedPrefix, FlushedOverlap, SizeInv
  <1>2. CASE pending # <<>>
    <2>1. FlushedDrafts = Append(drafts, TextDraft)
      BY <1>2 DEF FlushedDrafts, TextDraft
    <2>2. drafts \in Seq(Drafts)
      BY DEF SizeInv
    <2>3. FlushedDrafts \in Seq(Drafts)
      BY <1>2, <2>1, <2>2, TextDraftIs, AppendProperties
    <2>4. Join(pending) \in Text
      BY JoinedBody DEF SizeInv
    <2>5. FlushedOverlap = TailWithin(Join(pending)) /\ FlushedPrefix = <<>>
      BY <1>2 DEF FlushedOverlap, FlushedPrefix
    <2>6. QED
      BY <2>3, <2>4, <2>5, TailIs
  <1>3. QED
    BY <1>1, <1>2

\* The lines of a table: its cells, the header before each and a newline after it.
LEMMA LinesCount ==
    ASSUME NEW h \in Char, NEW rows \in Seq(Char)
    PROVE  LinesTokens(h, rows) = CharsOf(rows) + Len(rows) * h.chars + Len(rows)
  <1> DEFINE T == {g \in Seq(Char) : LinesTokens(h, g) = CharsOf(g) + Len(g) * h.chars + Len(g)}
  <1>1. h.chars \in Nat
    BY DEF Char
  <1>2. <<>> \in T
    <2>1. NL \in Sign
      BY DEF Sign
    <2>2. CharsOf(<<>>) = 0 /\ LinesTokens(h, <<>>) = 0
      <3>1. [k \in DOMAIN <<>> |-> LineTokens(h, <<>>[k])] = <<>>
        OBVIOUS
      <3>2. LinesTokens(h, <<>>) = SumOf(<<>>)
        BY <3>1 DEF LinesTokens
      <3>3. SumOf(<<>>) = 0
        <4>1. <<>> \in Seq(Text) /\ <<>> \in Text
          BY TextIs
        <4>2. TokensOf(<<>>) = 0
          BY <4>1, TokensOfAppend
        <4>3. [k \in DOMAIN <<>> |-> Tokens(<<>>[k])] = <<>>
          OBVIOUS
        <4>4. QED
          BY <4>2, <4>3 DEF TokensOf
      <3>4. QED
        BY <2>1, <3>2, <3>3, CharsOfOne
    <2>3. QED
      BY <1>1, <2>2
  <1>3. ASSUME NEW g \in T, NEW row \in Char
        PROVE  Append(g, row) \in T
    <2>1. /\ g \in Seq(Char) /\ LinesTokens(h, g) = CharsOf(g) + Len(g) * h.chars + Len(g)
          /\ Append(g, row) \in Seq(Char) /\ Len(Append(g, row)) = Len(g) + 1 /\ Len(g) \in Nat
      OBVIOUS
    <2>2. LinesTokens(h, Append(g, row)) = LinesTokens(h, g) + LineTokens(h, row)
      BY <2>1, LinesAppend
    <2>3. /\ CharsOf(Append(g, row)) = CharsOf(g) + row.chars /\ CharsOf(g) \in Nat
          /\ row.chars \in Nat
      BY <2>1, TextIs, CharsAppend DEF Sign
    <2>4. LineTokens(h, row) = h.chars + row.chars + 1
      BY DEF LineTokens
    <2> DEFINE n == Len(g)
               k == h.chars
               x == n * k
               r == row.chars
               c == CharsOf(g)
    <2>5. n \in Nat /\ k \in Nat /\ r \in Nat /\ c \in Nat
      BY <1>1, <2>1, <2>3
    <2>6. x \in Nat /\ (n + 1) * k = x + k
      <3>1. \A i, j \in Nat : i * j \in Nat /\ (i + 1) * j = i * j + j
        OBVIOUS
      <3> HIDE DEF n, k
      <3>2. QED
        BY <2>5, <3>1
    <2>7. LinesTokens(h, Append(g, row)) = c + x + n + (k + r + 1)
      BY <2>1, <2>2, <2>4
    <2>8. CharsOf(Append(g, row)) + Len(Append(g, row)) * h.chars + Len(Append(g, row))
            = (c + r) + (n + 1) * k + (n + 1)
      BY <2>1, <2>3
    <2> HIDE DEF n, k, x, r, c
    <2>9. c + x + n + (k + r + 1) = (c + r) + (x + k) + (n + 1)
      BY <2>5, <2>6
    <2>10. LinesTokens(h, Append(g, row))
             = CharsOf(Append(g, row)) + Len(Append(g, row)) * h.chars + Len(Append(g, row))
      BY <2>6, <2>7, <2>8, <2>9
    <2>11. QED
      BY <2>1, <2>10
  <1>4. T \subseteq Seq(Char)
    OBVIOUS
  <1> HIDE DEF T
  <1>5. T = Seq(Char)
    <2>1. Grows(T, Char)
      BY <1>2, <1>3 DEF Grows
    <2>2. QED
      BY <1>4, <2>1, SeqInduct, Zenon
  <1>6. QED
    BY <1>5 DEF T

\* A group of rows counts some tokens.
LEMMA TableTokensIs ==
    ASSUME NEW rows \in Seq(Char), rows # <<>>, NEW group \in Group(rows[1])
    PROVE  /\ TableTokens(rows, group) \in Nat \ {0}
           /\ group \in Seq(Char) /\ group # <<>> /\ Ink(group) = group
           /\ TableTokens(rows, group) <= Target \/ Len(group) = 1
  <1>1. rows[1] \in Char /\ Len(rows) \in Nat /\ rows[1].chars \in Nat \ {0}
    <2>1. rows[1] \in Char /\ Len(rows) \in Nat
      OBVIOUS
    <2>2. QED
      BY <2>1 DEF Char
  <1>2. group \in Seq(Char) /\ group # <<>> /\ (Len(group) = 1 \/ LinesTokens(rows[1], group) <= Target)
    BY DEF Group
  <1>3. group \in Text /\ Ink(group) = group /\ Len(group) \in Nat /\ Len(group) # 0
    BY <1>2, TextIs, InkIs
  <1>4. CharsOf(group) \in Nat \ {0}
    BY <1>2, <1>3, InkedChars
  <1>5. TableTokens(rows, group) <= Target \/ Len(group) = 1
    <2> DEFINE m == Len(group)
               h == rows[1].chars
               c == CharsOf(group)
               x == m * h
    <2>1. LinesTokens(rows[1], group) = c + x + m
      BY <1>1, <1>2, LinesCount
    <2>2. TableTokens(rows, group) = IF Len(rows) = 1 THEN h ELSE c + x + (3 * m - 1 + 3) \div 4
      BY DEF TableTokens
    <2>3. m \in Nat \ {0} /\ h \in Nat \ {0} /\ c \in Nat \ {0} /\ x \in Nat
      BY <1>1, <1>3, <1>4
    <2>4. h <= x
      <3>1. m - 1 \in Nat /\ h \in Nat
        BY <2>3
      <3>2. (m - 1) * h \in Nat /\ x = (m - 1) * h + h
        BY <3>1, <2>3
      <3>3. QED
        BY <3>1, <3>2
    <2> HIDE DEF m, h, c, x
    <2>5. (3 * m - 1 + 3) \div 4 <= m
      BY <2>3
    <2>6. TableTokens(rows, group) <= LinesTokens(rows[1], group) /\ TableTokens(rows, group) \in Nat
      BY <2>1, <2>2, <2>3, <2>4, <2>5
    <2>7. LinesTokens(rows[1], group) \in Nat
      BY <2>1, <2>3
    <2>8. QED
      BY <1>2, <2>6, <2>7, ConstantsAssumption
  <1>6. TableTokens(rows, group) \in Nat \ {0}
    <2> DEFINE m == Len(group)
               h == rows[1].chars
               c == CharsOf(group)
    <2>1. m \in Nat /\ h \in Nat /\ c \in Nat \ {0}
      BY <1>1, <1>3, <1>4
    <2>2. TableTokens(rows, group) = IF Len(rows) = 1 THEN h ELSE c + m * h + (3 * m - 1 + 3) \div 4
      BY DEF TableTokens
    <2> HIDE DEF m, h, c
    <2>3. m * h \in Nat /\ (3 * m - 1 + 3) \div 4 \in Nat
      <3>1. 3 * m - 1 + 3 \in Nat
        BY <2>1
      <3>2. QED
        BY <2>1, <3>1
    <2>4. c + m * h + (3 * m - 1 + 3) \div 4 \in Nat \ {0}
      <3> DEFINE x == m * h
                 y == (3 * m - 1 + 3) \div 4
      <3>1. x \in Nat /\ y \in Nat
        BY <2>3
      <3> HIDE DEF x, y
      <3>2. c + x + y \in Nat \ {0}
        BY <2>1, <3>1
      <3>3. QED
        BY <3>2 DEF x, y
    <2>5. h \in Nat \ {0}
      BY <1>1 DEF h
    <2>6. QED
      BY <2>2, <2>4, <2>5
  <1>7. QED
    BY <1>2, <1>3, <1>5, <1>6

\* The chunks of a table.
TableDrafts(rows) ==
    [i \in DOMAIN PackTable(rows) |->
        Draft("table", <<>>, <<>>, PackTable(rows)[i], TableTokens(rows, PackTable(rows)[i]))]

LEMMA TableDraftsAre ==
    ASSUME headings \in Seq(Nat \X (1 .. MaxBlocks)), NEW rows \in Seq(Char), rows # <<>>
    PROVE  /\ TableDrafts(rows) \in Seq(Drafts)
           /\ Len(TableDrafts(rows)) = Len(PackTable(rows))
           /\ \A i \in DOMAIN TableDrafts(rows) :
                TableDrafts(rows)[i] =
                  [type |-> "table", path |-> Path, overlap |-> <<>>, prefix |-> <<>>,
                   body |-> PackTable(rows)[i], tokens |-> TableTokens(rows, PackTable(rows)[i])]
  <1> DEFINE groups == PackTable(rows)
             d(i) == Draft("table", <<>>, <<>>, groups[i], TableTokens(rows, groups[i]))
  <1>1. groups \in Seq(Group(rows[1]))
    BY PackTableType
  <1>2. Path \in Seq(1 .. MaxBlocks)
    BY PathIs
  <1> HIDE DEF groups
  <1>3. CharsOf(<<>>) = 0 /\ <<>> \in Text /\ <<>> \in Seq(Char)
    <2>1. NL \in Sign
      BY DEF Sign
    <2>2. CharsOf(<<>>) = 0
      BY <2>1, CharsOfOne
    <2>3. <<>> \in Seq(Char)
      BY EmptySeq
    <2>4. QED
      BY <2>2, <2>3, TextIs
  <1>4. ASSUME NEW i \in DOMAIN groups
        PROVE  /\ d(i) \in Drafts
               /\ d(i) = [type |-> "table", path |-> Path, overlap |-> <<>>, prefix |-> <<>>,
                          body |-> groups[i], tokens |-> TableTokens(rows, groups[i])]
    <2>1. groups[i] \in Group(rows[1])
      BY <1>1
    <2> DEFINE g == groups[i]
               m == TableTokens(rows, g)
    <2>2. /\ m \in Nat \ {0} /\ g \in Seq(Char) /\ g # <<>> /\ Ink(g) = g
          /\ m <= Limit \/ Len(g) = 1
      <3>1. /\ m \in Nat \ {0} /\ g \in Seq(Char) /\ g # <<>> /\ Ink(g) = g
            /\ m <= Target \/ Len(g) = 1
        BY <2>1, TableTokensIs
      <3> HIDE DEF g, m
      <3>2. Limit \in Nat /\ Target \in Nat /\ Target <= Limit
        BY ConstantsAssumption DEF Limit
      <3>3. QED
        BY <3>1, <3>2
    <2> HIDE DEF g, m
    <2>3. g \in Text /\ Ink(g) # <<>>
      BY <2>2, TextIs
    <2> DEFINE r == [type |-> "table", path |-> Path, overlap |-> <<>>, prefix |-> <<>>,
                     body |-> g, tokens |-> m]
    <2>4. d(i) = r
      BY DEF Draft, Path, g, m
    <2>r. r \in [type : {"text", "table"}, path : Seq(1 .. MaxBlocks), overlap : Text,
                  prefix : Seq(Char), body : Text, tokens : Nat]
      BY <1>2, <1>3, <2>2, <2>3
    <2>s. /\ r.type = "table" /\ r.path = Path /\ r.overlap = <<>> /\ r.prefix = <<>>
          /\ r.body = g /\ r.tokens = m
      OBVIOUS
    <2> HIDE DEF r
    <2>t. 0 <= Overlap
      BY ConstantsAssumption
    <2>u. DraftOK(r)
      BY <1>2, <1>3, <2>2, <2>3, <2>s, <2>t DEF DraftOK
    <2>5. r \in Drafts
      BY <2>r, <2>u DEF Drafts
    <2>6. QED
      BY <2>4, <2>5 DEF g, m, r
  <1>5. Len(groups) \in Nat /\ DOMAIN groups = 1 .. Len(groups)
    BY <1>1
  <1>6. TableDrafts(rows) = [i \in DOMAIN groups |-> d(i)]
    BY DEF TableDrafts, groups
  <1> HIDE DEF d
  <1>7. [i \in DOMAIN groups |-> d(i)] \in Seq(Drafts) /\ Len([i \in DOMAIN groups |-> d(i)]) = Len(groups)
    BY <1>4, <1>5
  <1>8. QED
    BY <1>4, <1>5, <1>6, <1>7 DEF groups

\* The headings that stay on the stack are the first ones.
LEMMA OuterIs ==
    ASSUME NEW S, headings \in Seq(S), NEW level
    PROVE  \E k \in 0 .. Len(headings) :
             /\ Outer(level) = SubSeq(headings, 1, k) /\ Outer(level) \in Seq(S)
             /\ k # 0 => headings[k][1] < level
             /\ \A i \in DOMAIN headings : headings[i][1] < level => i <= k
  <1> DEFINE T == {0} \cup {i \in DOMAIN headings : headings[i][1] < level}
             k == Max(T)
  <1>1. Len(headings) \in Nat /\ DOMAIN headings = 1 .. Len(headings)
    OBVIOUS
  <1>2. T \in SUBSET (0 .. Len(headings)) /\ 0 \in T
    BY <1>1
  <1>3. k \in T /\ \A y \in T : y <= k
    <2> HIDE DEF T
    <2>1. QED
      BY <1>1, <1>2, MaxIs
  <1>4. k \in 0 .. Len(headings)
    <2> HIDE DEF T, k
    <2>1. QED
      BY <1>2, <1>3
  <1>5. Outer(level) = SubSeq(headings, 1, k)
    BY Zenon DEF Outer
  <1>6. (k # 0 => headings[k][1] < level) /\ \A i \in DOMAIN headings : headings[i][1] < level => i <= k
    BY <1>3
  <1> HIDE DEF k
  <1>7. SubSeq(headings, 1, k) \in Seq(S)
    BY <1>4, UptoIs DEF Upto
  <1>8. QED
    BY <1>4, <1>5, <1>6, <1>7

LEMMA SizeInit == Init => SizeInv
  <1> SUFFICES ASSUME Init PROVE SizeInv
    OBVIOUS
  <1>1. VectorsInv
    BY VectorsInit
  <1>2. /\ pc = "finalize" /\ warnings = {} /\ doc = <<>> /\ pieces = <<>> /\ pending = <<>>
        /\ headings = <<>> /\ prefix = <<>> /\ overlap = <<>> /\ drafts = <<>>
    BY DEF Init
  <1>3. CutAt(<<>>) = {}
    BY DEF CutAt
  <1>4. CharsOf(<<>>) = 0 /\ TokensOf(<<>>) = 0 /\ <<>> \in Text
    <2>1. NL \in Sign /\ <<>> \in Text
      BY TextIs DEF Sign
    <2>2. <<>> \in Seq(Text)
      BY EmptySeq
    <2>3. TokensOf(<<>>) = 0
      BY <2>1, <2>2, TokensOfAppend
    <2>4. QED
      BY <2>1, <2>3, CharsOfOne
  <1>5. /\ <<>> \in Seq(Piece(Ones)) /\ <<>> \in Seq(Nat \X (1 .. MaxBlocks)) /\ <<>> \in Seq(Char)
        /\ <<>> \in Seq(Drafts)
    BY EmptySeq, Zenon
  <1>6. 0 <= Overlap /\ 0 <= Target
    BY ConstantsAssumption
  <1>7. QED
    BY <1>1, <1>2, <1>3, <1>4, <1>5, <1>6 DEF SizeInv

LEMMA SameCuts ==
    ASSUME UNCHANGED <<raw, doc>>
    PROVE  CutAt(doc)' = CutAt(doc)
  BY DEF CutAt, Normalized

LEMMA SizeStep == SizeInv /\ [Next]_vars => SizeInv'
  <1> SUFFICES ASSUME SizeInv, [Next]_vars PROVE SizeInv'
    OBVIOUS
  <1>0. /\ VectorsInv /\ VectorsInv' /\ RawOK /\ doc \in Seq(Blocks) /\ at \in 0 .. Len(doc)
        /\ pc \in {"finalize", "chunk", "embed", "done", "failed"}
        /\ warnings = CutAt(doc)
        /\ pieces \in Seq(Piece(Ones)) /\ pending \in Seq(Piece(Ones)) /\ TokensOf(pending) <= Target
        /\ headings \in Seq(Nat \X (1 .. MaxBlocks))
        /\ prefix \in Seq(Char) /\ overlap \in Text /\ CharsOf(overlap) <= Overlap
        /\ drafts \in Seq(Drafts)
    BY VectorsStep DEF SizeInv, VectorsInv
  <1>p. Piece(Ones)' = Piece(Ones) /\ Drafts' = Drafts
    OBVIOUS
  <1>e. /\ CharsOf(<<>>) = 0 /\ TokensOf(<<>>) = 0 /\ <<>> \in Text /\ <<>> \in Seq(Piece(Ones))
        /\ <<>> \in Seq(Char) /\ 0 <= Overlap /\ 0 <= Target
    <2>1. NL \in Sign /\ <<>> \in Text
      BY TextIs DEF Sign
    <2>2. <<>> \in Seq(Text) /\ <<>> \in Seq(Piece(Ones)) /\ <<>> \in Seq(Char)
      BY EmptySeq, Zenon
    <2>3. TokensOf(<<>>) = 0
      BY <2>1, <2>2, TokensOfAppend
    <2>4. CharsOf(<<>>) = 0
      BY <2>1, CharsOfOne
    <2>5. 0 <= Overlap /\ 0 <= Target
      BY ConstantsAssumption
    <2>6. QED
      BY <2>1, <2>2, <2>3, <2>4, <2>5
  <1>w. ASSUME UNCHANGED <<raw, doc, warnings>>
        PROVE  warnings' = CutAt(doc)'
    BY <1>0, <1>w, SameCuts
  <1>f. /\ FlushedDrafts \in Seq(Drafts) /\ FlushedPrefix \in Seq(Char)
        /\ FlushedOverlap \in Text /\ CharsOf(FlushedOverlap) <= Overlap
    BY FlushSizes
  <1>b. ASSUME NEW type, NextBlock(type)
        PROVE  /\ doc[at + 1] \in Blocks /\ doc[at + 1].type = type
               /\ doc[at + 1].text \in Seq(Char) /\ doc[at + 1].text # <<>>
               /\ doc[at + 1].id \in 1 .. MaxBlocks /\ doc[at + 1].level \in Nat
               /\ type = "text" => doc[at + 1].text \in Seq(Ones)
    <2>1. doc[at + 1] \in Blocks /\ doc[at + 1].type = type
      BY <1>0, <1>b DEF NextBlock
    <2>2. QED
      BY <1>0, <2>1, BlockText, BlockIsAt
  <1>1. CASE Finalize
    <2>1. Finalized.warnings = CutAt(Finalized.kept)
      BY <1>0, DocumentIs
    <2>2. CASE pc' = "chunk" /\ doc' = Finalized.kept /\ warnings' = Finalized.warnings
      <3>1. raw' = raw
        BY <1>1 DEF Finalize
      <3>2. CutAt(doc)' = CutAt(Finalized.kept)
        BY <2>2, <3>1 DEF CutAt, Normalized
      <3>3. UNCHANGED <<pieces, headings, pending, prefix, overlap, drafts>>
        BY <1>1 DEF Finalize, builder
      <3>4. QED
        BY <1>0, <2>1, <2>2, <3>2, <3>3 DEF SizeInv
    <2>3. CASE pc' = "failed" /\ UNCHANGED <<doc, warnings>>
      <3>1. UNCHANGED <<raw, pieces, headings, pending, prefix, overlap, drafts>>
        BY <1>1 DEF Finalize, builder
      <3>2. QED
        BY <1>0, <1>w, <2>3, <3>1 DEF SizeInv
    <2>4. QED
      BY <1>1, <2>2, <2>3, Zenon DEF Finalize, Finalized, NothingKept
  <1>2. CASE StartSection
    <2> DEFINE block == doc[at + 1]
    <2>1. /\ drafts' = FlushedDrafts /\ headings' = Append(Outer(block.level), <<block.level, block.id>>)
          /\ prefix' = block.text /\ pending' = <<>> /\ overlap' = <<>>
          /\ UNCHANGED <<pc, raw, doc, warnings, pieces>>
      BY <1>2 DEF StartSection
    <2>2. block.text \in Seq(Char) /\ <<block.level, block.id>> \in Nat \X (1 .. MaxBlocks)
      BY <1>2, <1>b DEF StartSection
    <2>3. Outer(block.level) \in Seq(Nat \X (1 .. MaxBlocks))
      BY <1>0, OuterIs
    <2>4. headings' \in Seq(Nat \X (1 .. MaxBlocks))
      BY <2>1, <2>2, <2>3, AppendProperties
    <2>5. warnings' = CutAt(doc)'
      BY <1>w, <2>1
    <2> HIDE DEF block
    <2>6. QED
      BY <1>0, <1>e, <1>f, <2>1, <2>2, <2>4, <2>5 DEF SizeInv
  <1>3. CASE AddText
    <2> DEFINE text == doc[at + 1].text
    <2>1. text \in Seq(Ones) /\ text # <<>>
      BY <1>3, <1>b DEF AddText
    <2>2. pieces' = SplitToLimit(text) /\ UNCHANGED <<pc, raw, doc, warnings, headings, pending, prefix, overlap, drafts>>
      BY <1>3 DEF AddText, builder
    <2> HIDE DEF text
    <2>3. pieces' \in Seq(Piece(Ones))
      BY <2>1, <2>2, SplitIs
    <2>4. warnings' = CutAt(doc)'
      BY <1>w, <2>2
    <2>5. QED
      BY <1>0, <2>2, <2>3, <2>4 DEF SizeInv
  <1>4. CASE AddPiece
    <2> DEFINE piece == Head(pieces)
    <2>1. pieces # <<>> /\ pieces' = Tail(pieces) /\ UNCHANGED <<pc, raw, doc, warnings, headings>>
      BY <1>4 DEF AddPiece
    <2>2. piece \in Piece(Ones) /\ pieces' \in Seq(Piece(Ones))
      BY <1>0, <2>1
    <2>3. /\ piece \in Text /\ Tokens(piece) \in Nat /\ Tokens(piece) <= Target
          /\ pending \in Seq(Text) /\ TokensOf(pending) \in Nat
      <3>1. piece \in Text /\ pending \in Seq(Text)
        BY <1>0, <2>2, PieceIs, SeqMonotonic
      <3>2. Tokens(piece) <= Target
        BY <2>2 DEF Piece
      <3>3. QED
        BY <3>1, <3>2, TokensIs, TokensOfAppend
    <2>4. warnings' = CutAt(doc)'
      BY <1>w, <2>1
    <2>5. CASE /\ drafts' = FlushedDrafts /\ pending' = <<piece>>
               /\ prefix' = FlushedPrefix /\ overlap' = FlushedOverlap
      <3> HIDE DEF piece
      <3>1. TokensOf(<<piece>>) = Tokens(piece)
        <4>1. <<>> \in Seq(Text) /\ <<piece>> = Append(<<>>, piece)
          BY EmptySeq
        <4>2. TokensOf(Append(<<>>, piece)) = TokensOf(<<>>) + Tokens(piece)
          BY <2>3, <4>1, TokensOfAppend
        <4>3. QED
          BY <1>e, <2>3, <4>1, <4>2
      <3>2. <<piece>> \in Seq(Piece(Ones))
        BY <2>2
      <3>3. QED
        BY <1>0, <1>f, <2>1, <2>2, <2>3, <2>4, <2>5, <3>1, <3>2 DEF SizeInv
    <2>6. CASE /\ ~(pending # <<>> /\ PendingTokens + Tokens(piece) > Target)
               /\ pending' = Append(pending, piece) /\ UNCHANGED <<drafts, prefix, overlap>>
      <3> HIDE DEF piece
      <3>1. TokensOf(Append(pending, piece)) = TokensOf(pending) + Tokens(piece)
        BY <2>3, TokensOfAppend
      <3>2. TokensOf(pending) + Tokens(piece) <= Target
        <4>1. CASE pending = <<>>
          BY <1>e, <2>3, <4>1
        <4>2. CASE pending # <<>>
          BY <2>3, <2>6, <4>2, ConstantsAssumption DEF PendingTokens
        <4>3. QED
          BY <4>1, <4>2
      <3>3. pending' \in Seq(Piece(Ones))
        BY <1>0, <2>2, <2>6, AppendProperties
      <3>4. TokensOf(pending') <= Target
        BY <2>6, <3>1, <3>2
      <3>5. QED
        BY <1>0, <2>1, <2>2, <2>4, <2>6, <3>3, <3>4 DEF SizeInv
    <2>7. QED
      BY <1>4, <2>5, <2>6 DEF AddPiece
  <1>5. CASE AddTable
    <2> DEFINE rows == doc[at + 1].text
    <2>1. rows \in Seq(Char) /\ rows # <<>>
      BY <1>5, <1>b DEF AddTable
    <2>2. /\ drafts' = FlushedDrafts \o TableDrafts(rows) /\ pending' = <<>>
          /\ prefix' = FlushedPrefix /\ overlap' = <<>>
          /\ UNCHANGED <<pc, raw, doc, warnings, pieces, headings>>
      BY <1>5 DEF AddTable, TableDrafts
    <2> HIDE DEF rows
    <2>3. TableDrafts(rows) \in Seq(Drafts)
      BY <1>0, <2>1, TableDraftsAre
    <2>4. drafts' \in Seq(Drafts)
      BY <1>f, <2>2, <2>3, ConcatProperties
    <2>5. warnings' = CutAt(doc)'
      BY <1>w, <2>2
    <2>6. QED
      BY <1>0, <1>e, <1>f, <2>2, <2>4, <2>5 DEF SizeInv
  <1>6. CASE FinishChunking
    <2>1. /\ pc' = "embed" /\ drafts' = FlushedDrafts /\ prefix' = FlushedPrefix
          /\ overlap' = FlushedOverlap /\ pending' = <<>>
          /\ UNCHANGED <<raw, doc, warnings, pieces, headings>>
      BY <1>6 DEF FinishChunking
    <2>2. warnings' = CutAt(doc)'
      BY <1>w, <2>1
    <2>3. QED
      BY <1>0, <1>e, <1>f, <2>1, <2>2 DEF SizeInv
  <1>7. CASE EmbedBatch \/ EmbedDone \/ UNCHANGED vars
    <2>1. /\ UNCHANGED <<raw, doc, warnings, pieces, headings, pending, prefix, overlap, drafts>>
          /\ pc' \in {"finalize", "chunk", "embed", "done", "failed"}
      <3>1. CASE EmbedBatch
        BY <1>0, <3>1 DEF EmbedBatch, builder
      <3>2. CASE EmbedDone \/ UNCHANGED vars
        BY <1>0, <3>2 DEF EmbedDone, vars, builder
      <3>3. QED
        BY <1>7, <3>1, <3>2
    <2>2. warnings' = CutAt(doc)'
      BY <1>w, <2>1
    <2>3. QED
      BY <1>0, <2>1, <2>2 DEF SizeInv
  <1>8. QED
    BY <1>1, <1>2, <1>3, <1>4, <1>5, <1>6, <1>7 DEF Next

\* The chunks keep to their sizes, as the code counts tokens, whatever the document:
\* what a chunk has of its own is within target_tokens but for the newlines between
\* its pieces or lines, unless it is a single row of a table; what it repeats of the
\* one before is within overlap_tokens but for newlines; and no chunk is empty
\* (default_recursive.py:27-51, 76-103, table_row.py:24-48).
THEOREM ChunksKeepToSize == Spec => []TypeOK
  <1>1. ASSUME SizeInv
        PROVE  TypeOK
    <2>1. /\ RawOK /\ doc \in Seq(Blocks) /\ at \in 0 .. Len(doc)
          /\ pc \in {"finalize", "chunk", "embed", "done", "failed"}
          /\ warnings = CutAt(doc) /\ Len(vectors) <= Len(drafts)
          /\ pieces \in Seq(Piece(Ones)) /\ pending \in Seq(Piece(Ones))
          /\ drafts \in Seq(Drafts)
      BY <1>1 DEF SizeInv, VectorsInv
    <2>2. pieces \in Seq(Text \ {<<>>}) /\ pending \in Seq(Text \ {<<>>})
      BY <2>1, PieceIs, SeqMonotonic
    <2>3. warnings \subseteq 0 .. Len(doc) - 1
      <3>1. Len(doc) \in Nat /\ DOMAIN doc = 1 .. Len(doc)
        BY <2>1
      <3>2. QED
        BY <2>1, <3>1 DEF CutAt
    <2>4. \A i \in DOMAIN doc : doc[i].text \in Seq(Char) \ {<<>>}
      <3>1. \A i \in DOMAIN doc : doc[i] \in Blocks
        BY <2>1
      <3>2. QED
        BY <2>1, <3>1, BlockText
    <2>5. \A i \in DOMAIN drafts : DraftOK(drafts[i])
      <3>1. \A i \in DOMAIN drafts : drafts[i] \in Drafts
        BY <2>1
      <3>2. \A d \in Drafts : DraftOK(d)
        BY DEF Drafts
      <3>3. QED
        BY <3>1, <3>2, Zenon
    <2>6. QED
      BY <2>1, <2>2, <2>3, <2>4, <2>5 DEF TypeOK
  <1>2. QED
    BY <1>1, SizeInit, SizeStep, PTL DEF Spec

(***************************************************************************)
(* The text of the chunks                                                  *)
(***************************************************************************)

\* The rows packed so far, put together.
Rows(acc) == FlattenSeq(acc.packed) \o acc.buffer

LEMMA PackRowKeeps ==
    ASSUME NEW h \in Char, NEW acc \in Packs(h), NEW row \in Char
    PROVE  Rows(PackRow(h, acc, row)) = Append(Rows(acc), row) /\ Rows(acc) \in Text
  <1>1. /\ acc.packed \in Seq(Group(h)) /\ acc.buffer \in Group(h) \cup {<<>>}
    BY DEF Packs
  <1>2. Group(h) \subseteq Text
    BY TextIs DEF Group
  <1>3. acc.packed \in Seq(Text) /\ acc.buffer \in Text
    BY <1>1, <1>2, SeqMonotonic, TextIs
  <1>4. FlattenSeq(acc.packed) \in Text /\ row \in Sign /\ <<row>> \in Text
    <2>1. row \in Sign
      BY DEF Sign
    <2>2. QED
      BY <1>3, <2>1, FlattenAppend, TextIs
  <1> DEFINE p == FlattenSeq(acc.packed)
             b == acc.buffer
  <1>5. p \in Seq(Sign) /\ b \in Seq(Sign) /\ p \o b \in Seq(Sign)
    BY <1>3, <1>4, TextIs
  <1>6. (p \o b) \o <<row>> = Append(p \o b, row)
    <2> HIDE DEF p, b
    <2>1. QED
      BY <1>4, <1>5, AppendIsConcat
  <1>7. CASE PackRow(h, acc, row) = [packed |-> Append(acc.packed, acc.buffer), buffer |-> <<row>>]
    <2>1. Rows(PackRow(h, acc, row)) = FlattenSeq(Append(acc.packed, acc.buffer)) \o <<row>>
      BY <1>7 DEF Rows
    <2>2. FlattenSeq(Append(acc.packed, acc.buffer)) = p \o b
      BY <1>3, FlattenAppend
    <2>3. QED
      BY <1>5, <1>6, <2>1, <2>2, TextIs DEF Rows
  <1>8. CASE PackRow(h, acc, row) = [packed |-> acc.packed, buffer |-> Append(acc.buffer, row)]
    <2> HIDE DEF p, b
    <2>0. PackRow(h, acc, row).packed = acc.packed /\ PackRow(h, acc, row).buffer = Append(b, row)
      BY <1>8 DEF b
    <2>1. Rows(PackRow(h, acc, row)) = p \o Append(b, row)
      BY <2>0, Zenon DEF Rows, p
    <2>2. p \o Append(b, row) = Append(p \o b, row)
      BY <1>4, <1>5, ConcatAppend
    <2>3. QED
      BY <1>5, <2>1, <2>2, TextIs DEF Rows, p, b
  <1>9. QED
    BY <1>7, <1>8 DEF PackRow

\* The rows of a table, its header only if it is alone, are all in its groups, in order.
LEMMA PackTableKeeps ==
    ASSUME NEW rows \in Seq(Char), rows # <<>>
    PROVE  FlattenSeq(PackTable(rows)) = IF Len(rows) > 1 THEN Tail(rows) ELSE rows
  <1>0. rows[1] \in Char /\ Len(rows) \in Nat \ {0}
    OBVIOUS
  <1>1. CASE Len(rows) = 1
    <2>1. PackTable(rows) = <<rows>>
      BY <1>1 DEF PackTable
    <2>2. FlattenSeq(<<rows>>) = rows
      BY FlattenOne, TextIs
    <2>3. QED
      BY <1>1, <2>1, <2>2
  <1>2. CASE Len(rows) # 1
    <2> DEFINE n == Len(rows) - 1
               h == rows[1]
               body == Tail(rows)
    <2>1. n \in Nat /\ n # 0 /\ n + 1 = Len(rows) /\ Len(rows) > 1
      BY <1>0, <1>2
    <2>2. body \in Seq(Char) /\ Len(body) = n
      BY <2>1
    <2> HIDE DEF n
    <2>3. PICK run, end : /\ Run(run, n, Packs(h), NothingPacked, PackStep(h, body, n), end)
                          /\ PackTable(rows) = Append(end.packed, end.buffer)
      BY <2>1, PackRun
    <2> HIDE DEF h, body
    <2>4. /\ run \in [0 .. n -> Packs(h)] /\ run[0] = NothingPacked /\ run[n] = end
          /\ \A k \in 1 .. n : run[k] = PackRow(h, run[k - 1], body[k])
      <3>1. /\ run \in [0 .. n -> Packs(h)] /\ run[0] = NothingPacked /\ run[n] = end
            /\ \A k \in 1 .. n : run[k] = PackStep(h, body, n)[<<k, run[k - 1]>>]
        BY <2>3 DEF Run
      <3>2. \A k \in 1 .. n : run[k - 1] \in Packs(h)
        <4>1. \A k \in 1 .. n : k - 1 \in 0 .. n
          BY <2>1
        <4>2. QED
          BY <3>1, <4>1
      <3>3. \A k \in 1 .. n, x \in Packs(h) : PackStep(h, body, n)[<<k, x>>] = PackRow(h, x, body[k])
        BY DEF PackStep
      <3>4. QED
        BY <3>1, <3>2, <3>3
    <2> DEFINE Bad == {k \in 0 .. n : Rows(run[k]) # Upto(body, k)}
    <2>5. ASSUME NEW k \in Bad, \A l \in Bad : k <= l
          PROVE  FALSE
      <3>1. k \in 0 .. n /\ Rows(run[k]) # Upto(body, k)
        OBVIOUS
      <3>2. k # 0
        <4>1. FlattenSeq(<<>>) = <<>> /\ <<>> \o <<>> = <<>>
          BY EmptySeq, TextIs, FlattenAppend, ConcatEmptySeq
        <4>2. Rows(NothingPacked) = <<>>
          BY <4>1 DEF Rows, NothingPacked
        <4>3. Upto(body, 0) = <<>>
          BY <2>2, UptoIs
        <4>4. QED
          BY <2>4, <3>1, <4>2, <4>3
      <3>3. k \in 1 .. n /\ k - 1 \in 0 .. n /\ ~(k <= k - 1)
        BY <2>1, <3>1, <3>2
      <3>4. k - 1 \notin Bad
        BY <2>5, <3>3, Zenon
      <3>5. Rows(run[k - 1]) = Upto(body, k - 1)
        BY <3>3, <3>4
      <3>6. body[k] \in Char /\ Upto(body, k) = Append(Upto(body, k - 1), body[k])
        BY <2>2, <3>3, UptoIs
      <3>7. run[k] = PackRow(h, run[k - 1], body[k]) /\ run[k - 1] \in Packs(h) /\ h \in Char
        BY <1>0, <2>4, <3>3 DEF h
      <3>8. Rows(run[k]) = Append(Rows(run[k - 1]), body[k])
        BY <3>6, <3>7, PackRowKeeps
      <3>9. QED
        BY <3>1, <3>5, <3>6, <3>8
    <2>6. Bad \in SUBSET Nat
      OBVIOUS
    <2>7. Bad = {}
      <3> HIDE DEF Bad
      <3>1. QED
        BY <2>5, <2>6, Least
    <2>8. n \in 0 .. n /\ Upto(body, n) = body
      BY <2>1, <2>2, UptoIs
    <2>9. Rows(end) = body
      BY <2>4, <2>7, <2>8
    <2>10. end.packed \in Seq(Text) /\ end.buffer \in Text
      <3>1. end \in Packs(h)
        BY <2>4, <2>8
      <3>2. end.packed \in Seq(Group(h)) /\ end.buffer \in Group(h) \cup {<<>>}
        BY <3>1 DEF Packs
      <3>3. Group(h) \subseteq Text
        BY TextIs DEF Group
      <3>4. QED
        BY <3>2, <3>3, SeqMonotonic, TextIs
    <2>11. FlattenSeq(PackTable(rows)) = Rows(end)
      BY <2>3, <2>10, FlattenAppend DEF Rows
    <2>12. QED
      BY <2>1, <2>9, <2>11 DEF body
  <1>3. QED
    BY <1>0, <1>1, <1>2

\* The bodies of chunks, put together, and what is left of them without newlines.
Bodies(ds)  == [i \in DOMAIN ds |-> ds[i].body]
Shipped(ds) == Ink(FlattenSeq(Bodies(ds)))

LEMMA ShippedAre ==
    ASSUME NEW ds \in Seq(Drafts)
    PROVE  Bodies(ds) \in Seq(Text) /\ FlattenSeq(Bodies(ds)) \in Text /\ Shipped(ds) \in Seq(Char)
  <1>1. \A i \in DOMAIN ds : ds[i].body \in Text
    <2>1. \A d \in Drafts : d.body \in Text
      BY DEF Drafts
    <2>2. QED
      BY <2>1
  <1>2. Bodies(ds) \in Seq(Text)
    BY <1>1 DEF Bodies
  <1>3. FlattenSeq(Bodies(ds)) \in Text
    BY <1>2, TextIs, FlattenAppend
  <1>4. QED
    BY <1>2, <1>3, InkIs DEF Shipped

LEMMA ShippedConcat ==
    ASSUME NEW ds \in Seq(Drafts), NEW es \in Seq(Drafts)
    PROVE  Shipped(ds \o es) = Shipped(ds) \o Shipped(es)
  <1>1. Bodies(ds \o es) = Bodies(ds) \o Bodies(es)
    <2>1. ds \o es \in Seq(Drafts) /\ Len(ds \o es) = Len(ds) + Len(es)
      BY ConcatProperties
    <2>2. Bodies(ds \o es) \in Seq(Text) /\ Bodies(ds) \in Seq(Text) /\ Bodies(es) \in Seq(Text)
      BY <2>1, ShippedAre
    <2>3. /\ Len(Bodies(ds \o es)) = Len(ds) + Len(es) /\ Len(Bodies(ds)) = Len(ds)
          /\ Len(Bodies(es)) = Len(es) /\ Len(ds) \in Nat /\ Len(es) \in Nat
      BY <2>1 DEF Bodies
    <2>4. ASSUME NEW i \in 1 .. Len(ds) + Len(es)
          PROVE  Bodies(ds \o es)[i] = (Bodies(ds) \o Bodies(es))[i]
      <3>1. Bodies(ds \o es)[i] = (ds \o es)[i].body
        BY <2>1, <2>3 DEF Bodies
      <3>2. CASE i <= Len(ds)
        <4>1. i \in 1 .. Len(ds)
          BY <2>3, <3>2
        <4>2. (ds \o es)[i] = ds[i] /\ Bodies(ds)[i] = ds[i].body
          BY <2>3, <4>1 DEF Bodies
        <4>3. (Bodies(ds) \o Bodies(es))[i] = Bodies(ds)[i]
          BY <2>2, <2>3, <4>1
        <4>4. QED
          BY <3>1, <4>2, <4>3
      <3>3. CASE ~(i <= Len(ds))
        <4>1. i - Len(ds) \in 1 .. Len(es)
          BY <2>3, <3>3
        <4>2. (ds \o es)[i] = es[i - Len(ds)] /\ Bodies(es)[i - Len(ds)] = es[i - Len(ds)].body
          BY <2>3, <3>3, <4>1 DEF Bodies
        <4>3. (Bodies(ds) \o Bodies(es))[i] = Bodies(es)[i - Len(ds)]
          BY <2>2, <2>3, <3>3, <4>1
        <4>4. QED
          BY <3>1, <4>2, <4>3
      <3>4. QED
        BY <3>2, <3>3
    <2>5. /\ Bodies(ds) \o Bodies(es) \in Seq(Text)
          /\ Len(Bodies(ds) \o Bodies(es)) = Len(ds) + Len(es)
      BY <2>2, <2>3, ConcatProperties
    <2>6. QED
      BY <2>2, <2>3, <2>4, <2>5, SeqEqual
  <1>2. /\ Bodies(ds) \in Seq(Text) /\ Bodies(es) \in Seq(Text)
        /\ FlattenSeq(Bodies(ds)) \in Text /\ FlattenSeq(Bodies(es)) \in Text
    BY ShippedAre
  <1>3. FlattenSeq(Bodies(ds) \o Bodies(es)) = FlattenSeq(Bodies(ds)) \o FlattenSeq(Bodies(es))
    BY <1>2, FlattenConcat
  <1>4. Ink(FlattenSeq(Bodies(ds)) \o FlattenSeq(Bodies(es))) = Shipped(ds) \o Shipped(es)
    BY <1>2, InkConcat DEF Shipped
  <1>5. QED
    BY <1>1, <1>3, <1>4 DEF Shipped

LEMMA FlattenHead ==
    ASSUME NEW ts \in Seq(Text), ts # <<>>
    PROVE  FlattenSeq(ts) = Head(ts) \o FlattenSeq(Tail(ts)) /\ Head(ts) \in Text /\ Tail(ts) \in Seq(Text)
  <1>1. Head(ts) \in Text /\ Tail(ts) \in Seq(Text) /\ Len(ts) \in Nat
    OBVIOUS
  <1>2. <<Head(ts)>> \in Seq(Text)
    BY <1>1
  <1>3. ts = <<Head(ts)>> \o Tail(ts)
    <2> DEFINE a == <<Head(ts)>>
               b == Tail(ts)
    <2>1. /\ a \in Seq(Text) /\ Len(a) = 1 /\ a[1] = ts[1]
          /\ b \in Seq(Text) /\ Len(b) = Len(ts) - 1 /\ \A i \in 1 .. Len(b) : b[i] = ts[i + 1]
      BY <1>1, <1>2
    <2> HIDE DEF a, b
    <2>2. /\ a \o b \in Seq(Text) /\ Len(a \o b) = Len(ts)
          /\ \A i \in 1 .. Len(ts) : (a \o b)[i] = IF i <= 1 THEN a[i] ELSE b[i - 1]
      <3>1. /\ a \o b \in Seq(Text) /\ Len(a \o b) = Len(a) + Len(b)
            /\ \A i \in 1 .. Len(a) + Len(b) :
                 (a \o b)[i] = IF i <= Len(a) THEN a[i] ELSE b[i - Len(a)]
        <4>1. a \in Seq(Text) /\ b \in Seq(Text)
          BY <2>1
        <4>2. QED
          BY <4>1, ConcatProperties, Zenon
      <3>2. QED
        BY <1>1, <2>1, <3>1
    <2>3. ASSUME NEW i \in 1 .. Len(ts)
          PROVE  ts[i] = (a \o b)[i]
      <3>1. CASE i = 1
        <4>1. (a \o b)[i] = a[i]
          BY <2>2, <3>1
        <4>2. QED
          BY <2>1, <3>1, <4>1
      <3>2. CASE i # 1
        <4>1. i - 1 \in 1 .. Len(b) /\ (i - 1) + 1 = i
          BY <1>1, <2>1, <3>2
        <4>2. (a \o b)[i] = b[i - 1]
          BY <2>2, <3>2
        <4>3. QED
          BY <2>1, <4>1, <4>2
      <3>3. QED
        BY <3>1, <3>2
    <2>4. QED
      BY <2>2, <2>3, SeqEqual DEF a, b
  <1>4. FlattenSeq(<<Head(ts)>> \o Tail(ts)) = FlattenSeq(<<Head(ts)>>) \o FlattenSeq(Tail(ts))
    <2> DEFINE a == <<Head(ts)>>
               b == Tail(ts)
    <2>1. a \in Seq(Text) /\ b \in Seq(Text)
      BY <1>1, <1>2
    <2> HIDE DEF a, b
    <2>2. FlattenSeq(a \o b) = FlattenSeq(a) \o FlattenSeq(b)
      BY <2>1, FlattenConcat
    <2>3. QED
      BY <2>2 DEF a, b
  <1>5. FlattenSeq(<<Head(ts)>>) = Head(ts)
    <2> DEFINE x == Head(ts)
    <2>1. x \in Text
      BY <1>1
    <2> HIDE DEF x
    <2>2. FlattenSeq(<<x>>) = x
      BY <2>1, FlattenOne
    <2>3. QED
      BY <2>2 DEF x
  <1>6. FlattenSeq(ts) = Head(ts) \o FlattenSeq(Tail(ts))
    BY <1>3, <1>4, <1>5, Zenon
  <1>7. QED
    BY <1>1, <1>6

\* The text of the pieces that wait goes into the chunk.
LEMMA FlushShips ==
    ASSUME SizeInv
    PROVE  Shipped(FlushedDrafts) = Shipped(drafts) \o FlattenSeq(pending)
  <1>1. drafts \in Seq(Drafts) /\ pending \in Seq(Piece(Ones)) /\ Shipped(drafts) \in Seq(Char)
    BY ShippedAre DEF SizeInv
  <1>2. CASE pending = <<>>
    <2>1. FlattenSeq(<<>>) = <<>>
      BY EmptySeq, TextIs, FlattenAppend
    <2>2. Shipped(drafts) \o <<>> = Shipped(drafts)
      BY <1>1, ConcatEmptySeq
    <2>3. FlushedDrafts = drafts
      BY <1>2 DEF FlushedDrafts
    <2>4. QED
      BY <1>2, <2>1, <2>2, <2>3, Zenon
  <1>3. CASE pending # <<>>
    <2> DEFINE d == TextDraft
    <2>1. FlushedDrafts = Append(drafts, d)
      BY <1>3 DEF FlushedDrafts, TextDraft
    <2>2. d \in Drafts
      BY <1>3, TextDraftIs
    <2>3. d.body = Join(pending)
      BY DEF TextDraft, Draft
    <2> HIDE DEF d
    <2>4. Append(drafts, d) = drafts \o <<d>> /\ <<d>> \in Seq(Drafts)
      <3>1. <<d>> \in Seq(Drafts)
        BY <2>2
      <3>2. QED
        BY <1>1, <2>2, <3>1, AppendIsConcat
    <2>5. Shipped(drafts \o <<d>>) = Shipped(drafts) \o Shipped(<<d>>)
      BY <1>1, <2>4, ShippedConcat
    <2>6. Bodies(<<d>>) = <<d.body>>
      BY DEF Bodies
    <2>7. d.body \in Text
      BY <2>2 DEF Drafts
    <2>8. FlattenSeq(<<d.body>>) = d.body
      BY <2>7, FlattenOne
    <2>9. Ink(Join(pending)) = FlattenSeq(pending)
      BY JoinedBody DEF SizeInv
    <2>10. Shipped(<<d>>) = FlattenSeq(pending)
      BY <2>3, <2>6, <2>8, <2>9, Zenon DEF Shipped
    <2>11. QED
      BY <2>1, <2>4, <2>5, <2>10, Zenon
  <1>4. QED
    BY <1>2, <1>3

LEMMA ContentIs ==
    ASSUME RawOK, NEW block \in Blocks
    PROVE  ContentOf(block) \in Seq(Char)
  <1>1. block.text \in Seq(Char) /\ block.text # <<>>
    BY BlockText
  <1>2. Tail(block.text) \in Seq(Char) /\ <<>> \in Seq(Char)
    BY <1>1
  <1>3. QED
    BY <1>1, <1>2 DEF ContentOf

\* The content of the first n blocks of a document.
Contents(blocks, n) == [i \in 1 .. n |-> ContentOf(blocks[i])]

LEMMA ContentsAppend ==
    ASSUME RawOK, NEW blocks \in Seq(Blocks), NEW n \in Nat, n + 1 <= Len(blocks)
    PROVE  /\ FlattenSeq(Contents(blocks, n + 1))
                = FlattenSeq(Contents(blocks, n)) \o ContentOf(blocks[n + 1])
           /\ FlattenSeq(Contents(blocks, n)) \in Text
  <1> DEFINE c(i) == ContentOf(blocks[i])
             a == Contents(blocks, n)
             b == Contents(blocks, n + 1)
  <1>1. \A i \in 1 .. n + 1 : c(i) \in Text
    <2>1. \A i \in 1 .. n + 1 : blocks[i] \in Blocks
      OBVIOUS
    <2>2. \A i \in 1 .. n + 1 : c(i) \in Seq(Char)
      BY <2>1, ContentIs
    <2>3. QED
      BY <2>2, TextIs
  <1>2. a = [i \in 1 .. n |-> c(i)] /\ b = [i \in 1 .. n + 1 |-> c(i)]
    BY DEF Contents
  <1> DEFINE x == c(n + 1)
  <1>3. x \in Text
    BY <1>1
  <1> HIDE DEF c, a, b
  <1>4. a \in Seq(Text) /\ Len(a) = n /\ b \in Seq(Text) /\ Len(b) = n + 1
    BY <1>1, <1>2
  <1>5. b = Append(a, x)
    <2>1. Append(a, x) \in Seq(Text) /\ Len(Append(a, x)) = n + 1
      BY <1>3, <1>4, AppendProperties
    <2>2. \A i \in 1 .. n + 1 : b[i] = Append(a, x)[i]
      BY <1>2, <1>3, <1>4
    <2>3. QED
      BY <1>4, <2>1, <2>2, SeqEqual
  <1> HIDE DEF x
  <1>6. FlattenSeq(b) = FlattenSeq(a) \o x /\ FlattenSeq(a) \in Text
    BY <1>3, <1>4, <1>5, FlattenAppend
  <1>7. QED
    BY <1>6 DEF a, b, c, x

LEMMA TableBodies ==
    ASSUME headings \in Seq(Nat \X (1 .. MaxBlocks)), NEW rows \in Seq(Char), rows # <<>>
    PROVE  Bodies(TableDrafts(rows)) = PackTable(rows) /\ TableDrafts(rows) \in Seq(Drafts)
  <1> DEFINE groups == PackTable(rows)
             ds == TableDrafts(rows)
  <1>1. groups \in Seq(Group(rows[1]))
    BY PackTableType
  <1>2. ds \in Seq(Drafts) /\ Len(ds) = Len(groups) /\ \A i \in DOMAIN ds : ds[i].body = groups[i]
    BY TableDraftsAre
  <1>3. Bodies(ds) = [i \in DOMAIN ds |-> ds[i].body]
    BY DEF Bodies
  <1> HIDE DEF groups, ds
  <1>4. DOMAIN ds = 1 .. Len(groups) /\ groups = [i \in 1 .. Len(groups) |-> groups[i]]
    BY <1>1, <1>2
  <1>5. Bodies(ds) = groups
    BY <1>2, <1>3, <1>4
  <1>6. QED
    BY <1>2, <1>5 DEF groups, ds

\* The chunks, the pieces pending and those to come hold the text of the blocks handed
\* over, and the document, once it is there, every block that has text.
LossInv ==
    /\ SizeInv
    /\ pc \in {"chunk", "embed", "done"} => Whole(doc, Len(raw))
    /\ Shipped(drafts) \o FlattenSeq(pending) \o FlattenSeq(pieces) = FlattenSeq(Contents(doc, at))

LEMMA LossInit == Init => LossInv
  <1> SUFFICES ASSUME Init PROVE LossInv
    OBVIOUS
  <1>1. SizeInv
    BY SizeInit
  <1>2. pc = "finalize" /\ drafts = <<>> /\ pending = <<>> /\ pieces = <<>> /\ at = 0 /\ doc = <<>>
    BY DEF Init
  <1>3. FlattenSeq(<<>>) = <<>> /\ Ink(<<>>) = <<>>
    <2>1. NL \in Sign
      BY DEF Sign
    <2>2. QED
      BY <2>1, EmptySeq, TextIs, FlattenAppend, InkAppend
  <1>4. Bodies(<<>>) = <<>> /\ Contents(<<>>, 0) = <<>>
    BY DEF Bodies, Contents
  <1>5. <<>> \o <<>> \o <<>> = <<>>
    <2>1. <<>> \o <<>> = <<>>
      BY EmptySeq, ConcatEmptySeq
    <2>2. QED
      BY <2>1
  <1>6. Shipped(<<>>) = <<>>
    BY <1>3, <1>4, Zenon DEF Shipped
  <1>7. Shipped(drafts) \o FlattenSeq(pending) \o FlattenSeq(pieces) = FlattenSeq(Contents(doc, at))
    BY <1>2, <1>3, <1>4, <1>5, <1>6, Zenon
  <1>8. QED
    BY <1>1, <1>2, <1>7 DEF LossInv

LEMMA SameWhole ==
    ASSUME UNCHANGED <<raw, doc>>, Whole(doc, Len(raw))
    PROVE  Whole(doc, Len(raw))'
  BY DEF Whole, Shown, Normalized, Inked

LEMMA Closed == \A x, y \in Seq(Char) : x \o y \in Seq(Char)
  OBVIOUS

LEMMA Assoc == \A x, y, z \in Seq(Char) : (x \o y) \o z = x \o (y \o z)
  BY ConcatAssociative

LEMMA LossStep == LossInv /\ [Next]_vars => LossInv'
  <1> SUFFICES ASSUME LossInv, [Next]_vars PROVE LossInv'
    OBVIOUS
  <1> DEFINE A == Shipped(drafts)
             P == FlattenSeq(pending)
             Q == FlattenSeq(pieces)
             C == FlattenSeq(Contents(doc, at))
             Left == A \o P \o Q
  <1>0. /\ SizeInv /\ SizeInv' /\ RawOK /\ doc \in Seq(Blocks) /\ at \in 0 .. Len(doc)
        /\ (pc \in {"chunk", "embed", "done"} => Whole(doc, Len(raw))) /\ Left = C
        /\ pieces \in Seq(Piece(Ones)) /\ pending \in Seq(Piece(Ones))
        /\ headings \in Seq(Nat \X (1 .. MaxBlocks)) /\ drafts \in Seq(Drafts)
        /\ (pc = "finalize" => at = 0)
    BY SizeStep DEF LossInv, SizeInv, VectorsInv
  <1>1. A \in Seq(Char) /\ P \in Seq(Char) /\ Q \in Seq(Char)
    BY <1>0, ShippedAre, PiecesFlat
  <1>e. FlattenSeq(<<>>) = <<>> /\ \A s \in Seq(Char) : s \o <<>> = s /\ <<>> \o s = s
    BY EmptySeq, TextIs, FlattenAppend, ConcatEmptySeq
  <1>f. FlushedDrafts \in Seq(Drafts) /\ Shipped(FlushedDrafts) = A \o P
    BY <1>0, FlushSizes, FlushShips
  <1>a. \A x, y \in Seq(Char) : x \o y \in Seq(Char)
    BY Closed
  <1>b. ASSUME NEW type, NextBlock(type), UNCHANGED <<doc, raw>>
        PROVE  /\ doc[at + 1] \in Blocks /\ doc[at + 1].type = type
               /\ doc[at + 1].text \in Seq(Char) /\ doc[at + 1].text # <<>>
               /\ pieces = <<>> /\ A \o P = C /\ pc = "chunk"
               /\ FlattenSeq(Contents(doc, at))' = C \o ContentOf(doc[at + 1])
               /\ ContentOf(doc[at + 1]) \in Seq(Char)
    <2>1. pieces = <<>> /\ at < Len(doc) /\ at' = at + 1 /\ doc[at + 1].type = type /\ pc = "chunk"
      BY <1>b DEF NextBlock
    <2>2. doc[at + 1] \in Blocks /\ at \in Nat /\ at + 1 <= Len(doc)
      BY <1>0, <2>1
    <2>3. ContentOf(doc[at + 1]) \in Seq(Char) /\ doc[at + 1].text \in Seq(Char) /\ doc[at + 1].text # <<>>
      BY <1>0, <2>2, ContentIs, BlockText
    <2>4. FlattenSeq(Contents(doc, at + 1)) = C \o ContentOf(doc[at + 1])
      BY <1>0, <2>2, ContentsAppend
    <2>5. FlattenSeq(Contents(doc, at))' = FlattenSeq(Contents(doc, at + 1))
      BY <1>b, <2>1
    <2>6. A \o P = C
      <3>1. Q = <<>> /\ A \o P \in Seq(Char)
        BY <1>1, <1>a, <1>e, <2>1
      <3> HIDE DEF A, P, Q, C
      <3>2. QED
        BY <1>0, <1>e, <3>1
    <2>7. QED
      BY <2>1, <2>2, <2>3, <2>4, <2>5, <2>6
  <1>w. ASSUME UNCHANGED <<raw, doc>>, pc \in {"chunk", "embed", "done"} \/ pc' \notin {"chunk", "embed", "done"}
        PROVE  pc' \in {"chunk", "embed", "done"} => Whole(doc, Len(raw))'
    BY <1>0, <1>w, SameWhole
  <1>2. CASE Finalize
    <2>1. at = 0 /\ UNCHANGED <<raw, drafts, pending, pieces, at>>
      BY <1>0, <1>2 DEF Finalize, builder
    <2>2. Contents(doc, at) = <<>> /\ Contents(doc, at)' = <<>>
      BY <2>1 DEF Contents
    <2>3. (Shipped(drafts) \o FlattenSeq(pending) \o FlattenSeq(pieces) = FlattenSeq(Contents(doc, at)))'
      <3>1. Left' = Left
        BY <2>1
      <3>2. FlattenSeq(Contents(doc, at))' = C
        BY <2>2
      <3>3. QED
        BY <1>0, <3>1, <3>2
    <2>4. pc' \in {"chunk", "embed", "done"} => doc' = Finalized.kept
      BY <1>2, Zenon DEF Finalize, Finalized, NothingKept
    <2>5. Whole(Finalized.kept, Len(raw))
      BY <1>0, DocumentIs
    <2>6. ASSUME doc' = Finalized.kept
          PROVE  Whole(doc, Len(raw))'
      <3> DEFINE kept == Finalized.kept
      <3>1. Whole(kept, Len(raw)) /\ doc' = kept /\ raw' = raw
        BY <2>1, <2>5, <2>6
      <3> HIDE DEF kept
      <3>2. QED
        BY <3>1 DEF Whole, Shown, Normalized, Inked
    <2>7. QED
      BY <1>0, <2>3, <2>4, <2>6 DEF LossInv
  <1>3. CASE StartSection
    <2>1. /\ NextBlock("heading") /\ drafts' = FlushedDrafts /\ pending' = <<>>
          /\ UNCHANGED <<pc, raw, doc, pieces>>
      BY <1>3 DEF StartSection
    <2>2. /\ pieces = <<>> /\ A \o P = C /\ pc = "chunk"
          /\ FlattenSeq(Contents(doc, at))' = C \o <<>>
      <3>1. doc[at + 1].type = "heading"
        BY <2>1 DEF NextBlock
      <3>2. ContentOf(doc[at + 1]) = <<>>
        BY <3>1 DEF ContentOf
      <3>3. QED
        BY <1>b, <2>1, <3>2
    <2>3. Left' = (A \o P) \o <<>> \o <<>>
      BY <1>e, <1>f, <2>1, <2>2
    <2>4. A \o P \in Seq(Char)
      BY <1>1, <1>a
    <2>5. Left' = FlattenSeq(Contents(doc, at))'
      <3> HIDE DEF A, P, C
      <3>1. QED
        BY <1>e, <2>2, <2>3, <2>4
    <2>6. pc' \in {"chunk", "embed", "done"} => Whole(doc, Len(raw))'
      BY <1>w, <2>1, <2>2
    <2>7. QED
      BY <1>0, <2>5, <2>6 DEF LossInv
  <1>4. CASE AddText
    <2> DEFINE text == doc[at + 1].text
    <2>1. NextBlock("text") /\ pieces' = SplitToLimit(text) /\ UNCHANGED <<pc, raw, doc, drafts, pending>>
      BY <1>4 DEF AddText, builder
    <2>2. /\ doc[at + 1] \in Blocks /\ doc[at + 1].type = "text" /\ text # <<>> /\ A \o P = C
          /\ pc = "chunk" /\ FlattenSeq(Contents(doc, at))' = C \o ContentOf(doc[at + 1])
      BY <1>b, <2>1
    <2>3. ContentOf(doc[at + 1]) = text
      BY <2>2 DEF ContentOf
    <2>4. text \in Seq(Ones)
      BY <1>0, <2>2, BlockIsAt
    <2> HIDE DEF text
    <2>5. FlattenSeq(SplitToLimit(text)) = text
      BY <2>2, <2>4, SplitIs
    <2>6. Left' = (A \o P) \o text
      BY <2>1, <2>5
    <2>7. Left' = FlattenSeq(Contents(doc, at))'
      BY <2>2, <2>3, <2>6, Zenon
    <2>8. pc' \in {"chunk", "embed", "done"} => Whole(doc, Len(raw))'
      BY <1>w, <2>1, <2>2
    <2>9. QED
      BY <1>0, <2>7, <2>8 DEF LossInv
  <1>5. CASE AddPiece
    <2> DEFINE piece == Head(pieces)
               rest == FlattenSeq(Tail(pieces))
    <2>1. pieces # <<>> /\ pieces' = Tail(pieces) /\ pc = "chunk" /\ UNCHANGED <<pc, raw, doc, at>>
      BY <1>5 DEF AddPiece
    <2>2. pieces \in Seq(Text) /\ pending \in Seq(Text)
      BY <1>0, PieceIs, SeqMonotonic
    <2>3. Q = piece \o rest /\ piece \in Text
      BY <2>1, <2>2, FlattenHead
    <2>4. piece \in Seq(Char) /\ rest \in Seq(Char)
      <3>1. piece \in Piece(Ones) /\ Tail(pieces) \in Seq(Piece(Ones))
        BY <1>0, <2>1
      <3>2. QED
        BY <3>1, PieceIs, PiecesFlat
    <2>5. FlattenSeq(Contents(doc, at))' = C /\ FlattenSeq(pieces)' = rest
      BY <2>1
    <2>6. Left = A \o P \o (piece \o rest)
      BY <2>3
    <2>7. ASSUME drafts' = FlushedDrafts, pending' = <<piece>>
          PROVE  Left' = C
      <3>1. Shipped(drafts)' = A \o P
        BY <1>f, <2>7
      <3>2. FlattenSeq(pending)' = piece
        <4>1. FlattenSeq(<<piece>>) = piece
          <5> HIDE DEF piece
          <5>1. QED
            BY <2>3, FlattenOne
        <4>2. QED
          BY <2>7, <4>1
      <3>3. Left' = (A \o P) \o piece \o rest
        BY <2>5, <3>1, <3>2
      <3>4. A \o P \in Seq(Char)
        BY <1>1, <1>a
      <3>5. Left' = C
        <4> HIDE DEF A, P, Q, C, piece, rest
        <4>1. ((A \o P) \o piece) \o rest = (A \o P) \o (piece \o rest)
          BY <2>4, <3>4, Assoc, Zenon
        <4>2. QED
          BY <1>0, <2>3, <3>3, <4>1
      <3>6. QED
        BY <3>5
    <2>8. ASSUME pending' = Append(pending, piece), UNCHANGED drafts
          PROVE  Left' = C
      <3>1. Shipped(drafts)' = A
        BY <2>8
      <3>2. FlattenSeq(pending)' = P \o piece
        <4>1. FlattenSeq(Append(pending, piece)) = P \o piece
          <5> HIDE DEF piece
          <5>1. QED
            BY <2>2, <2>3, FlattenAppend
        <4>2. QED
          BY <2>8, <4>1
      <3>3. Left' = A \o (P \o piece) \o rest
        BY <2>5, <3>1, <3>2
      <3>5. Left' = C
        <4> HIDE DEF A, P, Q, C, piece, rest
        <4>0. A \in Seq(Char) /\ P \in Seq(Char) /\ piece \in Seq(Char) /\ rest \in Seq(Char)
          BY <1>1, <2>4, Zenon
        <4>1. A \o (P \o piece) = (A \o P) \o piece
          BY <4>0, Assoc
        <4>2. A \o P \in Seq(Char)
          BY <4>0, Closed, Zenon
        <4> DEFINE e == A \o P
        <4> HIDE DEF e
        <4>3. (e \o piece) \o rest = e \o (piece \o rest)
          BY <4>0, <4>2, Assoc, Zenon DEF e
        <4>4. QED
          BY <1>0, <2>3, <3>3, <4>1, <4>3, Zenon DEF e
      <3>6. QED
        BY <3>5
    <2>9. Left' = FlattenSeq(Contents(doc, at))'
      BY <1>5, <2>5, <2>7, <2>8 DEF AddPiece
    <2>10. pc' \in {"chunk", "embed", "done"} => Whole(doc, Len(raw))'
      BY <1>w, <2>1
    <2>11. QED
      BY <1>0, <2>9, <2>10 DEF LossInv
  <1>6. CASE AddTable
    <2> DEFINE rows == doc[at + 1].text
    <2>1. /\ NextBlock("table") /\ drafts' = FlushedDrafts \o TableDrafts(rows) /\ pending' = <<>>
          /\ UNCHANGED <<pc, raw, doc, pieces>>
      BY <1>6 DEF AddTable, TableDrafts
    <2>2. /\ doc[at + 1].type = "table" /\ rows \in Seq(Char) /\ rows # <<>>
          /\ pieces = <<>> /\ A \o P = C /\ pc = "chunk"
          /\ FlattenSeq(Contents(doc, at))' = C \o ContentOf(doc[at + 1])
          /\ ContentOf(doc[at + 1]) \in Seq(Char)
      BY <1>b, <2>1
    <2>3. ContentOf(doc[at + 1]) = IF Len(rows) > 1 THEN Tail(rows) ELSE rows
      BY <2>2 DEF ContentOf
    <2> DEFINE content == ContentOf(doc[at + 1])
    <2> HIDE DEF rows
    <2>4. FlattenSeq(PackTable(rows)) = content
      BY <2>2, <2>3, PackTableKeeps
    <2>5. Bodies(TableDrafts(rows)) = PackTable(rows) /\ TableDrafts(rows) \in Seq(Drafts)
      BY <1>0, <2>2, TableBodies
    <2>6. Shipped(TableDrafts(rows)) = content
      <3>1. Shipped(TableDrafts(rows)) = Ink(content)
        BY <2>4, <2>5, Zenon DEF Shipped
      <3>2. Ink(content) = content
        <4> HIDE DEF content
        <4>1. content \in Seq(Char)
          BY <2>2 DEF content
        <4>2. QED
          BY <4>1, TextIs, InkIs
      <3>3. QED
        BY <3>1, <3>2
    <2>7. Shipped(drafts') = (A \o P) \o content
      <3>1. Shipped(FlushedDrafts \o TableDrafts(rows)) = Shipped(FlushedDrafts) \o Shipped(TableDrafts(rows))
        BY <1>f, <2>5, ShippedConcat
      <3>2. QED
        BY <1>f, <2>1, <2>6, <3>1, Zenon
    <2>8. Shipped(drafts)' = Shipped(drafts')
      BY DEF Shipped, Bodies
    <2>9. Left' = ((A \o P) \o content) \o <<>> \o <<>>
      BY <1>e, <2>1, <2>2, <2>7, <2>8
    <2>10. Left' = FlattenSeq(Contents(doc, at))'
      <3>1. C \o content \in Seq(Char)
        <4>1. A \o P \in Seq(Char) /\ A \o P = C
          BY <1>1, <1>a, <2>2, Zenon
        <4>2. QED
          BY <1>a, <2>2, <4>1, Zenon
      <3> HIDE DEF A, P, C, content
      <3>2. QED
        BY <1>e, <2>2, <2>9, <3>1 DEF content
    <2>11. pc' \in {"chunk", "embed", "done"} => Whole(doc, Len(raw))'
      BY <1>w, <2>1, <2>2
    <2>12. QED
      BY <1>0, <2>10, <2>11 DEF LossInv
  <1>7. CASE FinishChunking
    <2>1. /\ pc = "chunk" /\ pieces = <<>> /\ drafts' = FlushedDrafts /\ pending' = <<>>
          /\ UNCHANGED <<raw, doc, at, pieces>>
      BY <1>7 DEF FinishChunking
    <2>2. Shipped(drafts)' = A \o P /\ FlattenSeq(pending)' = <<>> /\ FlattenSeq(pieces)' = <<>> /\ Q = <<>>
      BY <1>e, <1>f, <2>1
    <2>3. Left' = (A \o P) \o <<>> \o <<>> /\ FlattenSeq(Contents(doc, at))' = C
      BY <2>1, <2>2
    <2>4. A \o P \in Seq(Char)
      BY <1>1, <1>a
    <2>5. Left' = FlattenSeq(Contents(doc, at))'
      <3> HIDE DEF A, P, Q, C
      <3>1. QED
        BY <1>0, <1>e, <2>2, <2>3, <2>4
    <2>6. pc' \in {"chunk", "embed", "done"} => Whole(doc, Len(raw))'
      BY <1>w, <2>1
    <2>7. QED
      BY <1>0, <2>5, <2>6 DEF LossInv
  <1>8. CASE EmbedBatch \/ EmbedDone \/ UNCHANGED vars
    <2>1. UNCHANGED <<raw, doc, at, pieces, pending, drafts>>
      BY <1>8 DEF EmbedBatch, EmbedDone, vars, builder
    <2>2. pc \in {"chunk", "embed", "done"} \/ pc' \notin {"chunk", "embed", "done"}
      BY <1>8 DEF EmbedBatch, EmbedDone, vars
    <2>3. Left' = Left /\ FlattenSeq(Contents(doc, at))' = C
      BY <2>1
    <2>4. pc' \in {"chunk", "embed", "done"} => Whole(doc, Len(raw))'
      BY <1>w, <2>1, <2>2
    <2>5. Left' = FlattenSeq(Contents(doc, at))'
      BY <1>0, <2>3
    <2>6. QED
      BY <1>0, <2>4, <2>5 DEF LossInv
  <1>9. QED
    BY <1>2, <1>3, <1>4, <1>5, <1>6, <1>7, <1>8 DEF Next

\* A block of the document is the beginning of what was read, and the warnings name
\* those that were cut.
LEMMA CutsNamed ==
    ASSUME RawOK, doc \in Seq(Blocks), warnings = CutAt(doc), NEW i \in DOMAIN doc
    PROVE  LET all == Normalized(doc[i].id).text
           IN  IsPrefix(doc[i].text, all) /\ ((doc[i].text # all) <=> (i - 1 \in warnings))
  <1>1. doc[i] \in Blocks /\ Len(doc) \in Nat /\ DOMAIN doc = 1 .. Len(doc)
    OBVIOUS
  <1>2. PICK b \in Inked : doc[i] = Shown(b)
    BY <1>1 DEF Blocks
  <1> DEFINE block == doc[i]
             T == Normalized(b).text
  <1>3. T \in Seq(CharOf(b)) /\ Len(T) \in Nat
    BY NormalizedType DEF Inked
  <1>4. PICK k \in 1 .. Len(T) :
          block = [id |-> b, type |-> raw[b].type, level |-> raw[b].level, text |-> SubSeq(T, 1, k)]
    BY <1>2, ShownIs
  <1>5. Normalized(b) = [id |-> b, type |-> raw[b].type, level |-> raw[b].level, text |-> T]
    BY DEF Normalized, NormalForm
  <1>6. (i - 1 \in warnings) <=> (block # Normalized(block.id))
    <2>1. i - 1 \in warnings <=> \E j \in DOMAIN doc : doc[j] # Normalized(doc[j].id) /\ i - 1 = j - 1
      BY DEF CutAt
    <2>2. \A j \in DOMAIN doc : i - 1 = j - 1 => j = i
      BY <1>1
    <2>3. QED
      BY <2>1, <2>2
  <1> HIDE DEF block, T
  <1>7. block.id = b /\ block.text = SubSeq(T, 1, k)
    BY <1>4
  <1>8. (block # Normalized(b)) <=> (block.text # T)
    <2> DEFINE t == SubSeq(T, 1, k)
    <2> HIDE DEF t
    <2>1. block = [id |-> b, type |-> raw[b].type, level |-> raw[b].level, text |-> t]
      BY <1>4 DEF t
    <2>2. block.text = t
      BY <2>1
    <2>3. CASE t = T
      BY <1>5, <2>1, <2>2, <2>3
    <2>4. CASE t # T
      <3>1. Normalized(b).text = T
        BY DEF T
      <3>2. QED
        BY <2>2, <2>4, <3>1, Zenon
    <2>5. QED
      BY <2>3, <2>4
  <1>9. IsPrefix(SubSeq(T, 1, k), T)
    <2> DEFINE t == SubSeq(T, 1, k)
    <2>1. t \in Seq(CharOf(b)) /\ Len(t) = k /\ k \in Nat /\ k <= Len(T)
      BY <1>3
    <2>2. SubSeq(t, 1, k) = t
      BY <2>1
    <2>3. QED
      BY <2>1, <2>2 DEF IsPrefix
  <1>10. Normalized(block.id).text = T
    BY <1>7 DEF T
  <1>11. IsPrefix(block.text, Normalized(block.id).text)
    BY <1>7, <1>9, <1>10, Zenon
  <1>12. (block.text # Normalized(block.id).text) <=> (i - 1 \in warnings)
    BY <1>6, <1>7, <1>8, <1>10, Zenon
  <1>13. QED
    BY <1>11, <1>12 DEF block

\* Nothing is lost: whatever the parser returned, each block that has text is in the
\* document, whole or cut with a warning that names it, and the chunks carry the text of
\* the document once and in its order (blocks.py:62-77, default_recursive.py:76-103,
\* table_row.py:24-48).
THEOREM TextIsKept == Spec => []NothingLost
  <1>1. ASSUME LossInv
        PROVE  NothingLost
    <2>0. /\ RawOK /\ doc \in Seq(Blocks) /\ warnings = CutAt(doc) /\ drafts \in Seq(Drafts)
          /\ pieces \in Seq(Piece(Ones)) /\ pending \in Seq(Piece(Ones))
          /\ (pc \in {"chunk", "embed", "done"} => Whole(doc, Len(raw)))
          /\ Shipped(drafts) \o FlattenSeq(pending) \o FlattenSeq(pieces) = FlattenSeq(Contents(doc, at))
      BY <1>1 DEF LossInv, SizeInv, VectorsInv
    <2>1. \A i \in DOMAIN doc :
            LET all == Normalized(doc[i].id).text
            IN  IsPrefix(doc[i].text, all) /\ ((doc[i].text # all) <=> (i - 1 \in warnings))
      BY <2>0, CutsNamed
    <2>2. ASSUME pc \in {"chunk", "embed", "done"}, NEW b \in DOMAIN raw, Normalized(b).text # <<>>
          PROVE  \E i \in DOMAIN doc : doc[i].id = b
      <3>1. Whole(doc, Len(raw)) /\ b \in Inked
        BY <2>0, <2>2 DEF Inked
      <3>2. b <= Len(raw)
        BY <2>0 DEF RawOK
      <3>3. QED
        BY <3>1, <3>2 DEF Whole
    <2>3. Ink(FlattenSeq([i \in DOMAIN drafts |-> drafts[i].body])
              \o FlattenSeq(pending) \o FlattenSeq(pieces))
          = FlattenSeq([i \in 1 .. at |-> ContentOf(doc[i])])
      <3> DEFINE B == FlattenSeq(Bodies(drafts))
                 P == FlattenSeq(pending)
                 Q == FlattenSeq(pieces)
      <3>1. B \in Text /\ Ink(B) = Shipped(drafts)
        BY <2>0, ShippedAre DEF Shipped
      <3>2. P \in Seq(Char) /\ Q \in Seq(Char)
        BY <2>0, PiecesFlat
      <3>3. Shipped(drafts) \o P \o Q = FlattenSeq(Contents(doc, at))
        BY <2>0
      <3> HIDE DEF B, P, Q
      <3>4. /\ P \in Text /\ Q \in Text /\ Ink(P) = P /\ Ink(Q) = Q
            /\ B \o P \in Text
        BY <3>1, <3>2, TextIs, InkIs
      <3>5. Ink(B \o P \o Q) = Ink(B \o P) \o Ink(Q) /\ Ink(B \o P) = Ink(B) \o Ink(P)
        BY <3>1, <3>4, InkConcat
      <3>6. Ink(B \o P \o Q) = FlattenSeq(Contents(doc, at))
        BY <3>1, <3>3, <3>4, <3>5
      <3>7. QED
        BY <3>6, Zenon DEF B, P, Q, Bodies, Contents
    <2>4. QED
      BY <2>1, <2>2, <2>3, Zenon DEF NothingLost
  <1>2. QED
    BY <1>1, LossInit, LossStep, PTL DEF Spec


(***************************************************************************)
(* The sections of the chunks                                              *)
(***************************************************************************)

LEMMA LastPart ==
    ASSUME NEW S, NEW u \in Seq(S), NEW a \in Seq(S)
    PROVE  IsSuffix(a, u \o a)
  <1> DEFINE b == u \o a
             m == Len(a)
             n == Len(u)
  <1>1. /\ b \in Seq(S) /\ Len(b) = n + m /\ m \in Nat /\ n \in Nat
        /\ \A i \in 1 .. m : b[n + i] = a[i]
    OBVIOUS
  <1> HIDE DEF b
  <1> DEFINE ra == Reverse(a)
             rb == Reverse(b)
  <1>2. /\ ra = [i \in 1 .. m |-> a[m - i + 1]]
        /\ rb = [i \in 1 .. n + m |-> b[n + m - i + 1]]
    BY <1>1 DEF Reverse
  <1>3. \A i \in 1 .. m : m - i + 1 \in 1 .. m
    BY <1>1
  <1>4. \A i \in 1 .. n + m : n + m - i + 1 \in 1 .. n + m
    BY <1>1
  <1>5. ra \in Seq(S) /\ Len(ra) = m /\ rb \in Seq(S) /\ Len(rb) = n + m
    <2>1. \A i \in 1 .. m : a[m - i + 1] \in S
      BY <1>3
    <2>2. \A i \in 1 .. n + m : b[n + m - i + 1] \in S
      BY <1>1, <1>4
    <2>3. ra \in Seq(S) /\ Len(ra) = m
      BY <1>1, <1>2, <2>1
    <2>4. rb \in Seq(S) /\ Len(rb) = n + m
      BY <1>1, <1>2, <2>2
    <2>5. QED
      BY <2>3, <2>4
  <1>6. \A i \in 1 .. m : rb[i] = ra[i]
    <2> SUFFICES ASSUME NEW i \in 1 .. m PROVE rb[i] = ra[i]
      OBVIOUS
    <2>1. rb[i] = b[n + m - i + 1] /\ ra[i] = a[m - i + 1]
      BY <1>1, <1>2
    <2>2. m - i + 1 \in 1 .. m /\ n + (m - i + 1) = n + m - i + 1
      BY <1>1, <1>3
    <2>3. b[n + (m - i + 1)] = a[m - i + 1]
      BY <1>1, <2>2
    <2>4. QED
      BY <2>1, <2>2, <2>3
  <1> HIDE DEF ra, rb, m, n
  <1>7. SubSeq(ra, 1, m) = SubSeq(rb, 1, m)
    <2>1. SubSeq(ra, 1, m) = [i \in 1 .. m |-> ra[i]]
      BY <1>1, <1>5
    <2>2. SubSeq(rb, 1, m) = [i \in 1 .. m |-> rb[i]]
      BY <1>1, <1>5
    <2>3. QED
      BY <1>6, <2>1, <2>2
  <1>8. Len(ra) <= Len(rb)
    BY <1>1, <1>5
  <1>9. IsPrefix(ra, rb)
    BY <1>5, <1>7, <1>8 DEF IsPrefix
  <1>10. QED
    BY <1>9 DEF IsSuffix, ra, rb, b

LEMMA EndsIn ==
    ASSUME NEW C, C \subseteq Char, NEW a \in Seq(Char), NEW b \in Seq(C), Ends(a, b)
    PROVE  a \in Seq(C) /\ IsSuffix(a, b)
  <1>1. PICK u \in Seq(Char) : b = u \o a
    BY DEF Ends
  <1>2. IsSuffix(a, b)
    BY <1>1, LastPart
  <1> DEFINE n == Len(u)
             m == Len(a)
  <1>3. Len(b) = n + m /\ n \in Nat /\ m \in Nat /\ \A i \in 1 .. m : b[n + i] = a[i]
    BY <1>1
  <1>4. \A i \in 1 .. m : b[n + i] \in C
    BY <1>3
  <1>5. a \in Seq(C)
    BY <1>3, <1>4
  <1>6. QED
    BY <1>2, <1>5

\* Pieces of characters of C put together are characters of C.
LEMMA PiecesFlatIn ==
    ASSUME NEW C, C \subseteq Ones, NEW ps \in Seq(Piece(C))
    PROVE  FlattenSeq(ps) \in Seq(C) /\ ps \in Seq(Piece(Ones))
  <1> DEFINE T == {u \in Seq(Piece(C)) : FlattenSeq(u) \in Seq(C)}
  <1>0. Seq(C) \subseteq Seq(Ones) /\ Piece(C) \subseteq Piece(Ones)
    <2>1. Seq(C) \subseteq Seq(Ones)
      BY SeqMonotonic
    <2>2. QED
      BY <2>1 DEF Piece
  <1>p. Seq(Piece(C)) \subseteq Seq(Piece(Ones))
    BY <1>0, SeqMonotonic
  <1>t. Piece(Ones) \subseteq Text
    BY PieceIs
  <1>s. Seq(Piece(Ones)) \subseteq Seq(Text)
    BY <1>t, SeqMonotonic
  <1>1. ASSUME NEW u \in T, NEW t \in Piece(C)
        PROVE  Append(u, t) \in T
    <2>1. u \in Seq(Piece(C)) /\ FlattenSeq(u) \in Seq(C) /\ Append(u, t) \in Seq(Piece(C))
      OBVIOUS
    <2>2. u \in Seq(Text) /\ t \in Text /\ t \in Seq(C)
      <3>1. t \in Seq(C)
        BY DEF Piece
      <3>2. QED
        BY <1>0, <1>p, <1>t, <1>s, <2>1, <3>1
    <2>3. FlattenSeq(Append(u, t)) = FlattenSeq(u) \o t
      BY <2>2, FlattenAppend
    <2>4. FlattenSeq(u) \o t \in Seq(C)
      BY <2>1, <2>2
    <2>5. QED
      BY <2>1, <2>3, <2>4
  <1>2. <<>> \in T
    <2>1. FlattenSeq(<<>>) = <<>>
      BY EmptySeq, TextIs, FlattenAppend
    <2>2. <<>> \in Seq(Piece(C))
      BY EmptySeq
    <2>3. <<>> \in Seq(C)
      BY EmptySeq
    <2>4. QED
      BY <2>1, <2>2, <2>3, Zenon
  <1>3. T \subseteq Seq(Piece(C))
    OBVIOUS
  <1> HIDE DEF T
  <1>4. Grows(T, Piece(C))
    BY <1>1, <1>2 DEF Grows
  <1>5. T = Seq(Piece(C))
    BY <1>3, <1>4, SeqInduct, Zenon
  <1>6. QED
    BY <1>5, <1>p DEF T

\* The heading read last, 0 before the first, and the characters that stand under a
\* heading.
Here      == IF headings = <<>> THEN 0 ELSE headings[Len(headings)][2]
In(h)     == {c \in Char : SectionOf(c.block) = h}
OnesIn(h) == In(h) \cap Ones
Title(h)  == {c \in Char : c.block = h}

\* The blocks of a document stand in the order they were read.
Ordered == \A i, j \in DOMAIN doc : i < j => doc[i].id < doc[j].id

\* The stack is the path to the heading read last.
StackOK ==
    /\ \A i \in DOMAIN headings :
         headings[i][2] \in HeadingIds /\ headings[i][1] = LevelOf(headings[i][2])
    /\ \A i, j \in DOMAIN headings :
         i < j => headings[i][1] < headings[j][1] /\ headings[i][2] < headings[j][2]
    /\ {headings[i][2] : i \in DOMAIN headings} = PathTo(Here)

HereOK == \A j \in DOMAIN doc : doc[j].type = "heading" => (doc[j].id <= Here <=> j <= at)

\* A chunk that belongs to section h, the overlap a chunk repeats of the last of ds,
\* and chunks that keep to their sections.
Belongs(d, h) ==
    /\ h \in Nat
    /\ Ink(d.overlap) \in Seq(In(h)) /\ Ink(d.body) \in Seq(In(h)) /\ d.prefix \in Seq(Title(h))
    /\ ToSet(d.path) = PathTo(h)
    /\ \A k, l \in DOMAIN d.path : k < l => d.path[k] < d.path[l]
Carries(o, ds) ==
    o # <<>> => /\ ds # <<>> /\ ds[Len(ds)].type = "text"
                /\ Ends(Ink(o), Ink(ds[Len(ds)].body))
Sectioned(ds) ==
    \A i \in DOMAIN ds :
        /\ \E h \in Nat : Belongs(ds[i], h)
        /\ Carries(ds[i].overlap, SubSeq(ds, 1, i - 1))

Fresh ==
    /\ doc = <<>> /\ headings = <<>> /\ pending = <<>> /\ pieces = <<>> /\ drafts = <<>>
    /\ prefix = <<>> /\ overlap = <<>>

\* What the builder holds belongs to the heading read last, and its overlap to the chunk
\* emitted last.
SectionInv ==
    /\ SizeInv
    /\ pc = "finalize" => Fresh
    /\ Ordered /\ StackOK /\ HereOK
    /\ pieces \in Seq(Piece(OnesIn(Here))) /\ pending \in Seq(Piece(OnesIn(Here)))
    /\ Ink(overlap) \in Seq(In(Here)) /\ prefix \in Seq(Title(Here))
    /\ Carries(overlap, drafts)
    /\ Sectioned(drafts)

LEMMA SameSections ==
    ASSUME UNCHANGED <<raw, doc>>
    PROVE  /\ HeadingIds' = HeadingIds /\ (Ordered <=> Ordered')
           /\ \A b : (SectionOf(b)' = SectionOf(b) /\ PathTo(b)' = PathTo(b) /\ LevelOf(b)' = LevelOf(b))
           /\ \A h : (In(h)' = In(h) /\ Title(h)' = Title(h) /\ OnesIn(h)' = OnesIn(h))
           /\ \A d, h : (Belongs(d, h)' <=> Belongs(d, h))
           /\ \A ds : (Sectioned(ds)' <=> Sectioned(ds))
           /\ \A o, ds : (Carries(o, ds)' <=> Carries(o, ds))
  <1>1. HeadingIds' = HeadingIds /\ (Ordered <=> Ordered')
    BY DEF HeadingIds, Ordered
  <1>2. \A b : LevelOf(b)' = LevelOf(b)
    BY DEF LevelOf
  <1>3. \A b : SectionOf(b)' = SectionOf(b)
    BY <1>1, Zenon DEF SectionOf
  <1>4. \A b : PathTo(b)' = PathTo(b)
    BY <1>1, <1>2, Zenon DEF PathTo
  <1>5. \A h : In(h)' = In(h)
    BY <1>3, Zenon DEF In
  <1>6. \A h : Title(h)' = Title(h) /\ OnesIn(h)' = OnesIn(h)
    BY <1>5, Zenon DEF Title, OnesIn
  <1>7. \A d, h : (Belongs(d, h)' <=> Belongs(d, h))
    BY <1>4, <1>5, <1>6, Zenon DEF Belongs
  <1>8. \A o, ds : (Carries(o, ds)' <=> Carries(o, ds))
    BY Zenon DEF Carries, Ends
  <1>9. \A ds : (Sectioned(ds)' <=> Sectioned(ds))
    BY <1>7, <1>8, Zenon DEF Sectioned
  <1>10. QED
    BY <1>1, <1>2, <1>3, <1>4, <1>6, <1>5, <1>7, <1>8, <1>9

\* Where the blocks stand: what follows a heading up to the next one is its section.
LEMMA HeadingsAre ==
    ASSUME RawOK, doc \in Seq(Blocks)
    PROVE  /\ \A j \in DOMAIN doc : doc[j].id \in 1 .. MaxBlocks /\ doc[j].level = LevelOf(doc[j].id)
           /\ \A h \in HeadingIds : \E j \in DOMAIN doc : doc[j].type = "heading" /\ h = doc[j].id
           /\ \A j \in DOMAIN doc : doc[j].type = "heading" => doc[j].id \in HeadingIds
           /\ HeadingIds \subseteq 1 .. MaxBlocks
           /\ \A j \in DOMAIN doc : doc[j].text \in Seq(CharOf(doc[j].id))
  <1>1. ASSUME NEW j \in DOMAIN doc
        PROVE  /\ doc[j].id \in 1 .. MaxBlocks /\ doc[j].level = LevelOf(doc[j].id)
               /\ doc[j].text \in Seq(CharOf(doc[j].id))
    <2>1. doc[j] \in Blocks
      OBVIOUS
    <2>2. PICK b \in Inked : doc[j] = Shown(b)
      BY <2>1 DEF Blocks
    <2>3. doc[j].id = b /\ doc[j].level = raw[b].level /\ doc[j].text \in Seq(CharOf(b))
      BY <2>2, BlockIs
    <2>4. doc[j].id \in 1 .. MaxBlocks
      BY <2>1, BlockIsAt
    <2>5. QED
      BY <2>3, <2>4, Zenon DEF LevelOf
  <1>2. \A h \in HeadingIds : \E j \in DOMAIN doc : doc[j].type = "heading" /\ h = doc[j].id
    BY DEF HeadingIds
  <1>3. \A j \in DOMAIN doc : doc[j].type = "heading" => doc[j].id \in HeadingIds
    BY DEF HeadingIds
  <1>4. HeadingIds \subseteq 1 .. MaxBlocks
    BY <1>1, <1>2
  <1>5. QED
    BY <1>1, <1>2, <1>3, <1>4

LEMMA HereIs ==
    ASSUME RawOK, doc \in Seq(Blocks), headings \in Seq(Nat \X (1 .. MaxBlocks)), StackOK
    PROVE  Here \in 0 .. MaxBlocks /\ (Here # 0 => Here \in HeadingIds)
  <1>0. MaxBlocks \in Nat
    BY ConstantsAssumption
  <1>1. CASE headings = <<>>
    BY <1>0, <1>1 DEF Here
  <1>2. CASE headings # <<>>
    <2>1. Len(headings) \in DOMAIN headings
      BY <1>2
    <2>2. Here = headings[Len(headings)][2]
      BY <1>2 DEF Here
    <2>3. Here \in HeadingIds
      BY <2>1, <2>2 DEF StackOK
    <2>4. HeadingIds \subseteq 1 .. MaxBlocks
      BY HeadingsAre
    <2>5. QED
      BY <1>0, <2>3, <2>4
  <1>3. QED
    BY <1>1, <1>2

\* A heading was read before the next block exactly when it is not after the last one.
LEMMA ReadIs ==
    ASSUME RawOK, doc \in Seq(Blocks), headings \in Seq(Nat \X (1 .. MaxBlocks)),
           Ordered, StackOK, HereOK, at \in Nat, at + 1 \in DOMAIN doc
    PROVE  /\ Here < doc[at + 1].id
           /\ \A h \in HeadingIds : h <= doc[at + 1].id =>
                h <= Here \/ (h = doc[at + 1].id /\ doc[at + 1].type = "heading")
  <1> DEFINE x == doc[at + 1].id
  <1>0. DOMAIN doc = 1 .. Len(doc) /\ Len(doc) \in Nat
    OBVIOUS
  <1>1. /\ \A j \in DOMAIN doc : doc[j].id \in 1 .. MaxBlocks
        /\ \A h \in HeadingIds : \E j \in DOMAIN doc : doc[j].type = "heading" /\ h = doc[j].id
    BY HeadingsAre
  <1>2. x \in 1 .. MaxBlocks /\ MaxBlocks \in Nat
    BY <1>1, ConstantsAssumption
  <1>3. Here \in 0 .. MaxBlocks /\ (Here # 0 => Here \in HeadingIds)
    BY HereIs
  <1>4. Here < x
    <2>1. CASE Here = 0
      BY <1>2, <2>1
    <2>2. CASE Here # 0
      <3>1. PICK j \in DOMAIN doc : doc[j].type = "heading" /\ Here = doc[j].id
        BY <1>1, <1>3, <2>2
      <3>2. Here <= Here
        BY <1>3
      <3>3. j <= at
        BY <3>1, <3>2 DEF HereOK
      <3>4. j < at + 1
        BY <1>0, <3>1, <3>3
      <3>5. doc[j].id < x
        BY <3>1, <3>4 DEF Ordered
      <3>6. QED
        BY <3>1, <3>5
    <2>3. QED
      BY <2>1, <2>2
  <1>5. ASSUME NEW h \in HeadingIds, h <= x
        PROVE  h <= Here \/ (h = x /\ doc[at + 1].type = "heading")
    <2>1. PICK j \in DOMAIN doc : doc[j].type = "heading" /\ h = doc[j].id
      BY <1>1
    <2>2. CASE j <= at
      BY <2>1, <2>2 DEF HereOK
    <2>3. CASE j = at + 1
      BY <2>1, <2>3
    <2>4. CASE ~(j <= at) /\ j # at + 1
      <3>1. at + 1 < j
        BY <1>0, <2>1, <2>4
      <3>2. x < doc[j].id
        BY <2>1, <3>1 DEF Ordered
      <3>3. QED
        BY <1>1, <1>2, <1>5, <2>1, <3>2
    <2>5. QED
      BY <2>2, <2>3, <2>4
  <1>6. QED
    BY <1>4, <1>5

\* A block that is not a heading stands under the heading read last.
LEMMA NextIsHere ==
    ASSUME RawOK, doc \in Seq(Blocks), headings \in Seq(Nat \X (1 .. MaxBlocks)),
           Ordered, StackOK, HereOK, at \in Nat, at + 1 \in DOMAIN doc,
           doc[at + 1].type # "heading"
    PROVE  doc[at + 1].text \in Seq(In(Here))
  <1> DEFINE x == doc[at + 1].id
             T == {0} \cup {h \in HeadingIds : h <= x}
  <1>1. x \in 1 .. MaxBlocks /\ MaxBlocks \in Nat /\ HeadingIds \subseteq 1 .. MaxBlocks
        /\ doc[at + 1].text \in Seq(CharOf(x))
    BY HeadingsAre, ConstantsAssumption
  <1>2. Here \in 0 .. MaxBlocks /\ (Here # 0 => Here \in HeadingIds)
    BY HereIs
  <1>3. Here < x /\ \A h \in HeadingIds : h <= x => h <= Here
    BY ReadIs
  <1> HIDE DEF x
  <1>4. T \in SUBSET (0 .. MaxBlocks) /\ 0 \in T
    <2>1. 0 \in 0 .. MaxBlocks /\ \A h \in HeadingIds : h \in 0 .. MaxBlocks
      BY <1>1
    <2>2. \A h \in T : h \in 0 .. MaxBlocks
      BY <2>1
    <2>3. QED
      BY <2>2
  <1>5. Here \in T /\ \A h \in T : h <= Here
    BY <1>1, <1>2, <1>3
  <1>6. SectionOf(x) = Max(T)
    BY DEF SectionOf
  <1> HIDE DEF T
  <1>7. Max(T) \in T /\ \A y \in T : y <= Max(T)
    BY <1>1, <1>4, MaxIs
  <1>8. Max(T) = Here
    <2>1. Max(T) <= Here /\ Here <= Max(T)
      BY <1>5, <1>7
    <2>2. Max(T) \in 0 .. MaxBlocks
      BY <1>4, <1>7
    <2>3. QED
      BY <1>2, <2>1, <2>2
  <1>9. CharOf(x) \subseteq In(Here)
    BY <1>6, <1>8 DEF CharOf, In
  <1>10. QED
    BY <1>1, <1>9, SeqMonotonic

\* The headings of a chunk are the path to its section.
LEMMA PathOfHere ==
    ASSUME headings \in Seq(Nat \X (1 .. MaxBlocks)), StackOK
    PROVE  ToSet(Path) = PathTo(Here) /\ \A k, l \in DOMAIN Path : k < l => Path[k] < Path[l]
  <1>1. DOMAIN Path = DOMAIN headings /\ \A i \in DOMAIN headings : Path[i] = headings[i][2]
    BY DEF Path
  <1>2. ToSet(Path) = {headings[i][2] : i \in DOMAIN headings}
    BY <1>1 DEF ToSet
  <1>3. QED
    BY <1>1, <1>2 DEF StackOK

\* The stack after a heading is the path to it.
LEMMA PushIs ==
    ASSUME RawOK, doc \in Seq(Blocks), headings \in Seq(Nat \X (1 .. MaxBlocks)),
           Ordered, StackOK, HereOK, at \in Nat, at + 1 \in DOMAIN doc,
           doc[at + 1].type = "heading",
           NEW new, new = Append(Outer(doc[at + 1].level), <<doc[at + 1].level, doc[at + 1].id>>)
    PROVE  /\ new # <<>> /\ new[Len(new)][2] = doc[at + 1].id
           /\ \A i \in DOMAIN new : new[i][2] \in HeadingIds /\ new[i][1] = LevelOf(new[i][2])
           /\ \A i, j \in DOMAIN new : i < j => new[i][1] < new[j][1] /\ new[i][2] < new[j][2]
           /\ {new[i][2] : i \in DOMAIN new} = PathTo(doc[at + 1].id)
  <1> DEFINE x == doc[at + 1].id
             l == doc[at + 1].level
  <1>1. /\ x \in 1 .. MaxBlocks /\ l = LevelOf(x) /\ x \in HeadingIds
        /\ HeadingIds \subseteq 1 .. MaxBlocks /\ MaxBlocks \in Nat
    BY HeadingsAre, ConstantsAssumption
  <1>l. l \in Nat
    <2>1. doc[at + 1] \in Blocks
      OBVIOUS
    <2>2. QED
      BY <2>1, BlockIsAt
  <1>2. Here < x /\ \A h \in HeadingIds : h <= x => h <= Here \/ h = x
    BY ReadIs
  <1>3. Here \in 0 .. MaxBlocks
    BY HereIs
  <1> HIDE DEF x, l
  <1>4. PICK k \in 0 .. Len(headings) :
          /\ Outer(l) = SubSeq(headings, 1, k)
          /\ k # 0 => headings[k][1] < l
          /\ \A i \in DOMAIN headings : headings[i][1] < l => i <= k
    BY OuterIs
  <1>5. Len(headings) \in Nat /\ DOMAIN headings = 1 .. Len(headings) /\ k \in Nat
    OBVIOUS
  <1>6. /\ \A i \in DOMAIN headings : headings[i][1] \in Nat /\ headings[i][2] \in 1 .. MaxBlocks
        /\ \A i \in DOMAIN headings : headings[i][2] \in HeadingIds /\ headings[i][1] = LevelOf(headings[i][2])
        /\ \A i, j \in DOMAIN headings :
             i < j => headings[i][1] < headings[j][1] /\ headings[i][2] < headings[j][2]
    <2>1. \A i \in DOMAIN headings : headings[i][1] \in Nat /\ headings[i][2] \in 1 .. MaxBlocks
      OBVIOUS
    <2>2. QED
      BY <2>1 DEF StackOK
  <1>7. /\ DOMAIN new = 1 .. k + 1 /\ Len(new) = k + 1 /\ new[k + 1] = <<l, x>>
        /\ \A i \in 1 .. k : new[i] = headings[i]
    <2> DEFINE o == SubSeq(headings, 1, k)
    <2>1. o \in Seq(Nat \X (1 .. MaxBlocks)) /\ Len(o) = k /\ \A i \in 1 .. k : o[i] = headings[i]
      BY <1>5
    <2> DEFINE y == <<l, x>>
    <2>2. new = Append(o, y)
      BY <1>4 DEF x, l
    <2>3. y \in Nat \X (1 .. MaxBlocks)
      BY <1>1, <1>l
    <2> HIDE DEF o, y
    <2>4. /\ Append(o, y) \in Seq(Nat \X (1 .. MaxBlocks)) /\ Len(Append(o, y)) = k + 1
          /\ Append(o, y)[k + 1] = y /\ \A i \in 1 .. k : Append(o, y)[i] = o[i]
      BY <1>5, <2>1, <2>3, AppendProperties
    <2>5. DOMAIN new = 1 .. k + 1
      BY <1>5, <2>2, <2>4
    <2>6. QED
      BY <2>1, <2>2, <2>4, <2>5 DEF y
  <1>8. \A i \in 1 .. k : i \in DOMAIN headings /\ headings[i][1] < l
    <2> SUFFICES ASSUME NEW i \in 1 .. k PROVE i \in DOMAIN headings /\ headings[i][1] < l
      OBVIOUS
    <2>1. i \in DOMAIN headings /\ k \in DOMAIN headings /\ k # 0
      BY <1>5
    <2>2. CASE i = k
      BY <1>4, <2>1, <2>2
    <2>3. CASE i # k
      <3>1. i < k
        BY <1>5, <2>3
      <3>2. headings[i][1] < headings[k][1] /\ headings[k][1] < l
        BY <1>4, <1>6, <2>1, <3>1
      <3>3. headings[i][1] \in Nat /\ headings[k][1] \in Nat
        BY <1>6, <2>1
      <3> DEFINE p == headings[i][1]
                 q == headings[k][1]
      <3>4. p < q /\ q < l /\ p \in Nat /\ q \in Nat /\ l \in Nat
        BY <1>l, <3>2, <3>3
      <3> HIDE DEF p, q
      <3>5. p < l
        BY <3>4
      <3>6. QED
        BY <2>1, <3>5 DEF p
    <2>4. QED
      BY <2>2, <2>3
  <1>9. \A i \in DOMAIN headings : headings[i][2] \in PathTo(Here)
    BY DEF StackOK
  <1>10. \A i \in DOMAIN headings : headings[i][2] < x
    <2> SUFFICES ASSUME NEW i \in DOMAIN headings PROVE headings[i][2] < x
      OBVIOUS
    <2>1. headings[i][2] <= Here
      BY <1>9 DEF PathTo
    <2>2. QED
      BY <1>1, <1>2, <1>3, <1>6, <2>1
  <1>11. \A i \in DOMAIN new : new[i][2] \in HeadingIds /\ new[i][1] = LevelOf(new[i][2])
    <2> SUFFICES ASSUME NEW i \in DOMAIN new
                 PROVE  new[i][2] \in HeadingIds /\ new[i][1] = LevelOf(new[i][2])
      OBVIOUS
    <2>1. CASE i \in 1 .. k
      BY <1>6, <1>7, <1>8, <2>1
    <2>2. CASE i = k + 1
      <3>1. new[i][1] = l /\ new[i][2] = x
        BY <1>7, <2>2
      <3>2. QED
        BY <1>1, <3>1
    <2>3. QED
      BY <1>5, <1>7, <2>1, <2>2
  <1>12. \A i, j \in DOMAIN new : i < j => new[i][1] < new[j][1] /\ new[i][2] < new[j][2]
    <2> SUFFICES ASSUME NEW i \in DOMAIN new, NEW j \in DOMAIN new, i < j
                 PROVE  new[i][1] < new[j][1] /\ new[i][2] < new[j][2]
      OBVIOUS
    <2>1. i \in 1 .. k /\ new[i] = headings[i] /\ i \in DOMAIN headings
      BY <1>5, <1>7, <1>8
    <2>2. CASE j \in 1 .. k
      <3>1. new[j] = headings[j] /\ j \in DOMAIN headings
        BY <1>7, <1>8, <2>2
      <3>2. QED
        BY <1>6, <2>1, <3>1
    <2>3. CASE j = k + 1
      <3>1. new[j][1] = l /\ new[j][2] = x
        BY <1>7, <2>3
      <3>2. headings[i][1] < l /\ headings[i][2] < x
        BY <1>8, <1>10, <2>1
      <3>3. QED
        BY <2>1, <3>1, <3>2
    <2>4. j \in 1 .. k \/ j = k + 1
      <3>1. j \in 1 .. k + 1
        BY <1>7
      <3>2. QED
        BY <1>5, <3>1
    <2>5. QED
      BY <2>2, <2>3, <2>4
  <1>13. \A g \in HeadingIds : g \in PathTo(x) <=>
           (g = x \/ (g \in PathTo(Here) /\ LevelOf(g) < l))
    <2> SUFFICES ASSUME NEW g \in HeadingIds
                 PROVE  g \in PathTo(x) <=> (g = x \/ (g \in PathTo(Here) /\ LevelOf(g) < l))
      OBVIOUS
    <2>0. g \in 1 .. MaxBlocks /\ \A e \in HeadingIds : e \in 1 .. MaxBlocks
      BY <1>1
    <2>1. ASSUME g = x
          PROVE  g \in PathTo(x)
      <3>1. \A e \in HeadingIds : ~(g < e /\ e <= x)
        BY <1>1, <2>0, <2>1
      <3>2. g <= x
        BY <1>1, <2>1
      <3>3. QED
        BY <3>1, <3>2 DEF PathTo
    <2>2. ASSUME g \in PathTo(Here), LevelOf(g) < l
          PROVE  g \in PathTo(x)
      <3>1. g <= Here /\ \A e \in HeadingIds : g < e /\ e <= Here => LevelOf(e) > LevelOf(g)
        BY <2>2 DEF PathTo
      <3>2. g <= x
        BY <1>1, <1>2, <1>3, <2>0, <3>1
      <3>3. ASSUME NEW e \in HeadingIds, g < e, e <= x
            PROVE  LevelOf(e) > LevelOf(g)
        <4>1. CASE e <= Here
          BY <3>1, <3>3, <4>1
        <4>2. CASE e = x
          BY <1>1, <2>2, <4>2
        <4>3. QED
          BY <1>2, <3>3, <4>1, <4>2
      <3>4. QED
        BY <3>2, <3>3 DEF PathTo
    <2>3. ASSUME g \in PathTo(x), g # x
          PROVE  g \in PathTo(Here) /\ LevelOf(g) < l
      <3>1. g <= x /\ \A e \in HeadingIds : g < e /\ e <= x => LevelOf(e) > LevelOf(g)
        BY <2>3 DEF PathTo
      <3>2. g <= Here /\ g < x /\ x <= x
        BY <1>1, <1>2, <2>0, <2>3, <3>1
      <3>3. LevelOf(x) > LevelOf(g)
        BY <1>1, <3>1, <3>2
      <3>4. \A e \in HeadingIds : g < e /\ e <= Here => LevelOf(e) > LevelOf(g)
        <4> SUFFICES ASSUME NEW e \in HeadingIds, g < e, e <= Here PROVE LevelOf(e) > LevelOf(g)
          OBVIOUS
        <4>1. e <= x
          BY <1>1, <1>2, <1>3, <2>0
        <4>2. QED
          BY <3>1, <4>1
      <3>5. QED
        BY <1>1, <3>2, <3>3, <3>4 DEF PathTo
    <2>4. QED
      BY <2>1, <2>2, <2>3
  <1>14. ASSUME NEW g
         PROVE  g \in {new[i][2] : i \in DOMAIN new} <=> g \in PathTo(x)
    <2>1. ASSUME NEW i \in DOMAIN new, g = new[i][2]
          PROVE  g \in PathTo(x)
      <3>1. g \in HeadingIds
        BY <1>11, <2>1
      <3>2. CASE i = k + 1
        <4>1. g = x
          BY <1>7, <2>1, <3>2
        <4>2. QED
          BY <1>13, <3>1, <4>1
      <3>3. CASE i \in 1 .. k
        <4>1. g = headings[i][2] /\ i \in DOMAIN headings /\ headings[i][1] < l
          BY <1>7, <1>8, <2>1, <3>3
        <4>2. g \in PathTo(Here) /\ LevelOf(g) < l
          BY <1>6, <1>9, <4>1
        <4>3. QED
          BY <1>13, <3>1, <4>2
      <3>4. i \in 1 .. k + 1
        BY <1>7
      <3>5. i = k + 1 \/ i \in 1 .. k
        BY <1>5, <3>4
      <3>6. QED
        BY <3>2, <3>3, <3>5, Zenon
    <2>2. ASSUME g \in PathTo(x)
          PROVE  \E i \in DOMAIN new : g = new[i][2]
      <3>1. g \in HeadingIds
        BY <2>2 DEF PathTo
      <3>2. CASE g = x
        <4>1. k + 1 \in DOMAIN new /\ new[k + 1][2] = x
          BY <1>5, <1>7
        <4>2. QED
          BY <3>2, <4>1
      <3>3. CASE g # x
        <4>1. g \in PathTo(Here) /\ LevelOf(g) < l
          BY <1>13, <2>2, <3>1, <3>3
        <4>2. PICK i \in DOMAIN headings : g = headings[i][2]
          BY <4>1 DEF StackOK
        <4>3. headings[i][1] < l
          BY <1>6, <4>1, <4>2
        <4>4. i \in 1 .. k
          BY <1>4, <1>5, <4>3
        <4>5. i \in DOMAIN new /\ new[i] = headings[i]
          BY <1>5, <1>7, <4>4
        <4>6. QED
          BY <4>2, <4>5
      <3>4. QED
        BY <3>2, <3>3
    <2>3. QED
      BY <2>1, <2>2
  <1>15. {new[i][2] : i \in DOMAIN new} = PathTo(x)
    BY <1>14
  <1>16. new # <<>> /\ new[Len(new)][2] = x
    <2>1. new # <<>>
      BY <1>5, <1>7
    <2>2. <<l, x>>[2] = x
      OBVIOUS
    <2>3. QED
      BY <1>7, <2>1, <2>2
  <1>17. QED
    BY <1>11, <1>12, <1>15, <1>16 DEF x

\* Chunks that keep to their sections still do after one more of some section.
LEMMA SectionedAppend ==
    ASSUME NEW S, NEW ds \in Seq(S), NEW d \in S, Sectioned(ds), NEW h \in Nat, Belongs(d, h),
           Carries(d.overlap, ds)
    PROVE  Sectioned(Append(ds, d))
  <1> DEFINE n == Len(ds)
             e == Append(ds, d)
  <1>1. /\ n \in Nat /\ DOMAIN ds = 1 .. n /\ DOMAIN e = 1 .. n + 1
        /\ e[n + 1] = d /\ \A i \in 1 .. n : e[i] = ds[i]
    OBVIOUS
  <1>2. ASSUME NEW i \in 1 .. n + 1
        PROVE  SubSeq(e, 1, i - 1) = SubSeq(ds, 1, i - 1)
    <2>1. i - 1 \in 0 .. n /\ e \in Seq(S) /\ Len(e) = n + 1
      BY <1>1
    <2>2. SubSeq(e, 1, i - 1) = [j \in 1 .. i - 1 |-> e[j]]
      BY <2>1
    <2>3. SubSeq(ds, 1, i - 1) = [j \in 1 .. i - 1 |-> ds[j]]
      BY <2>1
    <2>4. \A j \in 1 .. i - 1 : e[j] = ds[j]
      BY <1>1, <2>1
    <2>5. QED
      BY <2>2, <2>3, <2>4
  <1>3. SubSeq(ds, 1, n) = ds
    OBVIOUS
  <1> HIDE DEF e
  <1>4. ASSUME NEW i \in DOMAIN e
        PROVE  /\ \E g \in Nat : Belongs(e[i], g)
               /\ Carries(e[i].overlap, SubSeq(e, 1, i - 1))
    <2>1. CASE i \in 1 .. n
      <3>1. i \in DOMAIN ds /\ e[i] = ds[i] /\ SubSeq(e, 1, i - 1) = SubSeq(ds, 1, i - 1)
        BY <1>1, <1>2, <1>4, <2>1
      <3>2. /\ \E g \in Nat : Belongs(ds[i], g)
            /\ Carries(ds[i].overlap, SubSeq(ds, 1, i - 1))
        BY <3>1, Zenon DEF Sectioned
      <3>3. QED
        BY <3>1, <3>2, Zenon
    <2>2. CASE i = n + 1
      <3>1. i - 1 = n
        BY <1>1, <2>2
      <3>2. e[i] = d /\ SubSeq(e, 1, i - 1) = ds
        BY <1>1, <1>2, <1>3, <1>4, <2>2, <3>1
      <3>3. QED
        BY <3>2, Zenon
    <2>3. QED
      BY <1>1, <1>4, <2>1, <2>2
  <1>5. Sectioned(e)
    BY <1>4, Zenon DEF Sectioned
  <1>6. QED
    BY <1>5 DEF e

\* The same for several that repeat nothing.
LEMMA SectionedConcat ==
    ASSUME NEW S, NEW ds \in Seq(S), NEW es \in Seq(S), Sectioned(ds), NEW h \in Nat,
           \A i \in DOMAIN es : Belongs(es[i], h) /\ es[i].overlap = <<>>
    PROVE  Sectioned(ds \o es)
  <1> DEFINE n == Len(ds)
             m == Len(es)
             e == ds \o es
  <1>1. /\ n \in Nat /\ m \in Nat /\ DOMAIN ds = 1 .. n /\ DOMAIN es = 1 .. m
        /\ e \in Seq(S) /\ Len(e) = n + m /\ DOMAIN e = 1 .. n + m
        /\ \A i \in 1 .. n : e[i] = ds[i]
    OBVIOUS
  <1>2. \A i \in 1 .. m : e[n + i] = es[i]
    OBVIOUS
  <1> HIDE DEF e
  <1>3. ASSUME NEW i \in 1 .. n
        PROVE  SubSeq(e, 1, i - 1) = SubSeq(ds, 1, i - 1)
    <2>1. i - 1 \in 0 .. n
      BY <1>1
    <2>2. SubSeq(e, 1, i - 1) = [j \in 1 .. i - 1 |-> e[j]]
      BY <1>1, <2>1
    <2>3. SubSeq(ds, 1, i - 1) = [j \in 1 .. i - 1 |-> ds[j]]
      BY <2>1
    <2>4. \A j \in 1 .. i - 1 : e[j] = ds[j]
      BY <1>1, <2>1
    <2>5. QED
      BY <2>2, <2>3, <2>4
  <1>4. ASSUME NEW i \in DOMAIN e
        PROVE  /\ \E g \in Nat : Belongs(e[i], g)
               /\ Carries(e[i].overlap, SubSeq(e, 1, i - 1))
    <2>1. CASE i \in 1 .. n
      <3>1. i \in DOMAIN ds /\ e[i] = ds[i] /\ SubSeq(e, 1, i - 1) = SubSeq(ds, 1, i - 1)
        BY <1>1, <1>3, <2>1
      <3>2. /\ \E g \in Nat : Belongs(ds[i], g)
            /\ Carries(ds[i].overlap, SubSeq(ds, 1, i - 1))
        BY <3>1, Zenon DEF Sectioned
      <3>3. QED
        BY <3>1, <3>2, Zenon
    <2>2. CASE i \notin 1 .. n
      <3> DEFINE j == i - n
      <3>1. j \in 1 .. m /\ n + j = i
        BY <1>1, <1>4, <2>2
      <3> HIDE DEF j
      <3>2. e[i] = es[j] /\ j \in DOMAIN es
        BY <1>1, <1>2, <3>1
      <3>3. Belongs(es[j], h) /\ es[j].overlap = <<>>
        BY <3>2
      <3>4. Carries(es[j].overlap, SubSeq(e, 1, i - 1))
        BY <3>3, Zenon DEF Carries
      <3>5. QED
        BY <3>2, <3>3, <3>4, Zenon
    <2>3. QED
      BY <2>1, <2>2
  <1>5. Sectioned(e)
    BY <1>4, Zenon DEF Sectioned
  <1>6. QED
    BY <1>5 DEF e

\* The chunk that flush makes belongs to the section, and what it leaves for the next
\* chunk to repeat is its own end.
LEMMA FlushSections ==
    ASSUME SectionInv
    PROVE  /\ Sectioned(FlushedDrafts)
           /\ Ink(FlushedOverlap) \in Seq(In(Here)) /\ FlushedPrefix \in Seq(Title(Here))
           /\ Carries(FlushedOverlap, FlushedDrafts)
  <1>0. /\ SizeInv /\ StackOK /\ pending \in Seq(Piece(OnesIn(Here)))
        /\ headings \in Seq(Nat \X (1 .. MaxBlocks)) /\ RawOK /\ doc \in Seq(Blocks)
        /\ Ink(overlap) \in Seq(In(Here)) /\ prefix \in Seq(Title(Here))
        /\ Carries(overlap, drafts) /\ Sectioned(drafts) /\ drafts \in Seq(Drafts)
        /\ pending \in Seq(Piece(Ones)) /\ TokensOf(pending) <= Target
    BY DEF SectionInv, SizeInv, VectorsInv
  <1>1. CASE pending = <<>>
    <2>1. FlushedDrafts = drafts /\ FlushedPrefix = prefix /\ FlushedOverlap = overlap
      BY <1>1 DEF FlushedDrafts, FlushedPrefix, FlushedOverlap
    <2>2. QED
      BY <1>0, <2>1, Zenon
  <1>2. CASE pending # <<>>
    <2> DEFINE d == TextDraft
               b == Join(pending)
               o == TailWithin(b)
    <2>1. FlushedDrafts = Append(drafts, d) /\ FlushedPrefix = <<>> /\ FlushedOverlap = o
      BY <1>2 DEF FlushedDrafts, FlushedPrefix, FlushedOverlap, TextDraft
    <2>2. d \in Drafts
      BY <1>0, <1>2, TextDraftIs
    <2>3. /\ d.type = "text" /\ d.overlap = overlap /\ d.prefix = prefix /\ d.body = b
          /\ d.path = Path
      BY DEF TextDraft, Draft, Path
    <2>4. Here \in Nat
      BY <1>0, HereIs, ConstantsAssumption
    <2>5. b \in Text /\ Ink(b) = FlattenSeq(pending)
      BY <1>0, JoinedBody
    <2>6. FlattenSeq(pending) \in Seq(In(Here))
      <3>1. OnesIn(Here) \subseteq Ones /\ OnesIn(Here) \subseteq In(Here)
        BY DEF OnesIn
      <3>2. FlattenSeq(pending) \in Seq(OnesIn(Here))
        BY <1>0, <3>1, PiecesFlatIn
      <3>3. QED
        BY <3>1, <3>2, SeqMonotonic
    <2>7. ToSet(Path) = PathTo(Here) /\ \A k, l \in DOMAIN Path : k < l => Path[k] < Path[l]
      BY <1>0, PathOfHere
    <2> HIDE DEF d, b
    <2>8. Belongs(d, Here)
      BY <1>0, <2>3, <2>4, <2>5, <2>6, <2>7, Zenon DEF Belongs
    <2>9. Carries(d.overlap, drafts)
      BY <1>0, <2>3, Zenon
    <2>10. Sectioned(Append(drafts, d))
      BY <1>0, <2>2, <2>4, <2>8, <2>9, SectionedAppend
    <2>11. o \in Text /\ Ends(Ink(o), Ink(b))
      BY <2>5, TailIs
    <2> HIDE DEF o
    <2>12. Ink(o) \in Seq(In(Here))
      <3>1. Ink(o) \in Seq(Char) /\ Ink(b) \in Seq(In(Here)) /\ In(Here) \subseteq Char
        BY <2>5, <2>6, <2>11, InkIs DEF In
      <3>2. QED
        BY <2>11, <3>1, EndsIn
    <2>13. Carries(o, Append(drafts, d))
      <3> DEFINE e == Append(drafts, d)
      <3>1. e # <<>> /\ e[Len(e)] = d
        <4>1. /\ e \in Seq(Drafts) /\ Len(e) = Len(drafts) + 1 /\ e[Len(drafts) + 1] = d
              /\ Len(drafts) \in Nat
          BY <1>0, <2>2, AppendProperties
        <4> HIDE DEF e
        <4>2. QED
          BY <4>1
      <3> HIDE DEF e
      <3>2. e[Len(e)].type = "text" /\ Ends(Ink(o), Ink(e[Len(e)].body))
        BY <2>3, <2>11, <3>1, Zenon
      <3>3. Carries(o, e)
        BY <3>1, <3>2, Zenon DEF Carries
      <3>4. QED
        BY <3>3 DEF e
    <2>14. <<>> \in Seq(Title(Here))
      BY EmptySeq
    <2>15. QED
      BY <2>1, <2>10, <2>12, <2>13, <2>14, Zenon
  <1>3. QED
    BY <1>1, <1>2

LEMMA PartsIn ==
    ASSUME NEW S, NEW s \in Seq(S), NEW t \in Seq(S), NEW C, s \o t \in Seq(C)
    PROVE  s \in Seq(C) /\ t \in Seq(C)
  <1> DEFINE e == s \o t
             n == Len(s)
             m == Len(t)
  <1>1. /\ n \in Nat /\ m \in Nat /\ Len(e) = n + m
        /\ \A i \in 1 .. n : e[i] = s[i]
        /\ \A i \in 1 .. m : e[n + i] = t[i]
    OBVIOUS
  <1>2. e \in Seq(C)
    OBVIOUS
  <1> HIDE DEF e
  <1>3. \A i \in 1 .. n + m : e[i] \in C
    BY <1>1, <1>2
  <1>4. \A i \in 1 .. n : s[i] \in C
    BY <1>1, <1>3
  <1>5. \A i \in 1 .. m : t[i] \in C
    BY <1>1, <1>3
  <1>6. QED
    BY <1>1, <1>4, <1>5

\* Texts that make up a text of characters of C consist of them.
LEMMA FlattenParts ==
    ASSUME NEW C, NEW ts \in Seq(Text), FlattenSeq(ts) \in Seq(C)
    PROVE  \A i \in DOMAIN ts : ts[i] \in Seq(C)
  <1> DEFINE T == {u \in Seq(Text) :
                     FlattenSeq(u) \in Seq(C) => \A i \in DOMAIN u : u[i] \in Seq(C)}
  <1>1. ASSUME NEW u \in T, NEW t \in Text
        PROVE  Append(u, t) \in T
    <2> DEFINE v == Append(u, t)
               n == Len(u)
    <2>1. /\ u \in Seq(Text) /\ (FlattenSeq(u) \in Seq(C) => \A i \in DOMAIN u : u[i] \in Seq(C))
          /\ v \in Seq(Text)
      OBVIOUS
    <2>2. FlattenSeq(v) = FlattenSeq(u) \o t /\ FlattenSeq(u) \in Seq(Sign) /\ t \in Seq(Sign)
      BY <2>1, FlattenAppend, TextIs
    <2>3. /\ n \in Nat /\ DOMAIN u = 1 .. n /\ DOMAIN v = 1 .. n + 1
          /\ v[n + 1] = t /\ \A i \in 1 .. n : v[i] = u[i]
      BY <2>1
    <2> HIDE DEF v
    <2>4. ASSUME FlattenSeq(v) \in Seq(C), NEW i \in DOMAIN v
          PROVE  v[i] \in Seq(C)
      <3>1. FlattenSeq(u) \in Seq(C) /\ t \in Seq(C)
        BY <2>2, <2>4, PartsIn
      <3>2. CASE i \in 1 .. n
        BY <2>1, <2>3, <3>1, <3>2
      <3>3. CASE i = n + 1
        BY <2>3, <3>1, <3>3
      <3>4. QED
        BY <2>3, <2>4, <3>2, <3>3
    <2>5. v \in T
      BY <2>1, <2>4
    <2>6. QED
      BY <2>5 DEF v
  <1>2. <<>> \in T
    <2>1. <<>> \in Seq(Text) /\ DOMAIN <<>> = {}
      OBVIOUS
    <2>2. QED
      BY <2>1
  <1>3. T \subseteq Seq(Text)
    OBVIOUS
  <1> HIDE DEF T
  <1>4. Grows(T, Text)
    BY <1>1, <1>2 DEF Grows
  <1>5. T = Seq(Text)
    BY <1>3, <1>4, SeqInduct, Zenon
  <1>6. QED
    BY <1>5 DEF T

\* The chunks of a table belong to its section.
LEMMA TableSections ==
    ASSUME RawOK, doc \in Seq(Blocks), headings \in Seq(Nat \X (1 .. MaxBlocks)), StackOK,
           NEW rows \in Seq(In(Here)), rows # <<>>
    PROVE  \A i \in DOMAIN TableDrafts(rows) :
             Belongs(TableDrafts(rows)[i], Here) /\ TableDrafts(rows)[i].overlap = <<>>
  <1> DEFINE ds == TableDrafts(rows)
             groups == PackTable(rows)
             h == Here
  <1>0. In(h) \subseteq Char /\ rows \in Seq(Char)
    <2>1. In(h) \subseteq Char
      BY DEF In
    <2>2. QED
      BY <2>1, SeqMonotonic
  <1>1. /\ ds \in Seq(Drafts) /\ Len(ds) = Len(groups)
        /\ \A i \in DOMAIN ds :
             ds[i].overlap = <<>> /\ ds[i].prefix = <<>> /\ ds[i].body = groups[i] /\ ds[i].path = Path
    BY <1>0, TableDraftsAre
  <1>2. groups \in Seq(Text) /\ FlattenSeq(groups) \in Seq(In(h))
    <2>1. groups \in Seq(Text)
      <3>1. groups \in Seq(Group(rows[1]))
        BY <1>0, PackTableType
      <3>2. Group(rows[1]) \subseteq Text
        BY TextIs DEF Group
      <3>3. QED
        BY <3>1, <3>2, SeqMonotonic
    <2>2. FlattenSeq(groups) = IF Len(rows) > 1 THEN Tail(rows) ELSE rows
      BY <1>0, PackTableKeeps
    <2> HIDE DEF groups, h
    <2>3. rows \in Seq(In(h)) /\ Tail(rows) \in Seq(In(h))
      BY DEF h
    <2>4. QED
      BY <2>1, <2>2, <2>3
  <1>3. h \in Nat
    BY HereIs, ConstantsAssumption
  <1>4. ToSet(Path) = PathTo(h) /\ \A k, l \in DOMAIN Path : k < l => Path[k] < Path[l]
    BY PathOfHere
  <1> HIDE DEF groups, h, ds
  <1>5. ASSUME NEW i \in DOMAIN ds
        PROVE  Belongs(ds[i], h) /\ ds[i].overlap = <<>>
    <2>1. i \in DOMAIN groups /\ groups[i] \in Text
      BY <1>1, <1>2
    <2>2. Ink(groups[i]) \in Seq(In(h))
      <3>1. groups[i] \in Seq(In(h))
        BY <1>2, <2>1, FlattenParts
      <3>2. groups[i] \in Seq(Char)
        BY <1>0, <3>1, SeqMonotonic
      <3>3. Ink(groups[i]) = groups[i]
        BY <2>1, <3>2, InkIs
      <3>4. QED
        BY <3>1, <3>3
    <2>3. Ink(<<>>) = <<>> /\ <<>> \in Seq(In(h)) /\ <<>> \in Seq(Title(h))
      <3>1. NL \in Sign
        BY DEF Sign
      <3>2. QED
        BY <3>1, EmptySeq, InkAppend
    <2>4. /\ ds[i].overlap = <<>> /\ ds[i].prefix = <<>> /\ ds[i].body = groups[i]
          /\ ds[i].path = Path
      BY <1>1
    <2>5. QED
      BY <1>3, <1>4, <2>2, <2>3, <2>4, Zenon DEF Belongs
  <1>6. QED
    BY <1>5 DEF ds, h

\* The sections depend on the document alone.
LEMMA NewSections ==
    ASSUME UNCHANGED <<raw, doc>>, NEW k, Here' = k, NEW ds, drafts' = ds
    PROVE  /\ In(Here)' = In(k) /\ OnesIn(Here)' = OnesIn(k) /\ Title(Here)' = Title(k)
           /\ PathTo(Here)' = PathTo(k)
           /\ Sectioned(ds) => Sectioned(drafts)'
  <1>1. HeadingIds' = HeadingIds
    BY DEF HeadingIds
  <1>2. In(Here)' = In(k)
    BY <1>1 DEF In, SectionOf
  <1>3. OnesIn(Here)' = OnesIn(k)
    BY <1>2 DEF OnesIn
  <1>4. Title(Here)' = Title(k)
    BY DEF Title
  <1>5. PathTo(Here)' = PathTo(k)
    BY <1>1 DEF PathTo, LevelOf
  <1>6. Sectioned(ds) => Sectioned(drafts)'
    <2>1. \A h : (In(h)' = In(h) /\ Title(h)' = Title(h) /\ PathTo(h)' = PathTo(h))
      BY SameSections
    <2>2. QED
      BY <2>1, Zenon DEF Sectioned, Belongs
  <1>7. QED
    BY <1>2, <1>3, <1>4, <1>5, <1>6

\* Before a heading is read nothing has a section.
LEMMA FreshSections ==
    ASSUME Fresh, at = 0
    PROVE  /\ Here = 0 /\ Ordered /\ StackOK /\ HereOK
           /\ pieces \in Seq(Piece(OnesIn(Here))) /\ pending \in Seq(Piece(OnesIn(Here)))
           /\ Ink(overlap) \in Seq(In(Here)) /\ prefix \in Seq(Title(Here))
           /\ Carries(overlap, drafts) /\ Sectioned(drafts)
  <1>1. /\ doc = <<>> /\ headings = <<>> /\ pending = <<>> /\ pieces = <<>> /\ drafts = <<>>
        /\ prefix = <<>> /\ overlap = <<>>
    BY DEF Fresh
  <1>2. Here = 0 /\ Ordered /\ HereOK
    BY <1>1 DEF Here, Ordered, HereOK
  <1>3. HeadingIds = {}
    BY <1>1 DEF HeadingIds
  <1>4. StackOK
    <2>1. PathTo(Here) = {}
      BY <1>3 DEF PathTo
    <2>2. DOMAIN headings = {}
      BY <1>1
    <2>3. QED
      BY <2>1, <2>2 DEF StackOK
  <1>5. Ink(overlap) = <<>>
    <2>1. NL \in Sign
      BY DEF Sign
    <2>2. Ink(<<>>) = <<>>
      BY <2>1, EmptySeq, InkAppend
    <2>3. QED
      BY <1>1, <2>2
  <1>6. Carries(overlap, drafts)
    BY <1>1, Zenon DEF Carries
  <1>7. Sectioned(drafts)
    <2>1. DOMAIN drafts = {}
      BY <1>1
    <2>2. QED
      BY <2>1 DEF Sectioned
  <1>8. /\ pieces \in Seq(Piece(OnesIn(Here))) /\ pending \in Seq(Piece(OnesIn(Here)))
        /\ Ink(overlap) \in Seq(In(Here)) /\ prefix \in Seq(Title(Here))
    BY <1>1, <1>5, EmptySeq
  <1>9. QED
    BY <1>2, <1>4, <1>6, <1>7, <1>8

LEMMA SectionInit == Init => SectionInv
  <1> SUFFICES ASSUME Init PROVE SectionInv
    OBVIOUS
  <1>1. Fresh /\ at = 0
    BY DEF Init, Fresh
  <1>2. SizeInv
    BY SizeInit
  <1>3. QED
    BY <1>1, <1>2, FreshSections DEF SectionInv

\* The document that is kept has its blocks in order.
LEMMA FinalizedOrder ==
    ASSUME RawOK
    PROVE  \A i, j \in DOMAIN Finalized.kept : i < j => Finalized.kept[i].id < Finalized.kept[j].id
  BY DocumentIs DEF Whole

LEMMA SectionStep == SectionInv /\ [Next]_vars => SectionInv'
  <1> SUFFICES ASSUME SectionInv, [Next]_vars PROVE SectionInv'
    OBVIOUS
  <1>0. /\ SizeInv /\ SizeInv' /\ RawOK /\ doc \in Seq(Blocks) /\ at \in 0 .. Len(doc)
        /\ (pc = "finalize" => at = 0 /\ Fresh)
        /\ headings \in Seq(Nat \X (1 .. MaxBlocks)) /\ drafts \in Seq(Drafts)
        /\ Ordered /\ StackOK /\ HereOK
        /\ pieces \in Seq(Piece(OnesIn(Here))) /\ pending \in Seq(Piece(OnesIn(Here)))
        /\ Ink(overlap) \in Seq(In(Here)) /\ prefix \in Seq(Title(Here))
        /\ Carries(overlap, drafts) /\ Sectioned(drafts)
        /\ overlap \in Text
    BY SizeStep DEF SectionInv, SizeInv, VectorsInv
  <1>1. at \in Nat /\ Len(doc) \in Nat /\ DOMAIN doc = 1 .. Len(doc)
    BY <1>0
  <1>e. Ink(<<>>) = <<>> /\ \A S : <<>> \in Seq(S)
    <2>1. NL \in Sign
      BY DEF Sign
    <2>2. QED
      BY <2>1, EmptySeq, InkAppend
  <1>f. /\ Sectioned(FlushedDrafts)
        /\ Ink(FlushedOverlap) \in Seq(In(Here)) /\ FlushedPrefix \in Seq(Title(Here))
        /\ Carries(FlushedOverlap, FlushedDrafts) /\ FlushedDrafts \in Seq(Drafts)
    BY <1>0, FlushSections, FlushSizes
  <1>c. \A o, ds : o = <<>> => Carries(o, ds)
    BY Zenon DEF Carries
  <1>n. ASSUME NEW type, NextBlock(type)
        PROVE  /\ at + 1 \in DOMAIN doc /\ doc[at + 1].type = type /\ at' = at + 1
               /\ pc = "chunk" /\ pieces = <<>>
    BY <1>1, <1>n DEF NextBlock
  <1>o. ASSUME UNCHANGED <<raw, doc, headings>>
        PROVE  Here' = Here /\ Ordered' /\ StackOK'
    <2>1. Here' = Here
      BY <1>o DEF Here
    <2>2. Ordered'
      BY <1>0, <1>o DEF Ordered
    <2>3. HeadingIds' = HeadingIds /\ PathTo(Here)' = PathTo(Here)
      BY <1>o, <2>1, NewSections, SameSections
    <2>4. StackOK'
      BY <1>0, <1>o, <2>3 DEF StackOK, LevelOf
    <2>5. QED
      BY <2>1, <2>2, <2>4
  <1>k. ASSUME UNCHANGED <<raw, doc, headings, at>>
        PROVE  HereOK'
    <2>1. Here' = Here
      BY <1>k, <1>o
    <2>2. QED
      BY <1>0, <1>k, <2>1 DEF HereOK
  \* A block that is no heading leaves the section.
  <1>h. ASSUME UNCHANGED <<raw, doc, headings>>, at' = at + 1, at + 1 \in DOMAIN doc,
               doc[at + 1].type # "heading"
        PROVE  HereOK'
    <2>1. Here' = Here
      BY <1>h, <1>o
    <2>2. ASSUME NEW j \in DOMAIN doc, doc[j].type = "heading"
          PROVE  doc[j].id <= Here <=> j <= at + 1
      <3>1. j # at + 1
        BY <1>h, <2>2
      <3>2. j <= at + 1 <=> j <= at
        BY <1>1, <3>1
      <3>3. QED
        BY <1>0, <2>2, <3>2 DEF HereOK
    <2>3. QED
      BY <1>h, <2>1, <2>2 DEF HereOK
  <1>2. CASE Finalize
    <2>1. /\ Fresh /\ at = 0 /\ at' = at /\ pc = "finalize" /\ pc' # "finalize"
          /\ UNCHANGED <<raw, pieces, headings, pending, prefix, overlap, drafts>>
      BY <1>0, <1>2 DEF Finalize, builder
    <2>2. /\ pieces' = <<>> /\ headings' = <<>> /\ pending' = <<>> /\ prefix' = <<>>
          /\ overlap' = <<>> /\ drafts' = <<>>
      BY <2>1 DEF Fresh
    <2>3. Here' = 0
      BY <2>2 DEF Here
    <2>4. doc' = Finalized.kept \/ doc' = doc
      BY <1>2, Zenon DEF Finalize, Finalized, NothingKept
    <2>5. Ordered'
      <3>1. CASE doc' = doc
        BY <1>0, <3>1 DEF Ordered
      <3>2. CASE doc' = Finalized.kept
        <4>1. \A i, j \in DOMAIN Finalized.kept : i < j => Finalized.kept[i].id < Finalized.kept[j].id
          BY <1>0, FinalizedOrder
        <4>2. QED
          BY <3>2, <4>1, Zenon DEF Ordered
      <3>3. QED
        BY <2>4, <3>1, <3>2
    <2>6. HeadingIds' \subseteq Nat \ {0} /\ doc' \in Seq(Blocks)
      <3>1. doc' \in Seq(Blocks)
        BY <1>0, <2>4, DocumentIs
      <3>2. \A j \in DOMAIN doc' : doc'[j].id \in 1 .. MaxBlocks
        <4>1. \A j \in DOMAIN doc' : doc'[j] \in Blocks
          BY <3>1
        <4>2. QED
          BY <1>0, <4>1, BlockIsAt
      <3>3. QED
        BY <3>1, <3>2 DEF HeadingIds
    <2>7. StackOK'
      <3>1. PathTo(Here)' = {}
        <4>1. \A g \in HeadingIds' : ~(g <= 0)
          BY <2>6
        <4>2. QED
          BY <2>3, <4>1, Zenon DEF PathTo
      <3>2. DOMAIN headings' = {}
        BY <2>2
      <3>3. QED
        BY <3>1, <3>2 DEF StackOK
    <2>8. HereOK'
      <3>1. \A j \in DOMAIN doc' : doc'[j].id \in Nat \ {0} /\ j \in Nat \ {0}
        <4>1. \A j \in DOMAIN doc' : doc'[j] \in Blocks /\ j \in Nat \ {0}
          BY <2>6
        <4>2. QED
          BY <1>0, <4>1, BlockIsAt
      <3>2. QED
        BY <2>1, <2>3, <3>1 DEF HereOK
    <2>9. Carries(overlap', drafts') /\ Sectioned(drafts)'
      <3>1. DOMAIN drafts' = {}
        BY <2>2
      <3>2. QED
        BY <1>c, <2>2, <3>1 DEF Sectioned
    <2>10. Ink(overlap') = <<>>
      BY <1>e, <2>2
    <2>11. QED
      BY <1>0, <1>e, <2>1, <2>2, <2>5, <2>7, <2>8, <2>9, <2>10 DEF SectionInv
  <1>3. CASE StartSection
    <2> DEFINE new == Append(Outer(doc[at + 1].level), <<doc[at + 1].level, doc[at + 1].id>>)
               x == doc[at + 1].id
    <2>1. /\ NextBlock("heading") /\ drafts' = FlushedDrafts /\ headings' = new
          /\ prefix' = doc[at + 1].text /\ pending' = <<>> /\ overlap' = <<>>
          /\ UNCHANGED <<pc, raw, doc, pieces>>
      BY <1>3 DEF StartSection
    <2>2. /\ at + 1 \in DOMAIN doc /\ doc[at + 1].type = "heading" /\ at' = at + 1 /\ pc = "chunk"
          /\ pieces = <<>>
      BY <1>n, <2>1
    <2>3. /\ headings' # <<>> /\ headings'[Len(headings')][2] = x
          /\ \A i \in DOMAIN headings' : headings'[i][2] \in HeadingIds /\ headings'[i][1] = LevelOf(headings'[i][2])
          /\ \A i, j \in DOMAIN headings' :
               i < j => headings'[i][1] < headings'[j][1] /\ headings'[i][2] < headings'[j][2]
          /\ {headings'[i][2] : i \in DOMAIN headings'} = PathTo(x)
      <3>1. /\ new # <<>> /\ new[Len(new)][2] = x
            /\ \A i \in DOMAIN new : new[i][2] \in HeadingIds /\ new[i][1] = LevelOf(new[i][2])
            /\ \A i, j \in DOMAIN new : i < j => new[i][1] < new[j][1] /\ new[i][2] < new[j][2]
            /\ {new[i][2] : i \in DOMAIN new} = PathTo(x)
        BY <1>0, <1>1, <2>2, PushIs
      <3>2. headings' = new
        BY <2>1
      <3> HIDE DEF new, x
      <3>3. QED
        BY <3>1, <3>2
    <2>4. Here' = x
      BY <2>3 DEF Here
    <2> HIDE DEF new
    <2>5. /\ HeadingIds' = HeadingIds /\ PathTo(Here)' = PathTo(x) /\ In(Here)' = In(x)
          /\ Title(Here)' = Title(x) /\ OnesIn(Here)' = OnesIn(x)
          /\ Sectioned(drafts)'
      <3> DEFINE ds == FlushedDrafts
      <3>1. drafts' = ds /\ UNCHANGED <<raw, doc>> /\ Sectioned(ds)
        BY <1>f, <2>1
      <3> HIDE DEF ds, x
      <3>2. QED
        BY <2>4, <3>1, NewSections, SameSections
    <2>6. StackOK'
      BY <2>1, <2>3, <2>5 DEF StackOK, LevelOf
    <2>7. Ordered'
      BY <1>0, <2>1 DEF Ordered
    <2>8. HereOK'
      <3>1. ASSUME NEW j \in DOMAIN doc
            PROVE  doc[j].id <= x <=> j <= at + 1
        <4>1. \A i \in DOMAIN doc : doc[i].id \in 1 .. MaxBlocks
          BY <1>0, HeadingsAre
        <4>2. CASE j = at + 1
          BY <2>2, <4>1, <4>2
        <4>3. CASE j < at + 1
          <5>1. doc[j].id < x
            BY <1>0, <2>2, <4>3 DEF Ordered
          <5>2. QED
            BY <1>1, <2>2, <4>1, <4>3, <5>1
        <4>4. CASE at + 1 < j
          <5>1. x < doc[j].id
            BY <1>0, <2>2, <4>4 DEF Ordered
          <5>2. QED
            BY <1>1, <2>2, <4>1, <4>4, <5>1
        <4>5. QED
          BY <1>1, <4>2, <4>3, <4>4
      <3>2. QED
        BY <2>1, <2>2, <2>4, <3>1 DEF HereOK
    <2>9. prefix' \in Seq(Title(x))
      <3>1. doc[at + 1].text \in Seq(CharOf(x))
        BY <1>0, <2>2, HeadingsAre
      <3>2. CharOf(x) \subseteq Title(x)
        BY DEF CharOf, Title
      <3>3. QED
        BY <2>1, <3>1, <3>2, SeqMonotonic
    <2>10. Carries(overlap', drafts') /\ Ink(overlap') = <<>> /\ pieces' = <<>> /\ pending' = <<>>
      BY <1>c, <1>e, <2>1, <2>2
    <2>11. pc' # "finalize"
      BY <2>1, <2>2
    <2> HIDE DEF x
    <2>12. QED
      BY <1>0, <1>e, <2>5, <2>6, <2>7, <2>8, <2>9, <2>10, <2>11 DEF SectionInv
  \* The other steps leave the document and the heading read last.
  <1>s. ASSUME UNCHANGED <<raw, doc, headings>>, HereOK',
               pc' = "finalize" => Fresh', NEW ds, drafts' = ds, Sectioned(ds), NEW o, overlap' = o,
               Carries(o, ds), Ink(o) \in Seq(In(Here)), prefix' \in Seq(Title(Here)),
               pieces' \in Seq(Piece(OnesIn(Here))), pending' \in Seq(Piece(OnesIn(Here)))
        PROVE  SectionInv'
    <2> DEFINE k == Here
    <2>1. Here' = k /\ Ordered' /\ StackOK'
      BY <1>o, <1>s
    <2> HIDE DEF k
    <2>2. /\ In(Here)' = In(k) /\ Title(Here)' = Title(k) /\ OnesIn(Here)' = OnesIn(k)
          /\ Sectioned(drafts)'
      BY <1>s, <2>1, NewSections
    <2>3. Carries(overlap', drafts') /\ Ink(overlap') = Ink(o)
      BY <1>s
    <2>4. QED
      BY <1>0, <1>s, <2>1, <2>2, <2>3 DEF SectionInv, k
  <1>4. CASE AddText
    <2> DEFINE text == doc[at + 1].text
    <2>1. NextBlock("text") /\ pieces' = SplitToLimit(text)
          /\ UNCHANGED <<pc, raw, doc, headings, pending, prefix, overlap, drafts>>
      BY <1>4 DEF AddText, builder
    <2>2. /\ at + 1 \in DOMAIN doc /\ doc[at + 1].type = "text" /\ at' = at + 1 /\ pc = "chunk"
          /\ doc[at + 1] \in Blocks
      BY <1>0, <1>n, <2>1
    <2>3. text \in Seq(In(Here)) /\ text \in Seq(Ones) /\ text # <<>>
      <3>1. text \in Seq(In(Here))
        BY <1>0, <1>1, <2>2, NextIsHere
      <3>2. text \in Seq(Ones) /\ text # <<>>
        BY <1>0, <2>2, BlockIsAt, BlockText
      <3>3. QED
        BY <3>1, <3>2
    <2> HIDE DEF text
    <2>4. text \in Seq(OnesIn(Here))
      <3>1. Len(text) \in Nat /\ \A i \in 1 .. Len(text) : text[i] \in In(Here) /\ text[i] \in Ones
        BY <2>3
      <3>2. \A i \in 1 .. Len(text) : text[i] \in OnesIn(Here)
        BY <3>1 DEF OnesIn
      <3>3. QED
        BY <2>3, <3>1, <3>2
    <2>5. SplitToLimit(text) \in Seq(Piece(OnesIn(Here)))
      <3>1. OnesIn(Here) \subseteq Ones
        BY DEF OnesIn
      <3>2. QED
        BY <2>3, <2>4, <3>1, SplitIs
    <2>6. HereOK'
      BY <1>h, <2>1, <2>2
    <2>7. QED
      BY <1>0, <1>s, <2>1, <2>2, <2>5, <2>6
  <1>5. CASE AddPiece
    <2> DEFINE piece == Head(pieces)
    <2>1. /\ pieces # <<>> /\ pieces' = Tail(pieces) /\ pc = "chunk"
          /\ UNCHANGED <<pc, raw, doc, at, headings>>
      BY <1>5 DEF AddPiece
    <2>2. piece \in Piece(OnesIn(Here)) /\ pieces' \in Seq(Piece(OnesIn(Here)))
      BY <1>0, <2>1
    <2>3. HereOK'
      BY <1>k, <2>1
    <2>4. ASSUME drafts' = FlushedDrafts, pending' = <<piece>>, prefix' = FlushedPrefix,
                 overlap' = FlushedOverlap
          PROVE  SectionInv'
      <3>1. pending' \in Seq(Piece(OnesIn(Here)))
        BY <2>2, <2>4
      <3>2. QED
        BY <1>f, <1>s, <2>1, <2>2, <2>3, <2>4, <3>1
    <2>5. ASSUME pending' = Append(pending, piece), UNCHANGED <<drafts, prefix, overlap>>
          PROVE  SectionInv'
      <3>1. pending' \in Seq(Piece(OnesIn(Here)))
        BY <1>0, <2>2, <2>5, AppendProperties
      <3>2. QED
        BY <1>0, <1>s, <2>1, <2>2, <2>3, <2>5, <3>1
    <2>6. QED
      BY <1>5, <2>4, <2>5 DEF AddPiece
  <1>6. CASE AddTable
    <2> DEFINE rows == doc[at + 1].text
               ds == FlushedDrafts \o TableDrafts(rows)
    <2>1. /\ NextBlock("table") /\ drafts' = ds /\ pending' = <<>>
          /\ prefix' = FlushedPrefix /\ overlap' = <<>>
          /\ UNCHANGED <<pc, raw, doc, pieces, headings>>
      BY <1>6 DEF AddTable, TableDrafts
    <2>2. /\ at + 1 \in DOMAIN doc /\ doc[at + 1].type = "table" /\ at' = at + 1 /\ pc = "chunk"
          /\ doc[at + 1] \in Blocks
      BY <1>0, <1>n, <2>1
    <2>3. rows \in Seq(In(Here)) /\ rows \in Seq(Char) /\ rows # <<>>
      <3>1. rows \in Seq(In(Here))
        BY <1>0, <1>1, <2>2, NextIsHere
      <3>2. rows \in Seq(Char) /\ rows # <<>>
        BY <1>0, <2>2, BlockText
      <3>3. QED
        BY <3>1, <3>2
    <2>4. Here \in Nat
      BY <1>0, HereIs, ConstantsAssumption
    <2> HIDE DEF rows
    <2>5. /\ TableDrafts(rows) \in Seq(Drafts)
          /\ \A i \in DOMAIN TableDrafts(rows) :
               Belongs(TableDrafts(rows)[i], Here) /\ TableDrafts(rows)[i].overlap = <<>>
      BY <1>0, <2>3, TableDraftsAre, TableSections
    <2>6. Sectioned(ds)
      BY <1>f, <2>4, <2>5, SectionedConcat
    <2>7. HereOK'
      BY <1>h, <2>1, <2>2
    <2> HIDE DEF ds
    <2>8. Carries(<<>>, ds) /\ Ink(<<>>) \in Seq(In(Here)) /\ pending' \in Seq(Piece(OnesIn(Here)))
      BY <1>c, <1>e, <2>1
    <2>9. QED
      BY <1>0, <1>f, <1>s, <2>1, <2>2, <2>6, <2>7, <2>8
  <1>7. CASE FinishChunking
    <2>1. /\ pc' = "embed" /\ drafts' = FlushedDrafts /\ prefix' = FlushedPrefix
          /\ overlap' = FlushedOverlap /\ pending' = <<>>
          /\ UNCHANGED <<raw, doc, at, pieces, headings>>
      BY <1>7 DEF FinishChunking
    <2>2. HereOK'
      BY <1>k, <2>1
    <2>3. pending' \in Seq(Piece(OnesIn(Here)))
      BY <1>e, <2>1
    <2>4. QED
      BY <1>0, <1>f, <1>s, <2>1, <2>2, <2>3
  <1>8. CASE EmbedBatch \/ EmbedDone
    <2>1. /\ UNCHANGED <<raw, doc, at, pieces, headings, pending, prefix, overlap, drafts>>
          /\ pc' # "finalize"
      BY <1>8 DEF EmbedBatch, EmbedDone, builder
    <2>2. HereOK'
      BY <1>k, <2>1
    <2>3. QED
      BY <1>0, <1>s, <2>1, <2>2
  <1>9. CASE UNCHANGED vars
    <2>1. UNCHANGED <<pc, raw, doc, at, pieces, headings, pending, prefix, overlap, drafts>>
      BY <1>9 DEF vars, builder
    <2>2. HereOK'
      BY <1>k, <2>1
    <2>3. pc' = "finalize" => Fresh'
      BY <1>0, <2>1 DEF Fresh
    <2>4. QED
      BY <1>0, <1>s, <2>1, <2>2, <2>3
  <1>10. QED
    BY <1>2, <1>3, <1>4, <1>5, <1>6, <1>7, <1>8, <1>9 DEF Next

\* A chunk never mixes sections: its text, the overlap it repeats and the heading it
\* opens with stand under one heading, heading_path is the path to that heading, and
\* what it repeats is the end of the chunk right before (default_recursive.py:7, 27-51,
\* 62-74).
THEOREM ChunksWithinSections == Spec => []WithinSection
  <1>1. ASSUME SectionInv
        PROVE  WithinSection
    <2>0. drafts \in Seq(Drafts) /\ Sectioned(drafts)
      BY <1>1 DEF SectionInv, SizeInv
    <2>1. ASSUME NEW i \in DOMAIN drafts
          PROVE  LET d == drafts[i]
                     section == SectionOf(Ink(d.body)[1].block)
                 IN  /\ \A c \in ToSet(Ink(d.overlap \o d.body)) : SectionOf(c.block) = section
                     /\ \A c \in ToSet(d.prefix) : c.block = section
                     /\ ToSet(d.path) = PathTo(section)
                     /\ \A k, l \in DOMAIN d.path : k < l => d.path[k] < d.path[l]
                     /\ d.overlap # <<>> =>
                          /\ i > 1 /\ drafts[i - 1].type = "text"
                          /\ IsSuffix(Ink(d.overlap), Ink(drafts[i - 1].body))
      <3> DEFINE d == drafts[i]
                 o == d.overlap
                 b == d.body
                 section == SectionOf(Ink(b)[1].block)
      <3>1. PICK h \in Nat : Belongs(d, h)
        BY <2>0, <2>1 DEF Sectioned
      <3>2. Carries(o, SubSeq(drafts, 1, i - 1))
        BY <2>0, <2>1 DEF Sectioned
      <3>3. d \in Drafts
        BY <2>0, <2>1
      <3> HIDE DEF d
      <3>4. b \in Text /\ o \in Text /\ Ink(b) # <<>>
        BY <3>3 DEF Drafts, DraftOK
      <3>5. /\ Ink(o) \in Seq(In(h)) /\ Ink(b) \in Seq(In(h)) /\ d.prefix \in Seq(Title(h))
            /\ ToSet(d.path) = PathTo(h)
            /\ \A k, l \in DOMAIN d.path : k < l => d.path[k] < d.path[l]
        BY <3>1 DEF Belongs
      <3>6. section = h
        <4> DEFINE t == Ink(b)
        <4>1. t \in Seq(In(h)) /\ t # <<>>
          BY <3>4, <3>5
        <4> HIDE DEF t
        <4>2. t[1] \in In(h)
          BY <4>1
        <4>3. SectionOf(t[1].block) = h
          BY <4>2 DEF In
        <4>4. QED
          BY <4>3 DEF t
      <3>7. \A c \in ToSet(Ink(o \o b)) : SectionOf(c.block) = h
        <4> DEFINE p == Ink(o)
                   q == Ink(b)
                   t == p \o q
        <4>1. Ink(o \o b) = t
          BY <3>4, InkConcat
        <4>2. p \in Seq(In(h)) /\ q \in Seq(In(h))
          BY <3>5
        <4> HIDE DEF p, q
        <4>3. t \in Seq(In(h))
          BY <4>2
        <4> HIDE DEF t
        <4>4. \A k \in DOMAIN t : t[k] \in In(h)
          BY <4>3
        <4>5. \A c \in ToSet(t) : SectionOf(c.block) = h
          BY <4>4 DEF ToSet, In
        <4>6. QED
          BY <4>1, <4>5, Zenon
      <3>8. \A c \in ToSet(d.prefix) : c.block = h
        <4> DEFINE t == d.prefix
        <4>1. t \in Seq(Title(h))
          BY <3>5
        <4> HIDE DEF t
        <4>2. \A k \in DOMAIN t : t[k] \in Title(h)
          BY <4>1
        <4>3. \A c \in ToSet(t) : c.block = h
          BY <4>2 DEF ToSet, Title
        <4>4. QED
          BY <4>3 DEF t
      <3>9. ASSUME o # <<>>
            PROVE  i > 1 /\ drafts[i - 1].type = "text" /\ IsSuffix(Ink(o), Ink(drafts[i - 1].body))
        <4> DEFINE ds == SubSeq(drafts, 1, i - 1)
        <4>0. i \in 1 .. Len(drafts) /\ Len(drafts) \in Nat
          BY <2>0
        <4>1. Len(ds) = i - 1 /\ \A k \in 1 .. i - 1 : ds[k] = drafts[k]
          <5>1. i - 1 \in 0 .. Len(drafts)
            BY <4>0
          <5>2. QED
            BY <2>0, <5>1
        <4>2. ds \in Seq(Drafts)
          BY <2>0, <4>0
        <4>3. /\ ds # <<>> /\ ds[Len(ds)].type = "text"
              /\ Ends(Ink(o), Ink(ds[Len(ds)].body))
          BY <3>2, <3>9 DEF Carries
        <4> HIDE DEF ds
        <4>4. i - 1 # 0
          BY <4>1, <4>2, <4>3
        <4>5. i > 1 /\ ds[Len(ds)] = drafts[i - 1] /\ i - 1 \in DOMAIN drafts
          BY <4>0, <4>1, <4>4
        <4>6. Ink(drafts[i - 1].body) \in Seq(Char)
          <5>1. drafts[i - 1] \in Drafts
            BY <2>0, <4>5
          <5>2. drafts[i - 1].body \in Text
            BY <5>1 DEF Drafts
          <5>3. QED
            BY <5>2, InkIs
        <4>7. Ink(o) \in Seq(Char) /\ Ends(Ink(o), Ink(drafts[i - 1].body))
          BY <3>4, <4>3, <4>5, InkIs
        <4>8. IsSuffix(Ink(o), Ink(drafts[i - 1].body))
          BY <4>6, <4>7, EndsIn
        <4>9. QED
          BY <4>3, <4>5, <4>8, Zenon
      <3>10. QED
        BY <3>5, <3>6, <3>7, <3>8, <3>9, Zenon DEF d
    <2>2. QED
      BY <2>1, Zenon DEF WithinSection
  <1>2. QED
    BY <1>1, SectionInit, SectionStep, PTL DEF Spec
===============================================================================
