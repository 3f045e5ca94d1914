--------------------------- MODULE PipelineProofs ---------------------------
(***************************************************************************)
(* Proofs that the graph and the worker stay in step, for every graph:     *)
(* every input reads the cells of exactly the nodes that are linked to it, *)
(* as often as they are, and of one type along every link.                 *)
(***************************************************************************)
EXTENDS Pipeline, FiniteSetTheorems, SequenceTheorems, WellFoundedInduction, TLAPS

-----------------------------------------------------------------------------
(* Numbers *)

\* A nonempty set of numbers has a least one.
LEMMA LeastNumber ==
  ASSUME NEW S, S \subseteq Nat, S # {}
  PROVE  \E m \in S : \A n \in S : m <= n
<1> DEFINE R == OpToRel(<, Nat)
<1>1. IsWellFoundedOn(R, Nat)
  BY NatLessThanWellFounded
<1>2. \A m, n \in Nat : <<m, n>> \in R <=> m < n
  BY DEF OpToRel
<1> HIDE DEF R
<1>3. PICK m \in S : \A n \in S : ~(<<n, m>> \in R)
  BY <1>1, WFMin
<1>4. ASSUME NEW n \in S PROVE m <= n
  <2>1. m \in Nat /\ n \in Nat /\ ~(n < m)
    BY <1>2, <1>3
  <2> QED BY <2>1
<1> QED BY <1>4

\* Min picks it.
LEMMA Least ==
  ASSUME NEW S, S \subseteq Nat, S # {}
  PROVE  Min(S) \in S /\ \A n \in S : Min(S) <= n
BY LeastNumber DEF Min

\* Max picks the last number of a first part of the numbers, and the greatest
\* of any.
LEMMA Greatest ==
  ASSUME NEW N \in Nat, NEW S, S \subseteq 0 .. N, S # {}
  PROVE  Max(S) \in S /\ \A n \in S : Max(S) >= n
<1> DEFINE T == {N - n : n \in S}
<1>1. PICK m \in T : \A n \in T : m <= n
  <2>1. T \subseteq Nat
    <3> SUFFICES ASSUME NEW n \in S PROVE N - n \in Nat
      OBVIOUS
    <3>1. n \in 0 .. N
      OBVIOUS
    <3> QED BY <3>1
  <2>2. T # {}
    OBVIOUS
  <2> HIDE DEF T
  <2> QED BY <2>1, <2>2, LeastNumber
<1>2. N - m \in S /\ \A n \in S : N - m >= n
  <2>1. PICK k \in S : m = N - k
    BY <1>1
  <2>2. \A n \in S : m <= N - n
    BY <1>1
  <2> QED BY <2>1, <2>2
<1> QED BY <1>2 DEF Max

LEMMA LastOfFirst ==
  ASSUME NEW n \in Nat, n # 0
  PROVE  Max(1 .. n) = n /\ (1 .. n) \ {n} = 1 .. n - 1
<1> PICK m : m = Max(1 .. n)
  OBVIOUS
<1>1. n \in 1 .. n /\ \A k \in 1 .. n : k \in 0 .. n
  OBVIOUS
<1>2. m \in 1 .. n /\ m >= n
  BY <1>1, Greatest
<1>3. m = n
  BY <1>2
<1>4. (1 .. n) \ {n} = 1 .. n - 1
  OBVIOUS
<1> QED BY <1>3, <1>4

-----------------------------------------------------------------------------
(* Counting in sequences *)

\* Where a sequence has a member of a set.
Where(seq, set) == {n \in DOMAIN seq : seq[n] \in set}

LEMMA WhereIsFinite ==
  ASSUME NEW S, NEW s \in Seq(S), NEW X
  PROVE  /\ IsFiniteSet(Where(s, X)) /\ Where(s, X) \subseteq 1 .. Len(s)
         /\ Times(s, X) = Cardinality(Where(s, X)) /\ Times(s, X) \in Nat
<1>1. Len(s) \in Nat /\ DOMAIN s = 1 .. Len(s)
  OBVIOUS
<1>2. IsFiniteSet(1 .. Len(s)) /\ Where(s, X) \in SUBSET (1 .. Len(s))
  BY <1>1, FS_Interval DEF Where
<1>3. IsFiniteSet(Where(s, X))
  BY <1>2, FS_Subset
<1> QED BY <1>2, <1>3, FS_CardinalityType DEF Times, Where

LEMMA TimesOfNone ==
  ASSUME NEW X
  PROVE  Times(<<>>, X) = 0
<1>1. {n \in DOMAIN <<>> : <<>>[n] \in X} = {}
  OBVIOUS
<1> QED BY <1>1, FS_EmptySet DEF Times

LEMMA TimesIsZero ==
  ASSUME NEW S, NEW s \in Seq(S), NEW X
  PROVE  Times(s, X) = 0 <=> \A n \in DOMAIN s : s[n] \notin X
<1>1. Times(s, X) = 0 <=> Where(s, X) = {}
  BY WhereIsFinite, FS_EmptySet
<1> QED BY <1>1 DEF Where

\* A set that has all members of another set that are in the sequence counts
\* as often at least.
LEMMA TimesIsMonotone ==
  ASSUME NEW S, NEW s \in Seq(S), NEW X, NEW Y, \A n \in DOMAIN s : s[n] \in X => s[n] \in Y
  PROVE  Times(s, X) <= Times(s, Y)
<1>1. Where(s, X) \in SUBSET Where(s, Y)
  BY DEF Where
<1>2. Cardinality(Where(s, X)) <= Cardinality(Where(s, Y))
  BY <1>1, WhereIsFinite, FS_Subset
<1> QED BY <1>2, WhereIsFinite

LEMMA TimesIsEqual ==
  ASSUME NEW S, NEW s \in Seq(S), NEW X, NEW Y, \A n \in DOMAIN s : s[n] \in X <=> s[n] \in Y
  PROVE  Times(s, X) = Times(s, Y)
<1>1. Where(s, X) = Where(s, Y)
  BY DEF Where
<1> QED BY <1>1, WhereIsFinite

LEMMA TimesInAppended ==
  ASSUME NEW S, NEW s \in Seq(S), NEW e \in S, NEW X
  PROVE  Times(Append(s, e), X) = Times(s, X) + (IF e \in X THEN 1 ELSE 0)
<1> DEFINE N == Len(s)
           t == Append(s, e)
<1>1. /\ N \in Nat /\ DOMAIN s = 1 .. N /\ DOMAIN t = 1 .. N + 1
      /\ t \in Seq(S) /\ t[N + 1] = e /\ \A n \in 1 .. N : t[n] = s[n]
  OBVIOUS
<1> HIDE DEF N, t
<1>2. N + 1 \notin Where(s, X)
  BY <1>1 DEF Where
<1>3. Where(t, X) = IF e \in X THEN Where(s, X) \cup {N + 1} ELSE Where(s, X)
  BY <1>1 DEF Where
<1>4. IsFiniteSet(Where(s, X)) /\ Times(s, X) = Cardinality(Where(s, X)) /\ Times(s, X) \in Nat
  BY WhereIsFinite
<1>5. Times(t, X) = Cardinality(Where(t, X))
  BY <1>1, WhereIsFinite
<1>6. Cardinality(Where(s, X) \cup {N + 1}) = Cardinality(Where(s, X)) + 1
  BY <1>2, <1>4, FS_AddElement
<1>7. Times(t, X) = Times(s, X) + (IF e \in X THEN 1 ELSE 0)
  <2>1. CASE e \in X
    BY <1>3, <1>4, <1>5, <1>6, <2>1
  <2>2. CASE e \notin X
    BY <1>3, <1>4, <1>5, <2>2
  <2> QED BY <2>1, <2>2
<1> QED BY <1>7 DEF t

LEMMA TimesOfOne ==
  ASSUME NEW e, NEW X
  PROVE  Times(<<e>>, X) = IF e \in X THEN 1 ELSE 0
<1>1. {n \in DOMAIN <<e>> : <<e>>[n] \in X} = IF e \in X THEN {1} ELSE {}
  OBVIOUS
<1> QED BY <1>1, FS_EmptySet, FS_Singleton DEF Times

\* One member less.
LEMMA RemovedAt ==
  ASSUME NEW S, NEW s \in Seq(S), NEW k \in 1 .. Len(s)
  PROVE  /\ RemoveAt(s, k) \in Seq(S) /\ Len(RemoveAt(s, k)) = Len(s) - 1
         /\ \A i \in 1 .. Len(s) - 1 : RemoveAt(s, k)[i] = IF i < k THEN s[i] ELSE s[i + 1]
<1> DEFINE n == Len(s)
           a == SubSeq(s, 1, k - 1)
           b == SubSeq(s, k + 1, n)
<1>1. n \in Nat /\ DOMAIN s = 1 .. n /\ k \in 1 .. n
  OBVIOUS
<1>2. a \in Seq(S) /\ Len(a) = k - 1 /\ \A i \in 1 .. k - 1 : a[i] = s[i]
  BY <1>1
<1>3. b \in Seq(S) /\ Len(b) = n - k /\ \A i \in 1 .. n - k : b[i] = s[i + k]
  <2>1. k + 1 \in Int /\ n \in Int /\ \A i \in k + 1 .. n : s[i] \in S
    BY <1>1
  <2>2. /\ b \in Seq(S) /\ Len(b) = IF k + 1 <= n THEN n - (k + 1) + 1 ELSE 0
        /\ \A i \in 1 .. n - (k + 1) + 1 : b[i] = s[(k + 1) + i - 1]
    <3> HIDE DEF n
    <3> QED BY <2>1, SubSeqProperties
  <2> HIDE DEF b, n
  <2>3. n - (k + 1) + 1 = n - k /\ Len(b) = n - k
    BY <1>1, <2>2
  <2>4. ASSUME NEW i \in 1 .. n - k PROVE b[i] = s[i + k]
    <3>1. (k + 1) + i - 1 = i + k
      BY <1>1
    <3>2. b[i] = s[(k + 1) + i - 1]
      BY <2>2, <2>3
    <3> QED BY <3>1, <3>2
  <2> QED BY <2>2, <2>3, <2>4
<1> HIDE DEF a, b
<1>4. /\ a \o b \in Seq(S) /\ Len(a \o b) = n - 1
      /\ \A i \in 1 .. n - 1 : (a \o b)[i] = IF i <= k - 1 THEN a[i] ELSE b[i - (k - 1)]
  <2>1. Len(a) + Len(b) = n - 1
    BY <1>1, <1>2, <1>3
  <2>2. /\ a \o b \in Seq(S) /\ Len(a \o b) = Len(a) + Len(b)
        /\ \A i \in 1 .. Len(a) + Len(b) : (a \o b)[i] =
             IF i <= Len(a) THEN a[i] ELSE b[i - Len(a)]
    BY <1>2, <1>3, ConcatProperties
  <2> QED BY <1>2, <2>1, <2>2
<1>5. RemoveAt(s, k) = a \o b
  BY DEF RemoveAt, a, b
<1>6. ASSUME NEW i \in 1 .. n - 1
      PROVE  RemoveAt(s, k)[i] = IF i < k THEN s[i] ELSE s[i + 1]
  <2>1. CASE i < k
    BY <1>1, <1>2, <1>4, <1>5, <2>1
  <2>2. CASE ~(i < k)
    <3>1. i - (k - 1) \in 1 .. n - k /\ (i - (k - 1)) + k = i + 1 /\ ~(i <= k - 1)
      BY <1>1, <2>2
    <3> QED BY <1>1, <1>3, <1>4, <1>5, <2>2, <3>1
  <2> QED BY <2>1, <2>2
<1> QED BY <1>4, <1>5, <1>6

LEMMA TimesInRemoved ==
  ASSUME NEW S, NEW s \in Seq(S), NEW k \in 1 .. Len(s), NEW X
  PROVE  Times(s, X) = Times(RemoveAt(s, k), X) + (IF s[k] \in X THEN 1 ELSE 0)
<1> DEFINE N == Len(s)
           t == RemoveAt(s, k)
           A == Where(s, X) \ {k}
           B == Where(t, X)
           f == [i \in B |-> IF i < k THEN i ELSE i + 1]
<1>1. N \in Nat /\ DOMAIN s = 1 .. N /\ k \in 1 .. N /\ k \in Nat
  OBVIOUS
<1>2. /\ t \in Seq(S) /\ Len(t) = N - 1 /\ DOMAIN t = 1 .. N - 1
      /\ \A i \in 1 .. N - 1 : t[i] = IF i < k THEN s[i] ELSE s[i + 1]
  <2>1. /\ t \in Seq(S) /\ Len(t) = N - 1
        /\ \A i \in 1 .. N - 1 : t[i] = IF i < k THEN s[i] ELSE s[i + 1]
    BY RemovedAt
  <2> HIDE DEF t, N
  <2> QED BY <2>1
<1> HIDE DEF N, t
<1>3. B \subseteq 1 .. N - 1 /\ A \subseteq 1 .. N
  BY <1>1, <1>2 DEF Where
<1>4. ASSUME NEW i \in B PROVE f[i] \in A
  <2>1. i \in 1 .. N - 1 /\ t[i] \in X
    BY <1>2 DEF Where
  <2>2. f[i] = IF i < k THEN i ELSE i + 1
    OBVIOUS
  <2>3. f[i] \in 1 .. N /\ f[i] # k /\ s[f[i]] = t[i]
    BY <1>1, <1>2, <2>1, <2>2
  <2> QED BY <1>1, <2>1, <2>3 DEF Where
<1>5. ASSUME NEW i \in B, NEW j \in B, f[i] = f[j] PROVE i = j
  <2>1. i \in 1 .. N - 1 /\ j \in 1 .. N - 1
    BY <1>3
  <2>2. f[i] = (IF i < k THEN i ELSE i + 1) /\ f[j] = (IF j < k THEN j ELSE j + 1)
    OBVIOUS
  <2> QED BY <1>1, <1>5, <2>1, <2>2
<1>6. ASSUME NEW j \in A PROVE \E i \in B : f[i] = j
  <2>1. j \in 1 .. N /\ j # k /\ s[j] \in X
    BY <1>1 DEF Where
  <2> DEFINE i == IF j < k THEN j ELSE j - 1
  <2>2. i \in 1 .. N - 1 /\ j = IF i < k THEN i ELSE i + 1
    BY <1>1, <2>1
  <2> HIDE DEF i
  <2>3. t[i] = s[j]
    BY <1>2, <2>2
  <2>4. i \in B
    BY <1>2, <2>1, <2>2, <2>3 DEF Where
  <2> QED BY <2>2, <2>4
<1>7. f \in Bijection(B, A)
  <2>1. f \in [B -> A]
    BY <1>4
  <2> HIDE DEF f, A, B
  <2>2. f \in Injection(B, A)
    BY <1>5, <2>1 DEF Injection, IsInjective
  <2>3. f \in Surjection(B, A)
    BY <1>6, <2>1 DEF Surjection
  <2> QED BY <2>2, <2>3 DEF Bijection
<1>8. IsFiniteSet(B) /\ Cardinality(B) = Times(t, X) /\ Times(t, X) \in Nat
  BY <1>2, WhereIsFinite
<1>9. Cardinality(A) = Cardinality(B)
  BY <1>7, <1>8, FS_Bijection DEF ExistsBijection
<1>10. /\ IsFiniteSet(Where(s, X)) /\ Times(s, X) = Cardinality(Where(s, X)) /\ Times(s, X) \in Nat
       /\ Cardinality(A) = IF k \in Where(s, X) THEN Cardinality(Where(s, X)) - 1 ELSE Cardinality(Where(s, X))
  BY WhereIsFinite, FS_RemoveElement
<1>11. k \in Where(s, X) <=> s[k] \in X
  BY <1>1 DEF Where
<1>12. Times(s, X) = Times(t, X) + (IF s[k] \in X THEN 1 ELSE 0)
  <2> HIDE DEF A, B
  <2> QED BY <1>8, <1>9, <1>10, <1>11
<1> QED BY <1>12 DEF t

\* How often among the first k.
Upto(seq, k, set) == Cardinality({n \in 1 .. k : seq[n] \in set})

LEMMA UptoFacts ==
  ASSUME NEW S, NEW s \in Seq(S), NEW X
  PROVE  /\ Upto(s, 0, X) = 0 /\ Upto(s, Len(s), X) = Times(s, X)
         /\ \A k \in 0 .. Len(s) : Upto(s, k, X) \in Nat /\ Upto(s, k, X) <= Times(s, X)
         /\ \A k \in 1 .. Len(s) : Upto(s, k, X) = Upto(s, k - 1, X) + (IF s[k] \in X THEN 1 ELSE 0)
<1> DEFINE N == Len(s)
           A(k) == {n \in 1 .. k : s[n] \in X}
<1>1. N \in Nat /\ DOMAIN s = 1 .. N
  OBVIOUS
<1> HIDE DEF N
<1>2. A(0) = {} /\ A(N) = Where(s, X)
  BY <1>1 DEF Where
<1>3. ASSUME NEW k \in 0 .. N PROVE A(k) \in SUBSET Where(s, X)
  <2>1. 1 .. k \subseteq 1 .. N
    BY <1>1
  <2> QED BY <1>1, <2>1 DEF Where
<1>4. /\ IsFiniteSet(Where(s, X)) /\ Times(s, X) = Cardinality(Where(s, X)) /\ Times(s, X) \in Nat
  BY WhereIsFinite
<1>5. \A k \in 0 .. N : IsFiniteSet(A(k)) /\ Cardinality(A(k)) <= Times(s, X)
  BY <1>3, <1>4, FS_Subset
<1>6. ASSUME NEW k \in 1 .. N
      PROVE  Cardinality(A(k)) = Cardinality(A(k - 1)) + (IF s[k] \in X THEN 1 ELSE 0)
  <2>1. k - 1 \in 0 .. N /\ k \notin A(k - 1)
    BY <1>1
  <2>2. A(k) = IF s[k] \in X THEN A(k - 1) \cup {k} ELSE A(k - 1)
    BY <1>1
  <2>3. IsFiniteSet(A(k - 1)) /\ Cardinality(A(k - 1)) \in Nat
    BY <1>5, <2>1, FS_CardinalityType
  <2> HIDE DEF A
  <2>4. Cardinality(A(k - 1) \cup {k}) = Cardinality(A(k - 1)) + 1
    BY <2>1, <2>3, FS_AddElement
  <2>5. CASE s[k] \in X
    BY <2>2, <2>4, <2>5
  <2>6. CASE s[k] \notin X
    BY <2>2, <2>3, <2>6
  <2> QED BY <2>5, <2>6
<1>7. \A k \in 0 .. N : Cardinality(A(k)) \in Nat
  BY <1>5, FS_CardinalityType
<1>8. \A k : Upto(s, k, X) = Cardinality(A(k))
  BY DEF Upto
<1> HIDE DEF A
<1>9. Upto(s, 0, X) = 0
  BY <1>2, <1>8, FS_EmptySet
<1> QED BY <1>2, <1>4, <1>5, <1>6, <1>7, <1>8, <1>9 DEF N

-----------------------------------------------------------------------------
(* Folds *)

\* The function by which something is done in turn for the first N numbers.
IsFold(iter, next, base, U, N) ==
  /\ iter \in [SUBSET (1 .. N) -> U]
  /\ \A s \in SUBSET (1 .. N) :
       iter[s] = IF s = {} THEN base ELSE next[Max(s)][iter[s \ {Max(s)}]]

\* That function exists.
LEMMA FoldExists ==
  ASSUME NEW U, NEW base \in U, NEW N \in Nat, NEW next \in [1 .. N -> [U -> U]]
  PROVE  \E iter : IsFold(iter, next, base, U, N)
<1> DEFINE Bad == {n \in Nat : n <= N /\ ~\E iter : IsFold(iter, next, base, U, n)}
<1>1. ASSUME Bad # {} PROVE FALSE
  <2>1. PICK n \in Bad : \A k \in Bad : n <= k
    <3>1. Bad \subseteq Nat
      OBVIOUS
    <3> HIDE DEF Bad
    <3> QED BY <1>1, <3>1, LeastNumber
  <2>2. CASE n = 0
    <3> DEFINE iter == [s \in SUBSET (1 .. 0) |-> base]
    <3>1. \A s \in SUBSET (1 .. 0) : s = {}
      OBVIOUS
    <3>2. IsFold(iter, next, base, U, 0)
      BY <3>1 DEF IsFold
    <3> QED BY <2>2, <3>2
  <2>3. CASE n # 0
    <3>1. n \in 1 .. N /\ n - 1 \in Nat /\ n - 1 \notin Bad
      BY <2>1, <2>3
    <3>2. PICK iter : IsFold(iter, next, base, U, n - 1)
      BY <3>1
    <3>3. iter \in [SUBSET (1 .. n - 1) -> U] /\ next[n] \in [U -> U]
      BY <3>1, <3>2 DEF IsFold
    <3> DEFINE more == [s \in SUBSET (1 .. n) |->
                          IF n \in s THEN next[n][iter[s \ {n}]] ELSE iter[s]]
    <3>4. ASSUME NEW s \in SUBSET (1 .. n) PROVE s \ {n} \in SUBSET (1 .. n - 1)
      BY <3>1
    <3>5. more \in [SUBSET (1 .. n) -> U]
      <4>1. ASSUME NEW s \in SUBSET (1 .. n)
            PROVE  (IF n \in s THEN next[n][iter[s \ {n}]] ELSE iter[s]) \in U
        <5>1. iter[s \ {n}] \in U
          BY <3>3, <3>4
        <5>2. n \notin s => s \ {n} = s
          OBVIOUS
        <5>3. CASE n \in s
          BY <3>3, <5>1, <5>3
        <5>4. CASE n \notin s
          BY <5>1, <5>2, <5>4
        <5> QED BY <5>3, <5>4
      <4> QED BY <4>1
    <3>6. ASSUME NEW s \in SUBSET (1 .. n)
          PROVE  more[s] = IF s = {} THEN base ELSE next[Max(s)][more[s \ {Max(s)}]]
      <4>1. \A k \in s : k \in 0 .. n
        BY <3>1
      <4>2. CASE s = {}
        <5>1. iter[s] = base
          BY <4>2, <3>2 DEF IsFold
        <5> QED BY <4>2, <5>1
      <4>3. CASE n \in s
        <5>1. Max(s) = n
          <6>1. Max(s) \in s /\ Max(s) >= n
            BY <3>1, <4>1, <4>3, Greatest
          <6>2. Max(s) \in 1 .. n
            BY <6>1
          <6> QED BY <3>1, <6>1, <6>2
        <5>2. s \ {n} \in SUBSET (1 .. n) /\ n \notin s \ {n} /\ s # {}
          BY <4>3
        <5>3. more[s \ {n}] = iter[s \ {n}] /\ more[s] = next[n][iter[s \ {n}]]
          BY <5>2, <4>3
        <5> HIDE DEF more
        <5> QED BY <5>1, <5>2, <5>3
      <4>4. CASE n \notin s /\ s # {}
        <5>1. Max(s) \in s
          BY <3>1, <4>1, <4>4, Greatest
        <5>2. s \in SUBSET (1 .. n - 1)
          BY <3>4, <4>4
        <5>3. iter[s] = next[Max(s)][iter[s \ {Max(s)}]]
          BY <5>1, <5>2, <4>4, <3>2 DEF IsFold
        <5>4. more[s \ {Max(s)}] = iter[s \ {Max(s)}] /\ more[s] = iter[s]
          BY <4>4
        <5> HIDE DEF more
        <5> QED BY <5>3, <5>4, <4>4
      <4> QED BY <4>2, <4>3, <4>4
    <3> HIDE DEF more
    <3>7. IsFold(more, next, base, U, n)
      BY <3>5, <3>6 DEF IsFold
    <3> QED BY <2>1, <3>7
  <2> QED BY <2>2, <2>3
<1>2. N \in Nat /\ N <= N
  OBVIOUS
<1> QED BY <1>1, <1>2

Gathered(found, e, set) == IF e \in set THEN Append(found, e) ELSE found

IsGathering(iter, seq, set) ==
  iter = [s \in SUBSET DOMAIN seq |->
            IF s = {} THEN <<>> ELSE Gathered(iter[s \ {Max(s)}], seq[Max(s)], set)]

LEMMA AmongFolds ==
  ASSUME NEW S, NEW seq \in Seq(S), NEW set
  PROVE  \E iter : IsGathering(iter, seq, set) /\ Among(seq, set) = iter[DOMAIN seq]
<1> DEFINE N == Len(seq)
           next == [n \in 1 .. N |-> [found \in Seq(S) |-> Gathered(found, seq[n], set)]]
<1>1. N \in Nat /\ DOMAIN seq = 1 .. N
  OBVIOUS
<1> HIDE DEF N
<1>2. next \in [1 .. N -> [Seq(S) -> Seq(S)]]
  <2>1. ASSUME NEW n \in 1 .. N, NEW found \in Seq(S)
        PROVE  Gathered(found, seq[n], set) \in Seq(S)
    BY <1>1 DEF Gathered
  <2> QED BY <2>1
<1>3. PICK fold : IsFold(fold, next, <<>>, Seq(S), N)
  <2>1. <<>> \in Seq(S)
    OBVIOUS
  <2> HIDE DEF next
  <2> QED BY <1>1, <1>2, <2>1, FoldExists
<1>4. IsGathering(fold, seq, set)
  <2>1. ASSUME NEW s \in SUBSET (1 .. N), s # {}
        PROVE  fold[s] = Gathered(fold[s \ {Max(s)}], seq[Max(s)], set)
    <3>1. Max(s) \in 1 .. N
      <4>1. \A k \in s : k \in 0 .. N
        BY <1>1
      <4> QED BY <1>1, <2>1, <4>1, Greatest
    <3>2. fold[s \ {Max(s)}] \in Seq(S)
      BY <1>3 DEF IsFold
    <3> QED BY <1>3, <2>1, <3>1, <3>2 DEF IsFold
  <2> QED BY <1>1, <1>3, <2>1 DEF IsGathering, IsFold
<1>5. PICK iter : iter = CHOOSE g : IsGathering(g, seq, set)
  OBVIOUS
<1>6. IsGathering(iter, seq, set)
  BY <1>4, <1>5
<1>7. Among(seq, set) = iter[DOMAIN seq]
  BY <1>5 DEF Among, FoldLeft, MapThenFoldSet, IsGathering, Gathered
<1> QED BY <1>6, <1>7

\* What is gathered occurs as often as before, and nothing else does.
LEMMA AmongFacts ==
  ASSUME NEW S, NEW seq \in Seq(S), NEW set
  PROVE  /\ Among(seq, set) \in Seq(S)
         /\ \A X : Times(Among(seq, set), X) = Times(seq, X \cap set)
<1> DEFINE N == Len(seq)
<1>1. N \in Nat /\ DOMAIN seq = 1 .. N
  OBVIOUS
<1>2. PICK iter : IsGathering(iter, seq, set) /\ Among(seq, set) = iter[DOMAIN seq]
  BY AmongFolds
<1> DEFINE IsRight(k) == /\ iter[1 .. k] \in Seq(S)
                         /\ \A X : Times(iter[1 .. k], X) = Upto(seq, k, X \cap set)
           Bad == {k \in 0 .. N : ~IsRight(k)}
<1>3. ASSUME NEW k \in 1 .. N
      PROVE  iter[1 .. k] = Gathered(iter[1 .. k - 1], seq[k], set)
  <2>1. 1 .. k \in SUBSET (1 .. N) /\ k \in Nat /\ k # 0 /\ k \in 1 .. k
    BY <1>1
  <2>2. Max(1 .. k) = k /\ (1 .. k) \ {k} = 1 .. k - 1
    BY <2>1, LastOfFirst
  <2> QED BY <1>1, <1>2, <2>1, <2>2 DEF IsGathering
<1>4. IsRight(0)
  <2>1. 1 .. 0 = {} /\ iter[1 .. 0] = <<>>
    BY <1>1, <1>2 DEF IsGathering
  <2>2. <<>> \in Seq(S)
    OBVIOUS
  <2> QED BY <2>1, <2>2, TimesOfNone, UptoFacts
<1>5. ASSUME NEW k \in 1 .. N, IsRight(k - 1) PROVE IsRight(k)
  <2> DEFINE r == iter[1 .. k - 1]
             t == iter[1 .. k]
             e == seq[k]
  <2>1. r \in Seq(S) /\ e \in S /\ t = Gathered(r, e, set)
    BY <1>1, <1>3, <1>5
  <2>2. \A X : Times(r, X) = Upto(seq, k - 1, X \cap set)
    BY <1>5
  <2>3. \A X : Upto(seq, k, X \cap set) = Upto(seq, k - 1, X \cap set)
                                           + (IF e \in X \cap set THEN 1 ELSE 0)
    <3>1. k \in 1 .. Len(seq)
      OBVIOUS
    <3> HIDE DEF N
    <3> QED BY <3>1, UptoFacts
  <2> HIDE DEF r, t, e
  <2>4. t \in Seq(S)
    BY <2>1 DEF Gathered
  <2>5. ASSUME NEW X PROVE Times(t, X) = Upto(seq, k, X \cap set)
    <3>1. Times(r, X) \in Nat
      BY <2>1, WhereIsFinite
    <3>2. CASE e \in set
      <4>1. Times(t, X) = Times(r, X) + (IF e \in X THEN 1 ELSE 0)
        BY <2>1, <3>2, TimesInAppended DEF Gathered
      <4> QED BY <2>2, <2>3, <3>2, <4>1
    <3>3. CASE e \notin set
      <4>1. t = r /\ e \notin X \cap set
        BY <2>1, <3>3 DEF Gathered
      <4> QED BY <2>2, <2>3, <3>1, <4>1
    <3> QED BY <3>2, <3>3
  <2> QED BY <2>4, <2>5 DEF t
<1>6. IsRight(N)
  <2> SUFFICES ASSUME Bad # {} PROVE FALSE
    <3>1. N \in 0 .. N
      BY <1>1
    <3>2. Bad = {} => IsRight(N)
      <4> HIDE DEF IsRight, N
      <4> QED BY <3>1
    <3> QED BY <3>2
  <2>1. Bad \subseteq Nat
    BY <1>1
  <2>2. PICK k \in Bad : \A j \in Bad : k <= j
    <3> HIDE DEF Bad
    <3> QED BY <2>1, LeastNumber
  <2>3. k # 0
    BY <1>4, <2>2
  <2>4. k \in 1 .. N /\ k - 1 \in 0 .. N /\ ~(k <= k - 1)
    <3> HIDE DEF IsRight, N
    <3> QED BY <1>1, <2>2, <2>3
  <2>5. IsRight(k - 1)
    <3> HIDE DEF IsRight
    <3> QED BY <2>2, <2>4
  <2> HIDE DEF IsRight
  <2> QED BY <1>5, <2>2, <2>4, <2>5
<1> QED BY <1>1, <1>2, <1>6, UptoFacts

-----------------------------------------------------------------------------
(* Disconnecting *)

Transports(p) == {Transport(path) : path \in Paths(p)}
Inputs(p) == [vt : PortTypes, transports : Seq(Transports(p))]

\* Pipelines that differ in their transports only.
SameReceivers(p) == {i \in [Ported(p) -> Inputs(p)] : \A t \in Ported(p) : i[t].vt = p.inputs[t].vt}
Reconnected(p) == {[p EXCEPT !.inputs = i] : i \in SameReceivers(p)}

LEMMA PipelineShape ==
  ASSUME NEW p, IsPipeline(p)
  PROVE  /\ p = [nodes |-> p.nodes, links |-> p.links, cells |-> p.cells,
                 inputs |-> p.inputs, status |-> p.status]
         /\ p.nodes = [path \in Paths(p) |-> p.nodes[path]]
         /\ \A path \in Paths(p) : IsNode(p.nodes[path])
         /\ p.links \in Seq(Links(p))
         /\ p.cells \in [DOMAIN p.cells -> PortTypes] /\ DOMAIN p.cells \subseteq Ported(p)
         /\ p.inputs \in [Ported(p) -> Inputs(p)]
BY DEF IsPipeline, Inputs, Transports

LEMMA OtherInputs ==
  ASSUME NEW p, IsPipeline(p), NEW i
  PROVE  /\ [p EXCEPT !.inputs = i] = [nodes |-> p.nodes, links |-> p.links, cells |-> p.cells,
                                       inputs |-> i, status |-> p.status]
         /\ i = p.inputs => [p EXCEPT !.inputs = i] = p
<1>1. p \in [nodes : {p.nodes}, links : {p.links}, cells : {p.cells}, inputs : {p.inputs}, status : {p.status}]
  BY DEF IsPipeline
<1>2. [p EXCEPT !.inputs = i] = [nodes |-> p.nodes, links |-> p.links, cells |-> p.cells,
                                 inputs |-> i, status |-> p.status]
  BY <1>1
<1> QED BY <1>2, PipelineShape

LEMMA ReconnectedShape ==
  ASSUME NEW p, IsPipeline(p), NEW q \in Reconnected(p)
  PROVE  /\ q.nodes = p.nodes /\ q.links = p.links /\ q.cells = p.cells /\ q.status = p.status
         /\ q.inputs \in SameReceivers(p)
         /\ Paths(q) = Paths(p) /\ Ported(q) = Ported(p) /\ Links(q) = Links(p)
         /\ IsPipeline(q)
         /\ \A i \in SameReceivers(p) : [q EXCEPT !.inputs = i] \in Reconnected(p)
<1>1. PICK i \in SameReceivers(p) : q = [p EXCEPT !.inputs = i]
  BY DEF Reconnected
<1>2. /\ q = [nodes |-> p.nodes, links |-> p.links, cells |-> p.cells, inputs |-> i, status |-> p.status]
      /\ q.nodes = p.nodes /\ q.links = p.links /\ q.cells = p.cells /\ q.status = p.status
      /\ q.inputs = i
  BY <1>1, OtherInputs
<1>3. Paths(q) = Paths(p) /\ Ported(q) = Ported(p) /\ Links(q) = Links(p)
  BY <1>2 DEF Paths, Ported, Links
<1>4. i \in [Ported(p) -> Inputs(p)]
  BY DEF SameReceivers
<1>5. IsPipeline(q)
  <2>1. i \in [Ported(q) -> [vt : PortTypes, transports : Seq({Transport(path) : path \in Paths(q)})]]
    BY <1>3, <1>4 DEF Inputs, Transports
  <2>2. /\ q.nodes = [path \in Paths(q) |-> q.nodes[path]]
        /\ \A path \in Paths(q) : IsNode(q.nodes[path])
        /\ q.links \in Seq(Links(q))
        /\ q.cells \in [DOMAIN q.cells -> PortTypes] /\ DOMAIN q.cells \subseteq Ported(q)
    BY <1>2, <1>3, PipelineShape
  <2>3. q \in [nodes : {q.nodes}, links : Seq(Links(q)), cells : [DOMAIN q.cells -> PortTypes],
               inputs : [Ported(q) -> [vt : PortTypes, transports : Seq({Transport(path) : path \in Paths(q)})]],
               status : {q.status}]
    BY <1>2, <2>1, <2>2
  <2> QED BY <2>2, <2>3 DEF IsPipeline
<1>6. ASSUME NEW j \in SameReceivers(p) PROVE [q EXCEPT !.inputs = j] \in Reconnected(p)
  <2>1. [q EXCEPT !.inputs = j] = [p EXCEPT !.inputs = j]
    BY <1>1, <1>2, <1>5, OtherInputs
  <2> QED BY <2>1 DEF Reconnected
<1> QED BY <1>2, <1>3, <1>5, <1>6

LEMMA ReconnectedItself ==
  ASSUME NEW p, IsPipeline(p)
  PROVE  p \in Reconnected(p)
<1>1. p.inputs \in SameReceivers(p)
  BY PipelineShape DEF SameReceivers
<1>2. p = [p EXCEPT !.inputs = p.inputs]
  BY OtherInputs
<1> QED BY <1>1, <1>2 DEF Reconnected

LEMMA TransportsDiffer ==
  ASSUME NEW a, NEW b
  PROVE  Transport(a).name = a /\ (Transport(a) = Transport(b) => a = b)
<1>1. Transport(a).name = a /\ Transport(b).name = b
  BY DEF Transport
<1> QED BY <1>1

\* A transport from the source is unplugged if there is one.
LEMMA UnpluggedFacts ==
  ASSUME NEW P, NEW ts \in Seq({Transport(path) : path \in P}), NEW name \in P
  PROVE  /\ Unplugged(ts, name) \in Seq({Transport(path) : path \in P})
         /\ \A source \in P :
              Times(ts, {Transport(source)}) = Times(Unplugged(ts, name), {Transport(source)})
                + (IF source = name /\ Times(ts, {Transport(name)}) # 0 THEN 1 ELSE 0)
         /\ Times(ts, {Transport(name)}) = 0 => Unplugged(ts, name) = ts
<1> DEFINE T == {Transport(path) : path \in P}
           named == {n \in DOMAIN ts : ts[n].name = name}
<1>1. DOMAIN ts = 1 .. Len(ts) /\ Len(ts) \in Nat /\ \A n \in DOMAIN ts : ts[n] \in T
  OBVIOUS
<1>2. \A n \in DOMAIN ts : ts[n].name = name <=> ts[n] \in {Transport(name)}
  BY <1>1, TransportsDiffer
<1>3. Times(ts, {Transport(name)}) = 0 <=> named = {}
  <2>1. Times(ts, {Transport(name)}) = 0 <=> \A n \in DOMAIN ts : ts[n] \notin {Transport(name)}
    BY TimesIsZero
  <2> QED BY <1>2, <2>1
<1>4. CASE named = {}
  <2>1. Unplugged(ts, name) = ts
    BY <1>4 DEF Unplugged
  <2>2. \A source \in P : Times(ts, {Transport(source)}) \in Nat
    BY WhereIsFinite
  <2> QED BY <1>3, <1>4, <2>1, <2>2
<1>5. CASE named # {}
  <2> DEFINE k == Min(named)
  <2>1. named \subseteq Nat
    BY <1>1
  <2>2. k \in named
    <3> HIDE DEF named
    <3> QED BY <1>5, <2>1, Least
  <2>3. Unplugged(ts, name) = RemoveAt(ts, k)
    BY <1>5 DEF Unplugged
  <2>4. k \in 1 .. Len(ts) /\ ts[k] = Transport(name)
    BY <1>1, <1>2, <2>2
  <2> HIDE DEF k, named
  <2>5. RemoveAt(ts, k) \in Seq(T)
    BY <2>4, RemovedAt
  <2>6. ASSUME NEW source \in P
        PROVE  Times(ts, {Transport(source)}) = Times(RemoveAt(ts, k), {Transport(source)})
                 + (IF source = name THEN 1 ELSE 0)
    <3>1. Times(ts, {Transport(source)}) = Times(RemoveAt(ts, k), {Transport(source)})
            + (IF ts[k] \in {Transport(source)} THEN 1 ELSE 0)
      BY <2>4, TimesInRemoved
    <3>2. ts[k] \in {Transport(source)} <=> source = name
      BY <2>4, TransportsDiffer
    <3> QED BY <3>1, <3>2
  <2> QED BY <1>3, <1>5, <2>3, <2>5, <2>6
<1> QED BY <1>4, <1>5

LEMMA ReadsAreCounted ==
  ASSUME NEW p, IsPipeline(p)
  PROVE  \A target \in Ported(p) : \A source \in Paths(p) : Reads(p, target, source) \in Nat
<1>1. \A target \in Ported(p) : p.inputs[target].transports \in Seq(Transports(p))
  BY PipelineShape DEF Inputs
<1> QED BY <1>1, WhereIsFinite DEF Reads

\* Of what an input reads one is taken, if there is one and the link is theirs.
TakesOne(p, q, l, target, source) ==
  Reads(p, target, source) = Reads(q, target, source)
    + (IF target = l.target /\ source = l.source /\ Reads(p, target, source) # 0 THEN 1 ELSE 0)

\* Disconnecting a link of the type of its receiver takes one transport from its
\* source, if there is one, and nothing else.
LEMMA DisconnectFacts ==
  ASSUME NEW p, IsPipeline(p), NEW l \in Links(p), l.target \in Ported(p),
         p.inputs[l.target].vt = l.vt
  PROVE  /\ Disconnect(p, l) \in Reconnected(p)
         /\ \A target \in Ported(p) : \A source \in Paths(p) :
              TakesOne(p, Disconnect(p, l), l, target, source)
         /\ Reads(p, l.target, l.source) = 0 => Disconnect(p, l) = p
<1> DEFINE ts == p.inputs[l.target].transports
           q == Disconnect(p, l)
<1>1. l.source \in Paths(p) /\ p.inputs \in [Ported(p) -> Inputs(p)] /\ DOMAIN p.inputs = Ported(p)
  BY PipelineShape DEF Links
<1>2. \A target \in Ported(p) : p.inputs[target].transports \in Seq({Transport(path) : path \in Paths(p)})
  BY <1>1 DEF Inputs, Transports
<1>3. \A target \in Ported(p) : \A source \in Paths(p) : Reads(p, target, source) \in Nat
  BY ReadsAreCounted
<1>4. CASE ts = <<>>
  <2>1. q = p
    BY <1>4 DEF Disconnect
  <2>2. \A source \in Paths(p) : Reads(p, l.target, source) = 0
    BY <1>4, TimesOfNone DEF Reads
  <2>3. p \in Reconnected(p)
    BY ReconnectedItself
  <2>4. ASSUME NEW target \in Ported(p), NEW source \in Paths(p)
        PROVE  TakesOne(p, p, l, target, source)
    BY <1>3, <2>2 DEF TakesOne
  <2> QED BY <2>1, <2>3, <2>4
<1>5. CASE ts # <<>>
  <2> DEFINE i == [p.inputs EXCEPT ![l.target].transports = Unplugged(ts, l.source)]
  <2>1. q = [p EXCEPT !.inputs = i]
    BY <1>1, <1>5 DEF Disconnect
  <2>2. ts \in Seq({Transport(path) : path \in Paths(p)})
    BY <1>2
  <2>3. /\ Unplugged(ts, l.source) \in Seq({Transport(path) : path \in Paths(p)})
        /\ \A source \in Paths(p) :
             Times(ts, {Transport(source)}) = Times(Unplugged(ts, l.source), {Transport(source)})
               + (IF source = l.source /\ Times(ts, {Transport(l.source)}) # 0 THEN 1 ELSE 0)
        /\ Times(ts, {Transport(l.source)}) = 0 => Unplugged(ts, l.source) = ts
    <3> HIDE DEF ts
    <3> QED BY <1>1, <2>2, UnpluggedFacts
  <2>4. i \in SameReceivers(p)
    BY <1>1, <2>3 DEF SameReceivers, Inputs, Transports
  <2>5. q.inputs = i
    BY <2>1, OtherInputs
  <2>6. \A target \in Ported(p) :
          i[target].transports = IF target = l.target THEN Unplugged(ts, l.source)
                                 ELSE p.inputs[target].transports
    BY <1>1 DEF Inputs
  <2>7. Unplugged(ts, l.source) = ts => i = p.inputs
    BY <1>1 DEF Inputs
  <2>8. p = [p EXCEPT !.inputs = p.inputs]
    BY OtherInputs
  <2>9. q \in Reconnected(p)
    BY <2>1, <2>4 DEF Reconnected
  <2>10. Reads(p, l.target, l.source) = 0 => q = p
    BY <2>1, <2>3, <2>7, <2>8 DEF Reads
  <2>11. ASSUME NEW target \in Ported(p), NEW source \in Paths(p)
         PROVE  TakesOne(p, q, l, target, source)
    <3> HIDE DEF q, i
    <3>1. CASE target = l.target
      BY <2>3, <2>5, <2>6, <3>1 DEF TakesOne, Reads
    <3>2. CASE target # l.target
      <4>1. Reads(p, target, source) \in Nat
        BY <1>3
      <4>2. Reads(q, target, source) = Reads(p, target, source)
        BY <2>5, <2>6, <3>2 DEF Reads
      <4> QED BY <3>2, <4>1, <4>2 DEF TakesOne
    <3> QED BY <3>1, <3>2
  <2> QED BY <2>9, <2>10, <2>11
<1> QED BY <1>4, <1>5

\* One disconnection after another.
LEMMA DisconnectAgain ==
  ASSUME NEW p, IsPipeline(p), NEW q \in Reconnected(p),
         NEW l \in Links(p), l.target \in Ported(p), p.inputs[l.target].vt = l.vt
  PROVE  /\ Disconnect(q, l) \in Reconnected(p)
         /\ \A target \in Ported(p) : \A source \in Paths(p) :
              TakesOne(q, Disconnect(q, l), l, target, source)
<1>1. /\ IsPipeline(q) /\ q.inputs \in SameReceivers(p)
      /\ Paths(q) = Paths(p) /\ Ported(q) = Ported(p) /\ Links(q) = Links(p)
      /\ \A i \in SameReceivers(p) : [q EXCEPT !.inputs = i] \in Reconnected(p)
  BY ReconnectedShape
<1>2. q.inputs[l.target].vt = l.vt
  BY <1>1 DEF SameReceivers
<1>3. Disconnect(q, l) \in Reconnected(q)
  BY <1>1, <1>2, DisconnectFacts
<1>4. SameReceivers(q) = SameReceivers(p)
  <2>1. Inputs(q) = Inputs(p)
    BY <1>1 DEF Inputs, Transports
  <2>2. \A t \in Ported(p) : q.inputs[t].vt = p.inputs[t].vt
    BY <1>1 DEF SameReceivers
  <2> QED BY <1>1, <2>1, <2>2 DEF SameReceivers
<1>5. Disconnect(q, l) \in Reconnected(p)
  <2>1. PICK i \in SameReceivers(q) : Disconnect(q, l) = [q EXCEPT !.inputs = i]
    BY <1>3 DEF Reconnected
  <2> QED BY <1>1, <1>4, <2>1
<1>6. \A target \in Ported(p) : \A source \in Paths(p) :
        TakesOne(q, Disconnect(q, l), l, target, source)
  BY <1>1, <1>2, DisconnectFacts
<1> QED BY <1>5, <1>6

\* Links that the worker has receivers of the right type for.
Known(p, links) ==
  /\ links \in Seq(Links(p))
  /\ \A n \in DOMAIN links :
       links[n].target \in Ported(p) /\ p.inputs[links[n].target].vt = links[n].vt

IsDisconnecting(iter, p, links) ==
  iter = [s \in SUBSET DOMAIN links |->
            IF s = {} THEN p ELSE Disconnect(iter[s \ {Max(s)}], links[Max(s)])]

LEMMA DisconnectAllFolds ==
  ASSUME NEW p, IsPipeline(p), NEW links, Known(p, links)
  PROVE  \E iter : IsDisconnecting(iter, p, links) /\ DisconnectAll(p, links) = iter[DOMAIN links]
<1> DEFINE N == Len(links)
           U == Reconnected(p)
           next == [n \in 1 .. N |-> [q \in U |-> Disconnect(q, links[n])]]
<1>1. N \in Nat /\ DOMAIN links = 1 .. N /\ \A n \in 1 .. N : links[n] \in Links(p)
  BY DEF Known
<1> HIDE DEF N
<1>2. next \in [1 .. N -> [U -> U]]
  <2>1. ASSUME NEW n \in 1 .. N, NEW q \in U PROVE Disconnect(q, links[n]) \in U
    BY <1>1, DisconnectAgain DEF Known
  <2> HIDE DEF U
  <2> QED BY <2>1
<1>3. PICK fold : IsFold(fold, next, p, U, N)
  <2>1. p \in U
    BY ReconnectedItself
  <2> HIDE DEF next, U
  <2> QED BY <1>1, <1>2, <2>1, FoldExists
<1> HIDE DEF U
<1>4. IsDisconnecting(fold, p, links)
  <2>1. ASSUME NEW s \in SUBSET (1 .. N), s # {}
        PROVE  fold[s] = Disconnect(fold[s \ {Max(s)}], links[Max(s)])
    <3>1. Max(s) \in 1 .. N
      <4>1. \A k \in s : k \in 0 .. N
        BY <1>1
      <4> QED BY <1>1, <2>1, <4>1, Greatest
    <3>2. fold[s \ {Max(s)}] \in U
      BY <1>3 DEF IsFold
    <3> QED BY <1>3, <2>1, <3>1, <3>2 DEF IsFold
  <2> QED BY <1>1, <1>3, <2>1 DEF IsDisconnecting, IsFold
<1>5. PICK iter : iter = CHOOSE g : IsDisconnecting(g, p, links)
  OBVIOUS
<1>6. IsDisconnecting(iter, p, links)
  BY <1>4, <1>5
<1>7. DisconnectAll(p, links) = iter[DOMAIN links]
  BY <1>5 DEF DisconnectAll, FoldLeft, MapThenFoldSet, IsDisconnecting
<1> QED BY <1>6, <1>7

LEMMA DisconnectingInTurn ==
  ASSUME NEW p, NEW S, NEW links \in Seq(S), NEW iter, IsDisconnecting(iter, p, links)
  PROVE  /\ iter[1 .. 0] = p
         /\ \A k \in 1 .. Len(links) : iter[1 .. k] = Disconnect(iter[1 .. k - 1], links[k])
<1> DEFINE N == Len(links)
<1>1. N \in Nat /\ DOMAIN links = 1 .. N
  OBVIOUS
<1>2. ASSUME NEW k \in 1 .. N
      PROVE  iter[1 .. k] = Disconnect(iter[1 .. k - 1], links[k])
  <2>1. 1 .. k \in SUBSET (1 .. N) /\ k \in Nat /\ k # 0 /\ k \in 1 .. k
    BY <1>1
  <2>2. Max(1 .. k) = k /\ (1 .. k) \ {k} = 1 .. k - 1
    BY <2>1, LastOfFirst
  <2> QED BY <1>1, <2>1, <2>2 DEF IsDisconnecting
<1>3. 1 .. 0 = {} /\ iter[1 .. 0] = p
  BY <1>1 DEF IsDisconnecting
<1> QED BY <1>2, <1>3

\* Each link takes a transport from its source along, if there are as many.
LEMMA DisconnectAllFacts ==
  ASSUME NEW p, IsPipeline(p), NEW links, Known(p, links),
         \A target \in Ported(p) : \A source \in Paths(p) :
           Times(links, Between(source, target)) <= Reads(p, target, source)
  PROVE  /\ DisconnectAll(p, links) \in Reconnected(p)
         /\ \A target \in Ported(p) : \A source \in Paths(p) :
              Reads(p, target, source)
                = Reads(DisconnectAll(p, links), target, source) + Times(links, Between(source, target))
<1> DEFINE N == Len(links)
<1>1. N \in Nat /\ DOMAIN links = 1 .. N /\ links \in Seq(Links(p)) /\ \A n \in 1 .. N : links[n] \in Links(p)
  BY DEF Known
<1>2. PICK iter : IsDisconnecting(iter, p, links) /\ DisconnectAll(p, links) = iter[DOMAIN links]
  BY DisconnectAllFolds
<1>3. /\ iter[1 .. 0] = p
      /\ \A k \in 1 .. N : iter[1 .. k] = Disconnect(iter[1 .. k - 1], links[k])
  BY <1>1, <1>2, DisconnectingInTurn
<1> HIDE DEF N
<1> DEFINE IsRight(k) ==
             /\ iter[1 .. k] \in Reconnected(p)
             /\ \A target \in Ported(p) : \A source \in Paths(p) :
                  Reads(p, target, source) = Reads(iter[1 .. k], target, source)
                                             + Upto(links, k, Between(source, target))
           Bad == {k \in 0 .. N : ~IsRight(k)}
<1>4. ASSUME NEW q \in Reconnected(p), NEW target \in Ported(p), NEW source \in Paths(p)
      PROVE  Reads(q, target, source) \in Nat
  <2>1. IsPipeline(q) /\ Paths(q) = Paths(p) /\ Ported(q) = Ported(p)
    BY ReconnectedShape
  <2> QED BY <2>1, ReadsAreCounted
<1>5. IsRight(0)
  <2>1. p \in Reconnected(p)
    BY ReconnectedItself
  <2>2. ASSUME NEW target \in Ported(p), NEW source \in Paths(p)
        PROVE  Reads(p, target, source) = Reads(iter[1 .. 0], target, source)
                                          + Upto(links, 0, Between(source, target))
    <3>1. Upto(links, 0, Between(source, target)) = 0
      BY <1>1, UptoFacts
    <3>2. Reads(p, target, source) \in Nat
      BY <1>4, <2>1
    <3> QED BY <1>3, <3>1, <3>2
  <2> QED BY <1>3, <2>1, <2>2
<1>6. ASSUME NEW k \in 1 .. N, IsRight(k - 1) PROVE IsRight(k)
  <2> DEFINE q == iter[1 .. k - 1]
             r == iter[1 .. k]
             l == links[k]
  <2>1. l \in Links(p) /\ l.target \in Ported(p) /\ p.inputs[l.target].vt = l.vt
    BY <1>1 DEF Known
  <2>2. r = Disconnect(q, l) /\ q \in Reconnected(p)
    BY <1>3, <1>6
  <2> HIDE DEF q, r, l
  <2>3. /\ r \in Reconnected(p)
        /\ \A target \in Ported(p) : \A source \in Paths(p) : TakesOne(q, r, l, target, source)
    BY <2>1, <2>2, DisconnectAgain
  <2>4. ASSUME NEW target \in Ported(p), NEW source \in Paths(p)
        PROVE  Reads(p, target, source) = Reads(r, target, source) + Upto(links, k, Between(source, target))
    <3> DEFINE X == Between(source, target)
    <3>1. /\ Upto(links, k, X) = Upto(links, k - 1, X) + (IF l \in X THEN 1 ELSE 0)
          /\ Upto(links, k, X) \in Nat /\ Upto(links, k - 1, X) \in Nat
          /\ Upto(links, k, X) <= Times(links, X)
      <4>1. k \in 1 .. Len(links) /\ k \in 0 .. Len(links) /\ k - 1 \in 0 .. Len(links)
        BY <1>1 DEF N
      <4> HIDE DEF X
      <4> QED BY <1>1, <4>1, UptoFacts DEF l
    <3>2. l \in X <=> target = l.target /\ source = l.source
      BY <2>1 DEF Between, Links
    <3>3. Reads(p, target, source) = Reads(q, target, source) + Upto(links, k - 1, X)
      BY <1>6 DEF q
    <3>4. Times(links, X) <= Reads(p, target, source)
      OBVIOUS
    <3>5. Reads(q, target, source) \in Nat /\ Reads(r, target, source) \in Nat
      BY <1>4, <2>2, <2>3
    <3>6. Times(links, X) \in Nat
      BY <1>1, WhereIsFinite
    <3>7. /\ l \in X /\ Reads(q, target, source) # 0 => Reads(q, target, source) = Reads(r, target, source) + 1
          /\ l \notin X => Reads(q, target, source) = Reads(r, target, source)
      BY <2>3, <3>2, <3>5 DEF TakesOne
    <3> HIDE DEF X
    <3>8. l \in X => Reads(q, target, source) # 0
      BY <3>1, <3>3, <3>4, <3>5, <3>6
    <3> QED BY <3>1, <3>3, <3>5, <3>7, <3>8 DEF X
  <2> QED BY <2>3, <2>4 DEF r
<1>7. IsRight(N)
  <2> SUFFICES ASSUME Bad # {} PROVE FALSE
    <3>1. N \in 0 .. N
      BY <1>1
    <3>2. Bad = {} => IsRight(N)
      <4> HIDE DEF IsRight
      <4> QED BY <3>1
    <3> QED BY <3>2
  <2>1. Bad \subseteq Nat
    BY <1>1
  <2>2. PICK k \in Bad : \A j \in Bad : k <= j
    <3> HIDE DEF Bad
    <3> QED BY <2>1, LeastNumber
  <2> HIDE DEF IsRight
  <2>3. k # 0
    BY <1>5, <2>2
  <2>4. k \in 1 .. N /\ k - 1 \in 0 .. N /\ ~(k <= k - 1)
    BY <1>1, <2>2, <2>3
  <2>5. IsRight(k - 1)
    BY <2>2, <2>4
  <2> QED BY <1>6, <2>2, <2>4, <2>5
<1>8. \A X : Upto(links, N, X) = Times(links, X)
  BY <1>1, UptoFacts DEF N
<1> QED BY <1>1, <1>2, <1>7, <1>8

\* Links without a transport are disconnected to no effect.
LEMMA NothingToDisconnect ==
  ASSUME NEW p, IsPipeline(p), NEW links, Known(p, links),
         \A n \in DOMAIN links :
           Reads(p, links[n].target, links[n].source) = 0
  PROVE  DisconnectAll(p, links) = p
<1> DEFINE N == Len(links)
<1>1. N \in Nat /\ DOMAIN links = 1 .. N /\ links \in Seq(Links(p)) /\ \A n \in 1 .. N : links[n] \in Links(p)
  BY DEF Known
<1>2. PICK iter : IsDisconnecting(iter, p, links) /\ DisconnectAll(p, links) = iter[DOMAIN links]
  BY DisconnectAllFolds
<1>3. /\ iter[1 .. 0] = p
      /\ \A k \in 1 .. N : iter[1 .. k] = Disconnect(iter[1 .. k - 1], links[k])
  BY <1>1, <1>2, DisconnectingInTurn
<1> HIDE DEF N
<1>4. ASSUME NEW n \in 1 .. N PROVE Disconnect(p, links[n]) = p
  BY <1>1, DisconnectFacts DEF Known
<1> DEFINE Bad == {k \in 0 .. N : iter[1 .. k] # p}
<1>5. ASSUME Bad # {} PROVE FALSE
  <2>1. Bad \subseteq Nat
    BY <1>1
  <2>2. PICK k \in Bad : \A j \in Bad : k <= j
    <3> HIDE DEF Bad
    <3> QED BY <1>5, <2>1, LeastNumber
  <2>3. k # 0
    BY <1>3, <2>2
  <2>4. k \in 1 .. N /\ k - 1 \in 0 .. N /\ ~(k <= k - 1)
    BY <1>1, <2>2, <2>3
  <2>5. iter[1 .. k - 1] = p
    BY <2>2, <2>4
  <2> QED BY <1>3, <1>4, <2>2, <2>4, <2>5
<1>6. N \in 0 .. N
  BY <1>1
<1>7. iter[1 .. N] = p
  BY <1>5, <1>6
<1> QED BY <1>1, <1>2, <1>7

-----------------------------------------------------------------------------
(* Removing links *)

LEMMA AmongMembers ==
  ASSUME NEW S, NEW seq \in Seq(S), NEW set
  PROVE  ToSet(Among(seq, set)) = ToSet(seq) \cap set
<1> DEFINE r == Among(seq, set)
<1>1. r \in Seq(S) /\ \A X : Times(r, X) = Times(seq, X \cap set)
  BY AmongFacts
<1> HIDE DEF r
<1>2. ASSUME NEW e PROVE e \in ToSet(r) <=> e \in ToSet(seq) /\ e \in set
  <2>1. Times(r, {e}) = 0 <=> \A n \in DOMAIN r : r[n] \notin {e}
    BY <1>1, TimesIsZero
  <2>2. Times(seq, {e} \cap set) = 0 <=> \A n \in DOMAIN seq : seq[n] \notin {e} \cap set
    BY TimesIsZero
  <2>3. Times(r, {e}) = Times(seq, {e} \cap set)
    BY <1>1
  <2> QED BY <2>1, <2>2, <2>3 DEF ToSet
<1> QED BY <1>2 DEF r

LEMMA TimesAreSplit ==
  ASSUME NEW S, NEW s \in Seq(S), NEW X, NEW Y
  PROVE  Times(s, X) = Times(s, X \cap Y) + Times(s, X \cap (ToSet(s) \ Y))
<1> DEFINE A == Where(s, X \cap Y)
           B == Where(s, X \cap (ToSet(s) \ Y))
<1>1. \A n \in DOMAIN s : s[n] \in ToSet(s)
  BY DEF ToSet
<1>2. Where(s, X) = A \cup B /\ A \cap B = {}
  BY <1>1 DEF Where
<1>3. /\ IsFiniteSet(A) /\ Times(s, X \cap Y) = Cardinality(A) /\ Times(s, X \cap Y) \in Nat
      /\ IsFiniteSet(B) /\ Times(s, X \cap (ToSet(s) \ Y)) = Cardinality(B)
      /\ Times(s, X \cap (ToSet(s) \ Y)) \in Nat
      /\ Times(s, X) = Cardinality(Where(s, X))
  BY WhereIsFinite
<1> HIDE DEF A, B
<1>4. Cardinality(A \cup B) = Cardinality(A) + Cardinality(B) - Cardinality(A \cap B)
  BY <1>3, FS_Union
<1>5. Cardinality(A \cap B) = 0
  BY <1>2, FS_EmptySet
<1> QED BY <1>2, <1>3, <1>4, <1>5

LEMMA OtherLinks ==
  ASSUME NEW p, IsPipeline(p), NEW links \in Seq(Links(p))
  PROVE  LET q == [p EXCEPT !.links = links]
         IN  /\ q.nodes = p.nodes /\ q.links = links /\ q.cells = p.cells
             /\ q.inputs = p.inputs /\ q.status = p.status
             /\ Paths(q) = Paths(p) /\ Ported(q) = Ported(p) /\ Links(q) = Links(p)
             /\ IsPipeline(q)
<1> DEFINE q == [p EXCEPT !.links = links]
<1>1. p \in [nodes : {p.nodes}, links : {p.links}, cells : {p.cells}, inputs : {p.inputs}, status : {p.status}]
  BY DEF IsPipeline
<1>2. q = [nodes |-> p.nodes, links |-> links, cells |-> p.cells, inputs |-> p.inputs, status |-> p.status]
  BY <1>1
<1>3. /\ q.nodes = p.nodes /\ q.links = links /\ q.cells = p.cells
      /\ q.inputs = p.inputs /\ q.status = p.status
  BY <1>2
<1>4. Paths(q) = Paths(p) /\ Ported(q) = Ported(p) /\ Links(q) = Links(p)
  BY <1>3 DEF Paths, Ported, Links
<1>5. IsPipeline(q)
  <2>1. /\ q.nodes = [path \in Paths(q) |-> q.nodes[path]]
        /\ \A path \in Paths(q) : IsNode(q.nodes[path])
        /\ q.links \in Seq(Links(q))
        /\ q.cells \in [DOMAIN q.cells -> PortTypes] /\ DOMAIN q.cells \subseteq Ported(q)
        /\ q.inputs \in [Ported(q) -> Inputs(p)]
    BY <1>3, <1>4, PipelineShape
  <2>2. Inputs(p) = [vt : PortTypes, transports : Seq({Transport(path) : path \in Paths(q)})]
    BY <1>4 DEF Inputs, Transports
  <2>3. q \in [nodes : {q.nodes}, links : Seq(Links(q)), cells : [DOMAIN q.cells -> PortTypes],
               inputs : [Ported(q) -> [vt : PortTypes, transports : Seq({Transport(path) : path \in Paths(q)})]],
               status : {q.status}]
    BY <1>2, <1>3, <2>1, <2>2
  <2> QED BY <2>1, <2>3 DEF IsPipeline
<1> QED BY <1>3, <1>4, <1>5

\* The links and the transports that mirror them go together.
LEMMA RemoveLinksFacts ==
  ASSUME NEW p, InStep(p), NEW gone
  PROVE  LET q == RemoveLinks(p, gone)
         IN  /\ InStep(q) /\ q.nodes = p.nodes /\ q.cells = p.cells /\ q.status = p.status
             /\ ToSet(q.links) = ToSet(p.links) \ gone
             /\ q.inputs \in SameReceivers(p)
<1> DEFINE rest == Among(p.links, ToSet(p.links) \ gone)
           left == Among(p.links, gone)
           s    == [p EXCEPT !.links = rest]
           q    == DisconnectAll(s, left)
<1>1. RemoveLinks(p, gone) = q
  BY DEF RemoveLinks
<1>2. IsPipeline(p) /\ p.links \in Seq(Links(p)) /\ DOMAIN p.inputs = Ported(p)
  BY PipelineShape DEF InStep
<1>3. /\ rest \in Seq(Links(p)) /\ \A X : Times(rest, X) = Times(p.links, X \cap (ToSet(p.links) \ gone))
      /\ left \in Seq(Links(p)) /\ \A X : Times(left, X) = Times(p.links, X \cap gone)
      /\ ToSet(rest) = ToSet(p.links) \ gone /\ ToSet(left) \subseteq ToSet(p.links)
  <2>1. ToSet(rest) = ToSet(p.links) \cap (ToSet(p.links) \ gone) /\ ToSet(left) = ToSet(p.links) \cap gone
    BY <1>2, AmongMembers
  <2>2. rest \in Seq(Links(p)) /\ \A X : Times(rest, X) = Times(p.links, X \cap (ToSet(p.links) \ gone))
    BY <1>2, AmongFacts
  <2>3. left \in Seq(Links(p)) /\ \A X : Times(left, X) = Times(p.links, X \cap gone)
    BY <1>2, AmongFacts
  <2> HIDE DEF rest, left
  <2> QED BY <2>1, <2>2, <2>3
<1> HIDE DEF rest, left
<1>4. /\ s.nodes = p.nodes /\ s.links = rest /\ s.cells = p.cells
      /\ s.inputs = p.inputs /\ s.status = p.status
      /\ Paths(s) = Paths(p) /\ Ported(s) = Ported(p) /\ Links(s) = Links(p)
      /\ IsPipeline(s)
  BY <1>2, <1>3, OtherLinks
<1> HIDE DEF s
<1>5. Known(s, left)
  <2>1. ASSUME NEW n \in DOMAIN left
        PROVE  left[n].target \in Ported(s) /\ s.inputs[left[n].target].vt = left[n].vt
    <3>1. left[n] \in ToSet(p.links)
      BY <1>3 DEF ToSet
    <3> QED BY <1>2, <1>4, <3>1 DEF InStep, TypesAgree
  <2> QED BY <1>3, <1>4, <2>1 DEF Known
<1>6. ASSUME NEW target \in Ported(p), NEW source \in Paths(p)
      PROVE  /\ Reads(s, target, source) = Times(rest, Between(source, target)) + Times(left, Between(source, target))
             /\ Times(rest, Between(source, target)) \in Nat /\ Times(left, Between(source, target)) \in Nat
  <2>1. Reads(s, target, source) = Reads(p, target, source)
    BY <1>4 DEF Reads
  <2>2. Reads(p, target, source) = Times(p.links, Between(source, target))
    BY <1>2 DEF InStep, Mirrors
  <2>3. Times(p.links, Between(source, target))
          = Times(p.links, Between(source, target) \cap gone)
            + Times(p.links, Between(source, target) \cap (ToSet(p.links) \ gone))
    BY <1>2, TimesAreSplit
  <2>4. Times(rest, Between(source, target)) \in Nat /\ Times(left, Between(source, target)) \in Nat
    BY <1>3, WhereIsFinite
  <2> QED BY <1>3, <2>1, <2>2, <2>3, <2>4
<1>7. /\ q \in Reconnected(s)
      /\ \A target \in Ported(p) : \A source \in Paths(p) :
           Reads(s, target, source) = Reads(q, target, source) + Times(left, Between(source, target))
  <2>1. ASSUME NEW target \in Ported(p), NEW source \in Paths(p)
        PROVE  Times(left, Between(source, target)) <= Reads(s, target, source)
    BY <1>6
  <2> QED BY <1>4, <1>5, <2>1, DisconnectAllFacts
<1> HIDE DEF q
<1>8. /\ q.nodes = p.nodes /\ q.links = rest /\ q.cells = p.cells /\ q.status = p.status
      /\ q.inputs \in SameReceivers(s) /\ IsPipeline(q)
      /\ Paths(q) = Paths(p) /\ Ported(q) = Ported(p) /\ Links(q) = Links(p)
  BY <1>4, <1>7, ReconnectedShape
<1>9. DOMAIN q.inputs = Ported(p) /\ \A target \in Ported(p) : q.inputs[target].vt = p.inputs[target].vt
  BY <1>4, <1>8 DEF SameReceivers
<1>10. Mirrors(q)
  <2>1. ASSUME NEW target \in Ported(p), NEW source \in Paths(p)
        PROVE  Reads(q, target, source) = Times(rest, Between(source, target))
    <3>1. Reads(q, target, source) \in Nat
      BY <1>8, ReadsAreCounted
    <3> QED BY <1>6, <1>7, <3>1
  <2> QED BY <1>8, <1>9, <2>1 DEF Mirrors
<1>11. TypesAgree(q)
  <2>1. ToSet(q.links) \subseteq ToSet(p.links)
    BY <1>3, <1>8
  <2>2. \A path, vt : IsOfType(q, path, vt) <=> IsOfType(p, path, vt)
    BY <1>8 DEF IsOfType
  <2> QED BY <1>2, <1>8, <1>9, <2>1, <2>2 DEF InStep, TypesAgree
<1>12. OneLinkIntoSingles(q)
  <2>1. ASSUME NEW target \in Ported(p)
        PROVE  Times(rest, Into(q, target)) <= Times(p.links, Into(p, target))
    <3>1. Into(q, target) = Into(p, target)
      BY <1>8 DEF Into
    <3>2. Times(p.links, Into(p, target) \cap (ToSet(p.links) \ gone)) <= Times(p.links, Into(p, target))
      BY <1>2, TimesIsMonotone
    <3> QED BY <1>3, <3>1, <3>2
  <2>2. ASSUME NEW target \in Ported(q)
        PROVE  TakesMany(q.nodes[target].type) \/ Times(q.links, Into(q, target)) <= 1
    <3>1. TakesMany(p.nodes[target].type) \/ Times(p.links, Into(p, target)) <= 1
      BY <1>8 DEF InStep, OneLinkIntoSingles
    <3>2. Times(rest, Into(q, target)) \in Nat /\ Times(p.links, Into(p, target)) \in Nat
      BY <1>2, <1>3, WhereIsFinite
    <3> QED BY <1>8, <2>1, <3>1, <3>2
  <2> QED BY <2>2 DEF OneLinkIntoSingles
<1>13. q.inputs \in SameReceivers(p)
  BY <1>4, <1>8 DEF SameReceivers, Inputs, Transports
<1> QED BY <1>1, <1>3, <1>8, <1>10, <1>11, <1>12, <1>13 DEF InStep

-----------------------------------------------------------------------------
(* Deleting a node *)

LEMMA SeqOfFewer ==
  ASSUME NEW S, NEW T, NEW s \in Seq(S), \A n \in DOMAIN s : s[n] \in T
  PROVE  s \in Seq(T)
OBVIOUS

\* When a node goes, its links have gone, so the worker has nothing left to
\* disconnect, and no input reads its cell any more.
LEMMA DeleteNodeFacts ==
  ASSUME NEW p, InStep(p), NEW path
  PROVE  InStep(DeleteNode(p, path)) /\ DeleteNode(p, path).status = p.status
<1> DEFINE touching == LinksOf(p, path)
           links == Among(p.links, touching)
           g == RemoveLinks(p, touching)
           r == [RemoveNode(g, path) EXCEPT !.nodes = Without(@, {path})]
<1>1. /\ IsPipeline(p) /\ p.links \in Seq(Links(p))
      /\ \A l \in ToSet(p.links) : l.target \in Ported(p) /\ p.inputs[l.target].vt = l.vt
  BY PipelineShape DEF InStep, TypesAgree
<1>2. /\ InStep(g) /\ g.nodes = p.nodes /\ g.cells = p.cells /\ g.status = p.status
      /\ ToSet(g.links) = ToSet(p.links) \ touching /\ g.inputs \in SameReceivers(p)
  BY RemoveLinksFacts
<1>3. links \in Seq(Links(p)) /\ ToSet(links) = ToSet(p.links) \cap touching
  BY <1>1, AmongFacts, AmongMembers
<1> HIDE DEF g, links
<1>4. Paths(g) = Paths(p) /\ Ported(g) = Ported(p) /\ Links(g) = Links(p) /\ IsPipeline(g)
  BY <1>2 DEF Paths, Ported, Links, InStep
<1>5. /\ g.links \in Seq(Links(p)) /\ g.inputs \in [Ported(p) -> Inputs(p)] /\ DOMAIN g.inputs = Ported(p)
      /\ \A t \in Ported(p) : g.inputs[t].vt = p.inputs[t].vt
  <2>1. g.links \in Seq(Links(p))
    BY <1>4, PipelineShape
  <2> QED BY <1>2, <2>1 DEF SameReceivers
<1>6. ASSUME NEW n \in DOMAIN g.links
      PROVE  /\ g.links[n] \in Links(p) /\ g.links[n] \in ToSet(p.links)
             /\ path # g.links[n].source /\ path # g.links[n].target
  <2>1. g.links[n] \in ToSet(g.links)
    BY DEF ToSet
  <2>2. g.links[n] \in ToSet(p.links) \ touching
    BY <1>2, <2>1
  <2> QED BY <1>5, <2>2 DEF LinksOf, Touches
<1>7. ASSUME NEW target \in Ported(p), NEW source \in Paths(p), path \in {source, target}
      PROVE  Reads(g, target, source) = 0
  <2>1. Times(g.links, Between(source, target)) = 0
    <3>1. \A n \in DOMAIN g.links : g.links[n] \notin Between(source, target)
      BY <1>6, <1>7 DEF Between
    <3> QED BY <1>5, <3>1, TimesIsZero
  <2> QED BY <1>2, <1>4, <1>5, <2>1 DEF InStep, Mirrors
<1>8. DisconnectAll(g, links) = g
  <2>1. ASSUME NEW n \in DOMAIN links
        PROVE  /\ links[n].target \in Ported(p) /\ links[n].source \in Paths(p)
               /\ g.inputs[links[n].target].vt = links[n].vt
               /\ path \in {links[n].source, links[n].target}
    <3>1. links[n] \in ToSet(p.links) /\ links[n] \in touching /\ links[n] \in Links(p)
      BY <1>3 DEF ToSet
    <3> QED BY <1>1, <1>5, <3>1 DEF LinksOf, Touches, Links
  <2>2. Known(g, links)
    BY <1>3, <1>4, <2>1 DEF Known
  <2>3. \A n \in DOMAIN links : Reads(g, links[n].target, links[n].source) = 0
    BY <1>7, <2>1
  <2> QED BY <1>4, <2>2, <2>3, NothingToDisconnect
<1>9. DeleteNode(p, path) = r
  BY <1>8 DEF DeleteNode, RemoveLinksFromNode, g, links
<1> DEFINE rest == Ported(p) \ {path}
           inputs == [target \in rest |-> g.inputs[target]]
           forget(t) == IF t.cell = path THEN [t EXCEPT !.cell = Gone] ELSE t
           left(i) == [i EXCEPT !.transports = [n \in DOMAIN i.transports |-> forget(i.transports[n])]]
<1>10. ASSUME NEW target \in rest
       PROVE  left(g.inputs[target]) = g.inputs[target]
  <2> DEFINE ts == g.inputs[target].transports
  <2>1. ts \in Seq(Transports(p)) /\ g.inputs[target] \in [vt : PortTypes, transports : Seq(Transports(p))]
    BY <1>5 DEF Inputs
  <2>2. path \in Paths(p) => \A n \in DOMAIN ts : ts[n] \notin {Transport(path)}
    <3>1. path \in Paths(p) => Times(ts, {Transport(path)}) = 0
      BY <1>7 DEF Reads
    <3> HIDE DEF ts
    <3> QED BY <2>1, <3>1, TimesIsZero
  <2>3. ASSUME NEW n \in DOMAIN ts PROVE ts[n].cell # path
    <3>1. PICK source \in Paths(p) : ts[n] = Transport(source)
      BY <2>1 DEF Transports
    <3> QED BY <2>2, <3>1 DEF Transport
  <2>4. [n \in DOMAIN ts |-> forget(ts[n])] = ts
    BY <2>1, <2>3
  <2> QED BY <2>1, <2>4
<1>11. r = [nodes |-> Without(p.nodes, {path}), links |-> g.links, cells |-> Without(p.cells, {path}),
            inputs |-> inputs, status |-> p.status]
  <2>1. g \in [nodes : {g.nodes}, links : {g.links}, cells : {g.cells}, inputs : {g.inputs}, status : {g.status}]
    BY <1>4 DEF IsPipeline
  <2>2. [target \in DOMAIN Without(g.inputs, {path}) |-> left(Without(g.inputs, {path})[target])] = inputs
    BY <1>5, <1>10 DEF Without
  <2>3. RemoveNode(g, path) = [g EXCEPT !.cells = Without(g.cells, {path}), !.inputs = inputs]
    BY <2>1, <2>2 DEF RemoveNode
  <2> HIDE DEF inputs
  <2>4. RemoveNode(g, path) = [nodes |-> g.nodes, links |-> g.links, cells |-> Without(g.cells, {path}),
                               inputs |-> inputs, status |-> g.status]
    BY <2>1, <2>3
  <2>5. r = [nodes |-> Without(g.nodes, {path}), links |-> g.links, cells |-> Without(g.cells, {path}),
             inputs |-> inputs, status |-> g.status]
    BY <2>4
  <2> QED BY <1>2, <2>5
<1> HIDE DEF r
<1>12. /\ r.nodes = [q \in Paths(p) \ {path} |-> p.nodes[q]] /\ r.links = g.links
       /\ r.cells = [q \in DOMAIN p.cells \ {path} |-> p.cells[q]] /\ r.inputs = inputs /\ r.status = p.status
  BY <1>11 DEF Without, Paths
<1>13. /\ Paths(r) = Paths(p) \ {path} /\ Ported(r) = rest
       /\ DOMAIN r.cells = DOMAIN p.cells \ {path} /\ DOMAIN r.inputs = rest
  BY <1>12 DEF Paths, Ported
<1>14. ASSUME NEW target \in rest PROVE r.inputs[target] = g.inputs[target]
  BY <1>12
<1> HIDE DEF inputs
<1>15. r.links \in Seq(Links(r))
  <2>1. \A n \in DOMAIN g.links : g.links[n] \in Links(r)
    BY <1>6, <1>13 DEF Links
  <2> QED BY <1>5, <1>12, <2>1, SeqOfFewer
<1>16. ASSUME NEW target \in rest
       PROVE  r.inputs[target] \in [vt : PortTypes, transports : Seq(Transports(r))]
  <2> DEFINE ts == g.inputs[target].transports
  <2>1. ts \in Seq(Transports(p)) /\ g.inputs[target] \in [vt : PortTypes, transports : Seq(Transports(p))]
    BY <1>5 DEF Inputs
  <2>2. path \in Paths(p) => \A n \in DOMAIN ts : ts[n] \notin {Transport(path)}
    <3>1. path \in Paths(p) => Times(ts, {Transport(path)}) = 0
      BY <1>7 DEF Reads
    <3> HIDE DEF ts
    <3> QED BY <2>1, <3>1, TimesIsZero
  <2>3. ASSUME NEW n \in DOMAIN ts PROVE ts[n] \in Transports(r)
    <3>1. PICK source \in Paths(p) : ts[n] = Transport(source)
      BY <2>1 DEF Transports
    <3>2. source # path
      BY <2>2, <3>1
    <3> QED BY <1>13, <3>1, <3>2 DEF Transports
  <2>4. ts \in Seq(Transports(r))
    BY <2>1, <2>3, SeqOfFewer
  <2> QED BY <1>14, <2>1, <2>4
<1>17. IsPipeline(r)
  <2>1. r.inputs \in [Ported(r) -> [vt : PortTypes, transports : Seq({Transport(q) : q \in Paths(r)})]]
    <3>1. r.inputs = [target \in rest |-> r.inputs[target]]
      BY <1>12 DEF inputs
    <3>2. \A target \in rest : r.inputs[target] \in [vt : PortTypes, transports : Seq({Transport(q) : q \in Paths(r)})]
      BY <1>16 DEF Transports
    <3> HIDE DEF rest
    <3> QED BY <1>13, <3>1, <3>2
  <2>2. /\ r.nodes = [q \in Paths(r) |-> r.nodes[q]] /\ \A q \in Paths(r) : IsNode(r.nodes[q])
        /\ r.cells \in [DOMAIN r.cells -> PortTypes] /\ DOMAIN r.cells \subseteq Ported(r)
    <3>1. /\ \A q \in Paths(p) : IsNode(p.nodes[q])
          /\ p.cells \in [DOMAIN p.cells -> PortTypes] /\ DOMAIN p.cells \subseteq Ported(p)
      BY <1>1, PipelineShape
    <3>2. \A q \in Paths(r) : r.nodes[q] = p.nodes[q] /\ q \in Paths(p)
      BY <1>12, <1>13
    <3>3. \A q \in DOMAIN r.cells : r.cells[q] = p.cells[q] /\ q \in DOMAIN p.cells /\ q \in rest
      BY <1>12, <1>13, <3>1
    <3>4. r.nodes = [q \in Paths(r) |-> r.nodes[q]] /\ r.cells = [q \in DOMAIN r.cells |-> r.cells[q]]
      BY <1>12, <1>13
    <3> HIDE DEF rest
    <3> QED BY <1>13, <3>1, <3>2, <3>3, <3>4
  <2>3. r \in [nodes : {r.nodes}, links : {r.links}, cells : {r.cells}, inputs : {r.inputs}, status : {r.status}]
    BY <1>11
  <2>4. r \in [nodes : {r.nodes}, links : Seq(Links(r)), cells : [DOMAIN r.cells -> PortTypes],
               inputs : [Ported(r) -> [vt : PortTypes, transports : Seq({Transport(q) : q \in Paths(r)})]],
               status : {r.status}]
    BY <1>15, <2>1, <2>2, <2>3
  <2> QED BY <2>2, <2>4 DEF IsPipeline
<1>18. ASSUME NEW q \in Paths(r), NEW vt
       PROVE  IsOfType(r, q, vt) <=> IsOfType(g, q, vt)
  BY <1>2, <1>12, <1>13 DEF IsOfType
<1>19. TypesAgree(r)
  <2>1. ASSUME NEW l \in ToSet(r.links)
        PROVE  /\ l.source \in DOMAIN r.cells /\ r.cells[l.source] = l.vt
               /\ l.target \in DOMAIN r.inputs /\ r.inputs[l.target].vt = l.vt
               /\ IsOfType(r, l.target, l.vt)
    <3>1. PICK n \in DOMAIN g.links : l = g.links[n]
      BY <1>12 DEF ToSet
    <3>2. path # l.source /\ path # l.target /\ l \in ToSet(g.links)
      BY <1>6, <3>1 DEF ToSet
    <3>3. /\ l.source \in DOMAIN g.cells /\ g.cells[l.source] = l.vt
          /\ l.target \in DOMAIN g.inputs /\ g.inputs[l.target].vt = l.vt
          /\ IsOfType(g, l.target, l.vt)
      BY <1>2, <3>2 DEF InStep, TypesAgree
    <3>4. l.source \in DOMAIN p.cells \ {path} /\ l.target \in rest /\ l.target \in Paths(r)
      BY <1>2, <1>5, <1>13, <3>2, <3>3 DEF Ported
    <3> HIDE DEF rest
    <3> QED BY <1>2, <1>12, <1>13, <1>14, <1>18, <3>3, <3>4
  <2>2. ASSUME NEW q \in DOMAIN r.cells PROVE IsOfType(r, q, r.cells[q])
    <3>1. q \in DOMAIN g.cells /\ r.cells[q] = g.cells[q] /\ q \in Paths(r)
      BY <1>2, <1>12, <1>13, <1>17 DEF IsPipeline, Ported
    <3>2. IsOfType(g, q, g.cells[q])
      BY <1>2, <3>1 DEF InStep, TypesAgree
    <3> QED BY <1>18, <3>1, <3>2
  <2> QED BY <2>1, <2>2 DEF TypesAgree
<1>20. OneLinkIntoSingles(r)
  <2>1. ASSUME NEW target \in Ported(r)
        PROVE  TakesMany(r.nodes[target].type) \/ Times(r.links, Into(r, target)) <= 1
    <3>1. target \in Ported(p) /\ r.nodes[target] = p.nodes[target]
      BY <1>12, <1>13 DEF Ported
    <3>2. TakesMany(r.nodes[target].type) \/ Times(g.links, Into(g, target)) <= 1
      BY <1>2, <1>4, <3>1 DEF InStep, OneLinkIntoSingles
    <3>3. Times(g.links, Into(r, target)) <= Times(g.links, Into(g, target))
      <4>1. \A l \in Into(r, target) : l \in Into(g, target)
        BY <1>4, <1>13 DEF Into
      <4> QED BY <1>5, <4>1, TimesIsMonotone
    <3>4. Times(g.links, Into(r, target)) \in Nat /\ Times(g.links, Into(g, target)) \in Nat
      BY <1>5, WhereIsFinite
    <3> QED BY <1>12, <3>2, <3>3, <3>4
  <2> QED BY <2>1 DEF OneLinkIntoSingles
<1>21. Mirrors(r)
  <2>1. ASSUME NEW target \in rest, NEW source \in Paths(r)
        PROVE  Reads(r, target, source) = Times(r.links, Between(source, target))
    <3>1. target \in DOMAIN g.inputs /\ source \in Paths(g)
      BY <1>4, <1>5, <1>13
    <3>2. Reads(g, target, source) = Times(g.links, Between(source, target))
      BY <1>2, <3>1 DEF InStep, Mirrors
    <3> QED BY <1>12, <1>14, <3>2 DEF Reads
  <2> QED BY <1>13, <2>1 DEF Mirrors
<1> QED BY <1>9, <1>12, <1>17, <1>19, <1>20, <1>21 DEF InStep

-----------------------------------------------------------------------------
(* Adding a link *)

\* Both ends are nodes with ports that are set to what these were listed as,
\* and the receiver of the target is of that type as well.
Linkable(p, link) ==
  /\ link \in Links(p) /\ {link.source, link.target} \subseteq Ported(p)
  /\ \A path \in {link.source, link.target} : p.nodes[path].vt = p.nodes[path].ports
  /\ p.inputs[link.target].vt = p.nodes[link.target].ports

\* A single input has no link yet.
MayLink(p, link) ==
  /\ Linkable(p, link)
  /\ TakesMany(p.nodes[link.target].type) \/ Times(p.links, Into(p, link.target)) = 0

LEMMA FailedIsInStep ==
  ASSUME NEW p, InStep(p)
  PROVE  InStep(Fail(p)) /\ Fail(p).status = "error" /\ Fail(p).links = p.links
<1> DEFINE q == Fail(p)
<1>1. IsPipeline(p)
  BY DEF InStep
<1>2. p \in [nodes : {p.nodes}, links : {p.links}, cells : {p.cells}, inputs : {p.inputs}, status : {p.status}]
  BY <1>1 DEF IsPipeline
<1>3. q = [nodes |-> p.nodes, links |-> p.links, cells |-> p.cells, inputs |-> p.inputs, status |-> "error"]
  BY <1>2 DEF Fail
<1> HIDE DEF q
<1>4. /\ q.nodes = p.nodes /\ q.links = p.links /\ q.cells = p.cells
      /\ q.inputs = p.inputs /\ q.status = "error"
  BY <1>3
<1>5. Paths(q) = Paths(p) /\ Ported(q) = Ported(p) /\ Links(q) = Links(p)
  BY <1>4 DEF Paths, Ported, Links
<1>6. IsPipeline(q)
  <2>1. /\ p.nodes = [path \in Paths(p) |-> p.nodes[path]]
        /\ p.links \in Seq(Links(p)) /\ p.cells \in [DOMAIN p.cells -> PortTypes]
        /\ p.inputs \in [Ported(p) -> [vt : PortTypes, transports : Seq({Transport(path) : path \in Paths(p)})]]
        /\ DOMAIN p.cells \subseteq Ported(p) /\ \A path \in Paths(p) : IsNode(p.nodes[path])
    BY <1>1 DEF IsPipeline
  <2> QED BY <1>3, <1>4, <1>5, <2>1 DEF IsPipeline
<1>7. TypesAgree(q)
  BY <1>4 DEF InStep, TypesAgree, IsOfType
<1>8. OneLinkIntoSingles(q)
  BY <1>4, <1>5 DEF InStep, OneLinkIntoSingles, Into
<1>9. Mirrors(q)
  BY <1>4, <1>5 DEF InStep, Mirrors, Reads
<1> QED BY <1>4, <1>6, <1>7, <1>8, <1>9 DEF InStep, q

LEMMA AddLinkFacts ==
  ASSUME NEW p, InStep(p), p.status = "ok", NEW link, MayLink(p, link)
  PROVE  /\ InStep(AddLink(p, link)) /\ AddLink(p, link).status \in {"ok", "error"}
         /\ p.nodes[link.source].ports = p.nodes[link.target].ports =>
              /\ AddLink(p, link).status = "ok"
              /\ AddLink(p, link).links = Append(p.links, [link EXCEPT !.vt = p.nodes[link.source].ports])
<1> DEFINE source == link.source
           target == link.target
           vt     == p.nodes[source].ports
           l      == [link EXCEPT !.vt = vt]
           ts     == p.inputs[target].transports
           q      == AddLink(p, link)
<1>1. /\ IsPipeline(p) /\ p.links \in Seq(Links(p)) /\ p.inputs \in [Ported(p) -> Inputs(p)]
      /\ p.cells \in [DOMAIN p.cells -> PortTypes] /\ DOMAIN p.cells \subseteq Ported(p)
  BY PipelineShape DEF InStep
<1>2. /\ source \in Ported(p) /\ target \in Ported(p) /\ source \in Paths(p) /\ target \in Paths(p)
      /\ HasPorts(p.nodes[source].type) /\ HasPorts(p.nodes[target].type)
  BY DEF MayLink, Linkable, Ported
<1>3. CASE vt # p.nodes[target].ports
  <2>1. q = Fail(p)
    BY <1>3 DEF AddLink
  <2> QED BY <1>3, <2>1, FailedIsInStep
<1>4. CASE vt = p.nodes[target].ports
  <2>1. /\ vt \in PortTypes /\ p.inputs[target].vt = vt
        /\ IsOfType(p, source, vt) /\ IsOfType(p, target, vt)
    BY <1>1, <1>2, <1>4 DEF MayLink, Linkable, Inputs, IsOfType
  <2>2. l \in Links(p) /\ l.source = source /\ l.target = target /\ l.vt = vt
    BY <2>1 DEF MayLink, Linkable, Links
  <2> HIDE DEF l, vt
  <2> DEFINE cells == IF source \in DOMAIN p.cells THEN p.cells ELSE Inserted(p.cells, source, vt)
             new   == IF TakesMany(p.nodes[target].type) THEN Append(ts, Transport(source))
                      ELSE <<Transport(source)>>
             inputs == [p.inputs EXCEPT ![target].transports = new]
             links  == Append(p.links, l)
  <2>3. /\ cells \in [DOMAIN cells -> PortTypes] /\ DOMAIN cells = DOMAIN p.cells \cup {source}
        /\ \A path \in DOMAIN p.cells : cells[path] = p.cells[path]
        /\ cells[source] = vt
    <3>1. CASE source \in DOMAIN p.cells
      <4>1. p.cells[source] = vt
        BY <2>1, <3>1 DEF InStep, TypesAgree, IsOfType
      <4> QED BY <1>1, <3>1, <4>1
    <3>2. CASE source \notin DOMAIN p.cells
      <4> DEFINE f == Inserted(p.cells, source, vt)
      <4>1. cells = f
        BY <3>2
      <4>2. /\ DOMAIN f = DOMAIN p.cells \cup {source} /\ f[source] = vt
            /\ \A path \in DOMAIN p.cells : f[path] = p.cells[path]
            /\ f = [path \in DOMAIN f |-> f[path]]
        BY <3>2 DEF Inserted
      <4> HIDE DEF f
      <4> HIDE DEF cells
      <4> QED BY <1>1, <2>1, <4>1, <4>2
    <3> QED BY <3>1, <3>2
  <2>4. q = [nodes |-> p.nodes, links |-> links, cells |-> cells, inputs |-> inputs, status |-> "ok"]
    <3> DEFINE made == IF source \notin DOMAIN p.cells THEN [p EXCEPT !.cells = Inserted(@, source, vt)] ELSE p
               connected == [made EXCEPT !.inputs = inputs]
    <3>1. p = [nodes |-> p.nodes, links |-> p.links, cells |-> p.cells, inputs |-> p.inputs, status |-> "ok"]
      BY <1>1, PipelineShape
    <3>2. made = [nodes |-> p.nodes, links |-> p.links, cells |-> cells, inputs |-> p.inputs, status |-> "ok"]
      <4>1. p \in [nodes : {p.nodes}, links : {p.links}, cells : {p.cells}, inputs : {p.inputs}, status : {"ok"}]
        BY <1>1 DEF IsPipeline
      <4>2. CASE source \in DOMAIN p.cells
        BY <3>1, <4>2
      <4>3. CASE source \notin DOMAIN p.cells
        BY <4>1, <4>3
      <4> QED BY <4>2, <4>3
    <3> HIDE DEF made
    <3>3. made.cells[source] = vt /\ made.inputs = p.inputs /\ DOMAIN p.inputs = Ported(p)
      BY <1>1, <2>3, <3>2
    <3>4. connected = [nodes |-> p.nodes, links |-> p.links, cells |-> cells, inputs |-> inputs, status |-> "ok"]
      <4> HIDE DEF inputs, cells
      <4> QED BY <3>2
    <3>5. Connect(p, l) = connected
      BY <1>2, <2>1, <2>2, <3>3 DEF Connect, made
    <3> HIDE DEF connected
    <3>6. q = [connected EXCEPT !.links = Append(@, l)]
      <4>1. Connect(p, [link EXCEPT !.vt = p.nodes[link.source].ports]) = connected
        BY <3>5 DEF l, vt
      <4>2. connected.status = "ok"
        BY <3>4
      <4>3. q = [connected EXCEPT !.links = Append(@, [link EXCEPT !.vt = p.nodes[link.source].ports])]
        BY <1>2, <1>4, <4>1, <4>2 DEF AddLink, vt
      <4> QED BY <4>3 DEF l, vt
    <3> HIDE DEF inputs, cells
    <3> QED BY <3>4, <3>6
  <2> HIDE DEF q
  <2>5. q.nodes = p.nodes /\ q.links = links /\ q.cells = cells /\ q.inputs = inputs /\ q.status = "ok"
    BY <2>4
  <2> HIDE DEF cells
  <2>6. Paths(q) = Paths(p) /\ Ported(q) = Ported(p) /\ Links(q) = Links(p)
    BY <2>5 DEF Paths, Ported, Links
  <2>7. ts \in Seq(Transports(p)) /\ Transport(source) \in Transports(p) /\ new \in Seq(Transports(p))
    <3>1. ts \in Seq(Transports(p)) /\ Transport(source) \in Transports(p)
      BY <1>1, <1>2 DEF Inputs, Transports
    <3> HIDE DEF ts
    <3> QED BY <3>1
  <2>8. /\ inputs \in [Ported(p) -> Inputs(p)] /\ DOMAIN inputs = Ported(p)
        /\ inputs[target].transports = new
        /\ \A t \in Ported(p) : /\ inputs[t].vt = p.inputs[t].vt
                                /\ t # target => inputs[t].transports = p.inputs[t].transports
    <3> HIDE DEF new
    <3> QED BY <1>1, <1>2, <2>7 DEF Inputs
  <2> HIDE DEF inputs
  <2>9. links \in Seq(Links(p)) /\ ToSet(links) = ToSet(p.links) \cup {l}
    <3>1. links \in Seq(Links(p)) /\ Len(links) = Len(p.links) + 1 /\ Len(p.links) \in Nat
      BY <1>1, <2>2
    <3>2. links[Len(p.links) + 1] = l /\ \A n \in DOMAIN p.links : links[n] = p.links[n]
      BY <1>1, <2>2
    <3>3. DOMAIN p.links = 1 .. Len(p.links) /\ DOMAIN links = 1 .. Len(p.links) + 1
      BY <1>1, <3>1
    <3> HIDE DEF links
    <3> QED BY <3>1, <3>2, <3>3 DEF ToSet
  <2>10. IsPipeline(q)
    <3>1. /\ q.nodes = [path \in Paths(q) |-> q.nodes[path]] /\ \A path \in Paths(q) : IsNode(q.nodes[path])
      BY <1>1, <2>5, <2>6, PipelineShape
    <3>2. q.cells \in [DOMAIN q.cells -> PortTypes] /\ DOMAIN q.cells \subseteq Ported(q)
      BY <1>1, <1>2, <2>3, <2>5, <2>6
    <3>3. q.inputs \in [Ported(q) -> [vt : PortTypes, transports : Seq({Transport(path) : path \in Paths(q)})]]
      BY <2>5, <2>6, <2>8 DEF Inputs, Transports
    <3>4. q \in [nodes : {q.nodes}, links : {q.links}, cells : {q.cells}, inputs : {q.inputs}, status : {q.status}]
      BY <2>4
    <3>5. q \in [nodes : {q.nodes}, links : Seq(Links(q)), cells : [DOMAIN q.cells -> PortTypes],
                 inputs : [Ported(q) -> [vt : PortTypes, transports : Seq({Transport(path) : path \in Paths(q)})]],
                 status : {q.status}]
      BY <2>5, <2>6, <2>9, <3>2, <3>3, <3>4
    <3> QED BY <3>1, <3>2, <3>5 DEF IsPipeline
  <2>11. \A path, type : IsOfType(q, path, type) <=> IsOfType(p, path, type)
    BY <2>5 DEF IsOfType
  <2>12. TypesAgree(q)
    <3>1. ASSUME NEW k \in ToSet(q.links)
          PROVE  /\ k.source \in DOMAIN q.cells /\ q.cells[k.source] = k.vt
                 /\ k.target \in DOMAIN q.inputs /\ q.inputs[k.target].vt = k.vt
                 /\ IsOfType(q, k.target, k.vt)
      <4>1. CASE k = l
        BY <1>2, <2>1, <2>2, <2>3, <2>5, <2>8, <2>11, <4>1
      <4>2. CASE k \in ToSet(p.links)
        BY <1>1, <2>3, <2>5, <2>8, <2>11, <4>2 DEF InStep, TypesAgree
      <4> QED BY <2>5, <2>9, <4>1, <4>2
    <3>2. ASSUME NEW path \in DOMAIN q.cells PROVE IsOfType(q, path, q.cells[path])
      <4>1. CASE path = source
        BY <2>1, <2>3, <2>5, <2>11, <4>1
      <4>2. CASE path \in DOMAIN p.cells
        BY <2>3, <2>5, <2>11, <4>2 DEF InStep, TypesAgree
      <4> QED BY <2>3, <2>5, <4>1, <4>2
    <3> QED BY <3>1, <3>2 DEF TypesAgree
  <2>13. \A X : Times(links, X) = Times(p.links, X) + (IF l \in X THEN 1 ELSE 0)
    BY <1>1, <2>2, TimesInAppended
  <2>14. \A X : Times(p.links, X) \in Nat
    BY <1>1, WhereIsFinite
  <2> HIDE DEF links
  <2>15. OneLinkIntoSingles(q)
    <3>1. ASSUME NEW t \in Ported(p), ~TakesMany(p.nodes[t].type)
          PROVE  Times(links, Into(p, t)) <= 1
      <4>1. l \in Into(p, t) <=> t = target
        BY <2>2 DEF Into, Links
      <4>2. CASE t = target
        <5>1. Times(p.links, Into(p, t)) = 0
          BY <3>1, <4>2 DEF MayLink
        <5> QED BY <2>13, <5>1
      <4>3. CASE t # target
        <5>1. Times(p.links, Into(p, t)) <= 1
          BY <3>1 DEF InStep, OneLinkIntoSingles
        <5>2. Times(links, Into(p, t)) = Times(p.links, Into(p, t))
          BY <2>13, <2>14, <4>1, <4>3
        <5> QED BY <5>1, <5>2
      <4> QED BY <4>2, <4>3
    <3>2. \A t : Into(q, t) = Into(p, t)
      BY <2>6 DEF Into
    <3> QED BY <2>5, <2>6, <3>1, <3>2 DEF OneLinkIntoSingles
  <2>16. Mirrors(q)
    <3>1. ASSUME NEW t \in Ported(p), NEW s \in Paths(p)
          PROVE  Reads(q, t, s) = Times(links, Between(s, t))
      <4>1. Reads(p, t, s) = Times(p.links, Between(s, t)) /\ Reads(p, t, s) \in Nat
        BY <1>1, ReadsAreCounted DEF InStep, Mirrors
      <4>2. l \in Between(s, t) <=> t = target /\ s = source
        BY <2>2 DEF Between, Links
      <4>3. Times(links, Between(s, t)) = Times(p.links, Between(s, t)) + (IF l \in Between(s, t) THEN 1 ELSE 0)
        BY <2>13
      <4>4. CASE t # target
        <5>1. Reads(q, t, s) = Reads(p, t, s)
          BY <2>5, <2>8, <4>4 DEF Reads
        <5> QED BY <2>14, <4>1, <4>2, <4>3, <4>4, <5>1
      <4>5. CASE t = target
        <5>1. Reads(q, t, s) = Times(new, {Transport(s)})
          BY <2>5, <2>8, <4>5 DEF Reads
        <5>2. Transport(source) \in {Transport(s)} <=> s = source
          BY TransportsDiffer
        <5>3. CASE TakesMany(p.nodes[target].type)
          <6>1. Times(new, {Transport(s)}) = Times(ts, {Transport(s)})
                  + (IF Transport(source) \in {Transport(s)} THEN 1 ELSE 0)
            BY <2>7, <5>3, TimesInAppended
          <6>2. Times(ts, {Transport(s)}) = Reads(p, t, s)
            BY <4>5 DEF Reads
          <6> QED BY <4>1, <4>2, <4>3, <4>5, <5>1, <5>2, <6>1, <6>2
        <5>4. CASE ~TakesMany(p.nodes[target].type)
          <6>1. new = <<Transport(source)>>
            BY <5>4
          <6>2. Times(new, {Transport(s)}) = IF Transport(source) \in {Transport(s)} THEN 1 ELSE 0
            BY <6>1, TimesOfOne
          <6>3. Times(p.links, Between(s, t)) <= Times(p.links, Into(p, t))
            <7>1. \A n \in DOMAIN p.links : p.links[n] \in Between(s, t) => p.links[n] \in Into(p, t)
              BY <1>1 DEF Between, Into, Links
            <7> QED BY <1>1, <7>1, TimesIsMonotone
          <6>4. Times(p.links, Between(s, t)) = 0
            BY <2>14, <4>5, <5>4, <6>3 DEF MayLink
          <6> HIDE DEF new
          <6> QED BY <4>2, <4>3, <4>5, <5>1, <5>2, <6>2, <6>4
        <5> QED BY <5>3, <5>4
      <4> QED BY <4>4, <4>5
    <3> QED BY <2>5, <2>6, <2>8, <3>1 DEF Mirrors
  <2> QED BY <2>5, <2>10, <2>12, <2>15, <2>16 DEF InStep, links, l, vt, q
<1> QED BY <1>3, <1>4

-----------------------------------------------------------------------------
(* Other nodes, or other settings of the same *)

\* No link leads to the node, and its output has no cell.
Unused(p, path) == path \notin DOMAIN p.cells /\ \A l \in ToSet(p.links) : l.target # path

\* The same nodes with the same ports; those that are used are of the type
\* they were.
SameNodes(p, nodes) ==
  /\ nodes = [path \in Paths(p) |-> nodes[path]]
  /\ \A path \in Paths(p) :
       /\ IsNode(nodes[path]) /\ nodes[path].type = p.nodes[path].type
       /\ \/ Unused(p, path)
          \/ nodes[path].vt = p.nodes[path].vt /\ nodes[path].ports = p.nodes[path].ports

LEMMA SameNodesFacts ==
  ASSUME NEW p, InStep(p), NEW nodes, SameNodes(p, nodes)
  PROVE  /\ InStep([p EXCEPT !.nodes = nodes])
         /\ [p EXCEPT !.nodes = nodes] = [nodes |-> nodes, links |-> p.links, cells |-> p.cells,
                                          inputs |-> p.inputs, status |-> p.status]
<1> DEFINE q == [p EXCEPT !.nodes = nodes]
<1>1. IsPipeline(p)
  BY DEF InStep
<1>2. p \in [nodes : {p.nodes}, links : {p.links}, cells : {p.cells}, inputs : {p.inputs}, status : {p.status}]
  BY <1>1 DEF IsPipeline
<1>3. q = [nodes |-> nodes, links |-> p.links, cells |-> p.cells, inputs |-> p.inputs, status |-> p.status]
  BY <1>2
<1> HIDE DEF q
<1>4. /\ q.nodes = nodes /\ q.links = p.links /\ q.cells = p.cells
      /\ q.inputs = p.inputs /\ q.status = p.status
  BY <1>3
<1>5. Paths(q) = Paths(p) /\ Ported(q) = Ported(p) /\ Links(q) = Links(p)
  BY <1>4 DEF Paths, Ported, Links, SameNodes
<1>6. IsPipeline(q)
  <2>1. /\ p.links \in Seq(Links(p)) /\ p.cells \in [DOMAIN p.cells -> PortTypes]
        /\ p.inputs \in [Ported(p) -> [vt : PortTypes, transports : Seq({Transport(path) : path \in Paths(p)})]]
        /\ DOMAIN p.cells \subseteq Ported(p)
    BY <1>1 DEF IsPipeline
  <2>2. nodes = [path \in Paths(p) |-> nodes[path]] /\ \A path \in Paths(p) : IsNode(nodes[path])
    BY DEF SameNodes
  <2> QED BY <1>3, <1>4, <1>5, <2>1, <2>2 DEF IsPipeline
<1>7. ASSUME NEW path \in Paths(p), ~Unused(p, path), NEW vt, IsOfType(p, path, vt)
      PROVE  IsOfType(q, path, vt)
  BY <1>4, <1>7 DEF SameNodes, IsOfType
<1>8. TypesAgree(q)
  <2>1. ASSUME NEW l \in ToSet(p.links) PROVE IsOfType(q, l.target, l.vt)
    <3>1. l.target \in Paths(p)
      BY <1>1, PipelineShape DEF InStep, TypesAgree, Ported
    <3> QED BY <1>7, <3>1 DEF InStep, TypesAgree, Unused
  <2>2. ASSUME NEW path \in DOMAIN p.cells PROVE IsOfType(q, path, p.cells[path])
    <3>1. path \in Paths(p)
      BY <1>1, PipelineShape DEF Ported
    <3> QED BY <1>7, <3>1 DEF InStep, TypesAgree, Unused
  <2> QED BY <1>4, <2>1, <2>2 DEF InStep, TypesAgree
<1>9. OneLinkIntoSingles(q)
  <2>1. \A target \in Ported(p) : nodes[target].type = p.nodes[target].type
    BY DEF SameNodes, Ported
  <2> QED BY <1>4, <1>5, <2>1 DEF InStep, OneLinkIntoSingles, Into
<1>10. Mirrors(q)
  BY <1>4, <1>5 DEF InStep, Mirrors, Reads
<1> QED BY <1>3, <1>6, <1>8, <1>9, <1>10 DEF InStep, q

LEMMA ChildrenDoNotMatter ==
  ASSUME NEW node, IsNode(node), NEW children
  PROVE  LET other == [node EXCEPT !.children = children]
         IN  /\ IsNode(other) /\ other.type = node.type
             /\ other.vt = node.vt /\ other.ports = node.ports
BY DEF IsNode

LEMMA AddChildFacts ==
  ASSUME NEW p, InStep(p), NEW parent, NEW path
  PROVE  LET g == AddChild(p, parent, path)
         IN  InStep(g) /\ Paths(g) = Paths(p) /\ g.status = p.status
<1> DEFINE g == AddChild(p, parent, path)
<1>1. CASE ~IsContainer(p, parent)
  BY <1>1 DEF AddChild
<1>2. CASE IsContainer(p, parent)
  <2> DEFINE nodes == [p.nodes EXCEPT ![parent].children = Append(@, path)]
             other == [p.nodes[parent] EXCEPT !.children = Append(p.nodes[parent].children, path)]
  <2>1. g = [p EXCEPT !.nodes = nodes]
    BY <1>2 DEF AddChild
  <2>2. parent \in Paths(p) /\ p.nodes = [q \in Paths(p) |-> p.nodes[q]] /\ \A q \in Paths(p) : IsNode(p.nodes[q])
    BY <1>2, PipelineShape DEF IsContainer, InStep
  <2>3. nodes = [q \in Paths(p) |-> IF q = parent THEN other ELSE p.nodes[q]]
    BY <2>2
  <2>4. /\ IsNode(other) /\ other.type = p.nodes[parent].type
        /\ other.vt = p.nodes[parent].vt /\ other.ports = p.nodes[parent].ports
    BY <2>2, ChildrenDoNotMatter
  <2> HIDE DEF nodes, other
  <2>5. SameNodes(p, nodes)
    BY <2>2, <2>3, <2>4 DEF SameNodes
  <2> HIDE DEF g
  <2>6. InStep(g) /\ g.nodes = nodes /\ g.status = p.status
    <3>1. InStep(g) /\ g = [nodes |-> nodes, links |-> p.links, cells |-> p.cells,
                            inputs |-> p.inputs, status |-> p.status]
      BY <2>1, <2>5, SameNodesFacts
    <3> QED BY <3>1
  <2> QED BY <2>3, <2>6 DEF Paths, g
<1> QED BY <1>1, <1>2

-----------------------------------------------------------------------------
(* A node more *)

\* A node of a path that no node has, as NextId chooses them and as deleted
\* nodes come back.
LEMMA InsertNodeFacts ==
  ASSUME NEW p, InStep(p), NEW path, path \notin Paths(p), NEW node, IsNode(node)
  PROVE  InStep(InsertNode(p, path, node)) /\ InsertNode(p, path, node).status = p.status
<1> DEFINE q     == InsertNode(p, path, node)
           nodes == Inserted(p.nodes, path, node)
           inputs == IF HasPorts(node.type) THEN Inserted(p.inputs, path, Unconnected(node.ports))
                     ELSE p.inputs
<1>1. /\ IsPipeline(p) /\ p.links \in Seq(Links(p)) /\ p.inputs \in [Ported(p) -> Inputs(p)]
      /\ p.cells \in [DOMAIN p.cells -> PortTypes] /\ DOMAIN p.cells \subseteq Ported(p)
      /\ p.nodes = [other \in Paths(p) |-> p.nodes[other]] /\ \A other \in Paths(p) : IsNode(p.nodes[other])
  BY PipelineShape DEF InStep
<1>2. q = [nodes |-> nodes, links |-> p.links, cells |-> p.cells, inputs |-> inputs, status |-> p.status]
  <2>1. p \in [nodes : {p.nodes}, links : {p.links}, cells : {p.cells}, inputs : {p.inputs}, status : {p.status}]
    BY <1>1 DEF IsPipeline
  <2> DEFINE r == RegisterNode(p, path, node)
  <2>2. r = [p EXCEPT !.inputs = inputs]
    <3>1. Without(p.inputs, {path}) = p.inputs
      BY <1>1 DEF Without, Ported
    <3>2. CASE HasPorts(node.type)
      BY <3>2 DEF RegisterNode
    <3>3. CASE ~HasPorts(node.type)
      BY <3>1, <3>3 DEF RegisterNode
    <3> QED BY <3>2, <3>3
  <2> HIDE DEF r, inputs
  <2>3. r = [nodes |-> p.nodes, links |-> p.links, cells |-> p.cells, inputs |-> inputs, status |-> p.status]
    BY <2>1, <2>2
  <2>4. q = [r EXCEPT !.nodes = Inserted(r.nodes, path, node)]
    BY <2>3 DEF InsertNode, r
  <2>5. r.nodes = p.nodes
    BY <2>3
  <2> HIDE DEF q
  <2>6. q = [r EXCEPT !.nodes = nodes]
    BY <2>4, <2>5
  <2> HIDE DEF nodes
  <2> QED BY <2>3, <2>6
<1> HIDE DEF q
<1>3. q.nodes = nodes /\ q.links = p.links /\ q.cells = p.cells /\ q.inputs = inputs /\ q.status = p.status
  BY <1>2
<1>4. /\ Paths(q) = Paths(p) \cup {path} /\ q.nodes = [other \in Paths(q) |-> q.nodes[other]]
      /\ q.nodes[path] = node /\ \A other \in Paths(p) : q.nodes[other] = p.nodes[other]
  BY <1>1, <1>3 DEF Inserted, Paths
<1> HIDE DEF nodes
<1>5. Ported(q) = Ported(p) \cup (IF HasPorts(node.type) THEN {path} ELSE {}) /\ path \notin Ported(p)
  BY <1>4 DEF Ported
<1>6. /\ DOMAIN inputs = Ported(q) /\ inputs = [t \in Ported(q) |-> inputs[t]]
      /\ \A t \in Ported(p) : inputs[t] = p.inputs[t]
      /\ HasPorts(node.type) => inputs[path] = Unconnected(node.ports)
  BY <1>1, <1>5 DEF Inserted
<1> HIDE DEF inputs
<1>7. \A n \in DOMAIN p.links : p.links[n] \in Links(p)
  BY <1>1
<1>8. p.links \in Seq(Links(q))
  <2>1. \A n \in DOMAIN p.links : p.links[n] \in Links(q)
    BY <1>4, <1>7 DEF Links
  <2> QED BY <1>1, <2>1, SeqOfFewer
<1>9. IsPipeline(q)
  <2>1. ASSUME NEW t \in Ported(q) PROVE inputs[t] \in [vt : PortTypes, transports : Seq(Transports(q))]
    <3>1. CASE t \in Ported(p)
      <4>1. p.inputs[t] \in [vt : PortTypes, transports : Seq(Transports(p))]
        BY <1>1, <3>1 DEF Inputs
      <4>2. \A e \in Transports(p) : e \in Transports(q)
        BY <1>4 DEF Transports
      <4> DEFINE ts == p.inputs[t].transports
      <4>3. ts \in Seq(Transports(p)) /\ \A n \in DOMAIN ts : ts[n] \in Transports(q)
        BY <4>1, <4>2
      <4>4. ts \in Seq(Transports(q))
        BY <4>3, SeqOfFewer
      <4> QED BY <1>6, <3>1, <4>1, <4>4
    <3>2. CASE t = path
      <4>1. HasPorts(node.type)
        BY <1>5, <3>2
      <4>2. node.ports \in PortTypes
        BY <4>1 DEF IsNode
      <4>3. inputs[t] = [vt |-> node.ports, transports |-> <<>>]
        BY <1>6, <3>2, <4>1 DEF Unconnected
      <4>4. <<>> \in Seq(Transports(q))
        OBVIOUS
      <4> QED BY <4>2, <4>3, <4>4
    <3> QED BY <1>5, <3>1, <3>2
  <2>2. q.inputs \in [Ported(q) -> [vt : PortTypes, transports : Seq({Transport(other) : other \in Paths(q)})]]
    BY <1>3, <1>6, <2>1 DEF Transports
  <2>3. \A other \in Paths(q) : IsNode(q.nodes[other])
    BY <1>1, <1>4
  <2>4. q.cells \in [DOMAIN q.cells -> PortTypes] /\ DOMAIN q.cells \subseteq Ported(q)
    BY <1>1, <1>3, <1>5
  <2>5. q \in [nodes : {q.nodes}, links : {q.links}, cells : {q.cells}, inputs : {q.inputs}, status : {q.status}]
    BY <1>2
  <2>6. q \in [nodes : {q.nodes}, links : Seq(Links(q)), cells : [DOMAIN q.cells -> PortTypes],
               inputs : [Ported(q) -> [vt : PortTypes, transports : Seq({Transport(other) : other \in Paths(q)})]],
               status : {q.status}]
    BY <1>3, <1>8, <2>2, <2>4, <2>5
  <2> QED BY <1>4, <2>3, <2>4, <2>6 DEF IsPipeline
<1>10. ASSUME NEW other \in Ported(p), NEW vt
       PROVE  IsOfType(q, other, vt) <=> IsOfType(p, other, vt)
  BY <1>4 DEF IsOfType, Ported
<1>11. TypesAgree(q)
  <2>1. ASSUME NEW l \in ToSet(p.links)
        PROVE  /\ l.source \in DOMAIN q.cells /\ q.cells[l.source] = l.vt
               /\ l.target \in DOMAIN q.inputs /\ q.inputs[l.target].vt = l.vt
               /\ IsOfType(q, l.target, l.vt)
    <3>1. /\ l.source \in DOMAIN p.cells /\ p.cells[l.source] = l.vt
          /\ l.target \in Ported(p) /\ p.inputs[l.target].vt = l.vt
          /\ IsOfType(p, l.target, l.vt)
      BY <1>1 DEF InStep, TypesAgree
    <3> QED BY <1>3, <1>5, <1>6, <1>10, <3>1
  <2>2. ASSUME NEW other \in DOMAIN p.cells PROVE IsOfType(q, other, q.cells[other])
    BY <1>1, <1>3, <1>10 DEF InStep, TypesAgree
  <2> QED BY <1>3, <2>1, <2>2 DEF TypesAgree
<1>12. OneLinkIntoSingles(q)
  <2>1. ASSUME NEW target \in Ported(q)
        PROVE  TakesMany(q.nodes[target].type) \/ Times(q.links, Into(q, target)) <= 1
    <3>1. CASE target \in Ported(p)
      <4>1. TakesMany(q.nodes[target].type) \/ Times(p.links, Into(p, target)) <= 1
        BY <1>4, <3>1 DEF InStep, OneLinkIntoSingles, Ported
      <4>2. \A n \in DOMAIN p.links : p.links[n] \in Into(q, target) <=> p.links[n] \in Into(p, target)
        BY <1>4, <1>7 DEF Into, Links
      <4>3. Times(p.links, Into(q, target)) = Times(p.links, Into(p, target))
        BY <1>1, <4>2, TimesIsEqual
      <4> QED BY <1>3, <4>1, <4>3
    <3>2. CASE target = path
      <4>1. \A n \in DOMAIN p.links : p.links[n] \notin Into(q, target)
        BY <1>7, <3>2 DEF Into, Links
      <4>2. Times(p.links, Into(q, target)) = 0
        BY <1>1, <4>1, TimesIsZero
      <4> QED BY <1>3, <4>2
    <3> QED BY <1>5, <3>1, <3>2
  <2> QED BY <2>1 DEF OneLinkIntoSingles
<1>13. Mirrors(q)
  <2>1. ASSUME NEW target \in Ported(q), NEW source \in Paths(q)
        PROVE  Reads(q, target, source) = Times(p.links, Between(source, target))
    <3> DEFINE ts == inputs[target].transports
    <3>1. Reads(q, target, source) = Times(ts, {Transport(source)})
      BY <1>3 DEF Reads
    <3>2. CASE target = path \/ source = path
      <4>1. \A n \in DOMAIN p.links : p.links[n] \notin Between(source, target)
        BY <1>7, <3>2 DEF Between, Links
      <4>2. Times(p.links, Between(source, target)) = 0
        BY <1>1, <4>1, TimesIsZero
      <4>3. Times(ts, {Transport(source)}) = 0
        <5>1. CASE target \in Ported(p)
          <6>1. ts = p.inputs[target].transports /\ p.inputs[target] \in Inputs(p)
            BY <1>1, <1>6, <5>1
          <6>2. ts \in Seq(Transports(p))
            BY <6>1 DEF Inputs
          <6>3. source = path
            BY <1>5, <3>2, <5>1
          <6>4. Transport(source) \notin Transports(p)
            BY <6>3, TransportsDiffer DEF Transports
          <6> HIDE DEF ts
          <6> QED BY <6>2, <6>4, TimesIsZero
        <5>2. CASE target = path
          <6>1. ts = <<>>
            BY <1>5, <1>6, <5>2 DEF Unconnected
          <6> QED BY <6>1, TimesOfNone
        <5> QED BY <1>5, <5>1, <5>2
      <4> QED BY <3>1, <4>2, <4>3
    <3>3. CASE target \in Ported(p) /\ source \in Paths(p)
      <4>1. Reads(q, target, source) = Reads(p, target, source)
        BY <1>6, <3>1, <3>3 DEF Reads
      <4> QED BY <1>1, <3>3, <4>1 DEF InStep, Mirrors
    <3> QED BY <1>4, <1>5, <3>2, <3>3
  <2> QED BY <1>3, <1>6, <2>1 DEF Mirrors
<1> QED BY <1>3, <1>9, <1>11, <1>12, <1>13 DEF InStep, q

LEMMA AddNodeAtFacts ==
  ASSUME NEW p, InStep(p), NEW path, path \notin Paths(p), NEW node, IsNode(node), NEW parent
  PROVE  InStep(AddNodeAt(p, path, node, parent)) /\ AddNodeAt(p, path, node, parent).status = p.status
<1> DEFINE g == AddChild(p, parent, path)
<1>1. InStep(g) /\ path \notin Paths(g) /\ g.status = p.status
  BY AddChildFacts
<1>2. AddNodeAt(p, path, node, parent) = InsertNode(g, path, node)
  BY DEF AddNodeAt
<1> HIDE DEF g
<1> QED BY <1>1, <1>2, InsertNodeFacts

-----------------------------------------------------------------------------
(* A frame: the nodes run, the ports are listed, the receivers are checked *)

LEMMA UsedNodesAreSettled ==
  ASSUME NEW p, InStep(p), NEW path, ~Unused(p, path)
  PROVE  p.nodes[path].vt = p.nodes[path].ports
<1>1. CASE path \in DOMAIN p.cells
  BY <1>1 DEF InStep, TypesAgree, IsOfType
<1>2. CASE \E l \in ToSet(p.links) : l.target = path
  BY <1>2 DEF InStep, TypesAgree, IsOfType
<1> QED BY <1>1, <1>2 DEF Unused

LEMMA RefreshPortsFacts ==
  ASSUME NEW p, InStep(p)
  PROVE  InStep(RefreshPorts(p)) /\ RefreshPorts(p).status = p.status
<1> DEFINE listed(node) == [node EXCEPT !.ports = node.vt]
           nodes == [path \in Paths(p) |-> listed(p.nodes[path])]
           q == RefreshPorts(p)
<1>1. \A path \in Paths(p) : IsNode(p.nodes[path])
  BY PipelineShape DEF InStep
<1>2. ASSUME NEW node, IsNode(node)
      PROVE  /\ IsNode(listed(node)) /\ listed(node).type = node.type
             /\ listed(node).vt = node.vt /\ listed(node).ports = node.vt
  BY <1>2 DEF IsNode
<1> HIDE DEF listed
<1>3. SameNodes(p, nodes)
  BY <1>1, <1>2, UsedNodesAreSettled DEF SameNodes
<1>4. q = [p EXCEPT !.nodes = nodes]
  BY DEF RefreshPorts, listed
<1> HIDE DEF nodes, q
<1>5. /\ InStep(q)
      /\ q = [nodes |-> nodes, links |-> p.links, cells |-> p.cells,
              inputs |-> p.inputs, status |-> p.status]
  BY <1>3, <1>4, SameNodesFacts
<1>6. q.status = p.status
  BY <1>5
<1> QED BY <1>5, <1>6 DEF q

\* What an input reads comes along a link.
LEMMA ReadAlongLinks ==
  ASSUME NEW p, InStep(p), NEW target \in Ported(p), p.inputs[target].transports # <<>>
  PROVE  \E l \in ToSet(p.links) : l.target = target
<1> DEFINE ts == p.inputs[target].transports
<1>1. /\ p.links \in Seq(Links(p)) /\ p.inputs \in [Ported(p) -> Inputs(p)]
  BY PipelineShape DEF InStep
<1>2. ts \in Seq(Transports(p)) /\ ts # <<>>
  BY <1>1 DEF Inputs
<1>3. Reads(p, target, ts[1].name) = Times(ts, {Transport(ts[1].name)})
  BY DEF Reads
<1> HIDE DEF ts
<1>4. 1 \in DOMAIN ts /\ ts[1] \in Transports(p)
  BY <1>2
<1>5. PICK source \in Paths(p) : ts[1] = Transport(source)
  BY <1>4 DEF Transports
<1>6. ts[1].name = source
  BY <1>5, TransportsDiffer
<1>7. Times(ts, {Transport(source)}) # 0
  <2>1. ts[1] \in {Transport(source)}
    BY <1>5
  <2> QED BY <1>2, <1>4, <2>1, TimesIsZero
<1>8. Times(p.links, Between(source, target)) # 0
  <2>1. Reads(p, target, source) = Times(p.links, Between(source, target))
    BY <1>1 DEF InStep, Mirrors
  <2> QED BY <1>3, <1>6, <1>7, <2>1
<1>9. PICK n \in DOMAIN p.links : p.links[n] \in Between(source, target)
  BY <1>1, <1>8, TimesIsZero
<1> QED BY <1>9 DEF Between, ToSet

\* No node finds a receiver or a cell of another type than it asks for.
LEMMA ProcessNodesFacts ==
  ASSUME NEW p, InStep(p), NEW working, working \subseteq Ported(p)
  PROVE  ProcessNodes(p, working) = p
<1>1. ASSUME NEW path \in working, p.inputs[path].transports # <<>>
      PROVE  p.inputs[path].vt = p.nodes[path].vt
  <2>1. PICK l \in ToSet(p.links) : l.target = path
    BY <1>1, ReadAlongLinks
  <2> QED BY <2>1 DEF InStep, TypesAgree, IsOfType
<1>2. ASSUME NEW path \in DOMAIN p.cells
      PROVE  p.cells[path] = p.nodes[path].vt
  BY DEF InStep, TypesAgree, IsOfType
<1> QED BY <1>1, <1>2 DEF ProcessNodes

LEMMA CheckReceiversFacts ==
  ASSUME NEW p, InStep(p)
  PROVE  InStep(CheckReceivers(p)) /\ CheckReceivers(p).status = p.status
<1> DEFINE q == CheckReceivers(p)
           fresh(path) == p.inputs[path].vt # p.nodes[path].ports
           input(path) == IF fresh(path) THEN Unconnected(p.nodes[path].ports) ELSE p.inputs[path]
           inputs == [path \in Ported(p) |-> input(path)]
<1>1. /\ IsPipeline(p) /\ p.links \in Seq(Links(p)) /\ p.inputs \in [Ported(p) -> Inputs(p)]
      /\ DOMAIN p.inputs = Ported(p) /\ \A path \in Paths(p) : IsNode(p.nodes[path])
  BY PipelineShape DEF InStep
<1>2. q = [p EXCEPT !.inputs = inputs]
  <2> DEFINE stale(path) == /\ HasPorts(p.nodes[path].type)
                            /\ path \notin DOMAIN p.inputs \/ p.inputs[path].vt # p.nodes[path].ports
  <2>1. \A path \in Paths(p) : stale(path) <=> path \in Ported(p) /\ fresh(path)
    BY <1>1 DEF Ported
  <2>2. Ported(p) \subseteq Paths(p)
    BY DEF Ported
  <2>3. [path \in DOMAIN p.inputs \cup {path \in Paths(p) : stale(path)} |->
           IF path \in Paths(p) /\ stale(path) THEN Unconnected(p.nodes[path].ports) ELSE p.inputs[path]]
        = inputs
    <3>1. DOMAIN p.inputs \cup {path \in Paths(p) : stale(path)} = Ported(p)
      BY <1>1, <2>1
    <3> HIDE DEF stale
    <3> QED BY <2>1, <2>2, <3>1
  <2> QED BY <2>3 DEF CheckReceivers
<1>3. q = [nodes |-> p.nodes, links |-> p.links, cells |-> p.cells, inputs |-> inputs, status |-> p.status]
  <2> HIDE DEF inputs, q
  <2> QED BY <1>1, <1>2, OtherInputs
<1> HIDE DEF q
<1>4. ASSUME NEW l \in ToSet(p.links)
      PROVE  /\ l.target \in Ported(p) /\ ~fresh(l.target)
  BY <1>1 DEF InStep, TypesAgree, IsOfType
<1>5. ASSUME NEW path \in Ported(p)
      PROVE  input(path) \in Inputs(p)
  <2>1. CASE fresh(path)
    <3>1. p.nodes[path].ports \in PortTypes
      BY <1>1 DEF IsNode, Ported
    <3>2. <<>> \in Seq(Transports(p))
      OBVIOUS
    <3>3. [vt |-> p.nodes[path].ports, transports |-> <<>>] \in [vt : PortTypes, transports : Seq(Transports(p))]
      BY <3>1, <3>2
    <3> QED BY <2>1, <3>3 DEF Unconnected, Inputs
  <2>2. CASE ~fresh(path)
    BY <1>1, <2>2
  <2> QED BY <2>1, <2>2
<1>6. /\ inputs \in [Ported(p) -> Inputs(p)] /\ DOMAIN inputs = Ported(p)
      /\ \A path \in Ported(p) : inputs[path] = input(path)
  BY <1>5
<1> HIDE DEF inputs
<1>7. /\ q.nodes = p.nodes /\ q.links = p.links /\ q.cells = p.cells
      /\ q.inputs = inputs /\ q.status = p.status
  BY <1>3
<1>8. Paths(q) = Paths(p) /\ Ported(q) = Ported(p) /\ Links(q) = Links(p)
  BY <1>7 DEF Paths, Ported, Links
<1>9. IsPipeline(q)
  <2>1. /\ p.nodes = [path \in Paths(p) |-> p.nodes[path]] /\ \A path \in Paths(p) : IsNode(p.nodes[path])
        /\ p.links \in Seq(Links(p)) /\ p.cells \in [DOMAIN p.cells -> PortTypes]
        /\ DOMAIN p.cells \subseteq Ported(p)
    BY <1>1, PipelineShape
  <2>2. inputs \in [Ported(q) -> [vt : PortTypes, transports : Seq({Transport(path) : path \in Paths(q)})]]
    BY <1>6, <1>8 DEF Inputs, Transports
  <2> QED BY <1>3, <1>7, <1>8, <2>1, <2>2 DEF IsPipeline
<1>10. TypesAgree(q)
  <2>1. \A path, vt : IsOfType(q, path, vt) <=> IsOfType(p, path, vt)
    BY <1>7 DEF IsOfType
  <2>2. ASSUME NEW l \in ToSet(p.links) PROVE inputs[l.target].vt = l.vt
    BY <1>4, <1>6 DEF InStep, TypesAgree
  <2> QED BY <1>1, <1>6, <1>7, <2>1, <2>2 DEF InStep, TypesAgree
<1>11. OneLinkIntoSingles(q)
  BY <1>7, <1>8 DEF InStep, OneLinkIntoSingles, Into
<1>12. Mirrors(q)
  <2>1. ASSUME NEW target \in Ported(p), NEW source \in Paths(p)
        PROVE  Reads(q, target, source) = Times(p.links, Between(source, target))
    <3>1. CASE fresh(target)
      <4>1. \A n \in DOMAIN p.links : p.links[n] \notin Between(source, target)
        BY <1>4, <3>1 DEF Between, ToSet
      <4>2. Times(p.links, Between(source, target)) = 0
        BY <1>1, <4>1, TimesIsZero
      <4>3. q.inputs[target].transports = <<>>
        BY <1>6, <1>7, <3>1 DEF Unconnected
      <4> QED BY <4>2, <4>3, TimesOfNone DEF Reads
    <3>2. CASE ~fresh(target)
      <4>1. q.inputs[target] = p.inputs[target]
        BY <1>6, <1>7, <3>2
      <4> QED BY <1>1, <4>1 DEF InStep, Mirrors, Reads
    <3> QED BY <3>1, <3>2
  <2> QED BY <1>6, <1>7, <1>8, <2>1 DEF Mirrors
<1> QED BY <1>7, <1>9, <1>10, <1>11, <1>12 DEF InStep, q

-----------------------------------------------------------------------------
(* Renaming a node that no link leaves *)

LEMMA TimesAlike ==
  ASSUME NEW s, NEW t, DOMAIN s = DOMAIN t, NEW X, NEW Y,
         \A n \in DOMAIN s : s[n] \in X <=> t[n] \in Y
  PROVE  Times(s, X) = Times(t, Y)
<1>1. {n \in DOMAIN s : s[n] \in X} = {n \in DOMAIN t : t[n] \in Y}
  OBVIOUS
<1> QED BY <1>1 DEF Times

LEMMA NotReadFrom ==
  ASSUME NEW p, InStep(p), NEW from \in Paths(p), \A l \in ToSet(p.links) : l.source # from,
         NEW target \in Ported(p), NEW n \in DOMAIN p.inputs[target].transports
  PROVE  \E source \in Paths(p) \ {from} : p.inputs[target].transports[n] = Transport(source)
<1> DEFINE ts == p.inputs[target].transports
<1>1. p.links \in Seq(Links(p)) /\ p.inputs \in [Ported(p) -> Inputs(p)]
  BY PipelineShape DEF InStep
<1>2. ts \in Seq(Transports(p)) /\ DOMAIN p.inputs = Ported(p)
  BY <1>1 DEF Inputs
<1>3. Times(p.links, Between(from, target)) = 0
  <2>1. \A m \in DOMAIN p.links : p.links[m] \notin Between(from, target)
    BY DEF ToSet, Between
  <2> QED BY <1>1, <2>1, TimesIsZero
<1>4. Times(ts, {Transport(from)}) = 0
  BY <1>2, <1>3 DEF InStep, Mirrors, Reads
<1> HIDE DEF ts
<1>5. ts[n] \in Transports(p) /\ ts[n] \notin {Transport(from)}
  <2>1. n \in DOMAIN ts
    BY DEF ts
  <2> QED BY <1>2, <1>4, <2>1, TimesIsZero
<1> QED BY <1>5 DEF Transports, ts

LEMMA RenameNodeFacts ==
  ASSUME NEW p, InStep(p), NEW from \in Paths(p), NEW to, to \notin Paths(p),
         \A l \in ToSet(p.links) : l.source # from
  PROVE  InStep(RenameNode(p, from, to)) /\ RenameNode(p, from, to).status = p.status
<1> DEFINE q == RenameNode(p, from, to)
           rename(path) == IF path = from THEN to ELSE path
           old(path) == IF path = to THEN from ELSE path
           renamed(l) == [l EXCEPT !.source = rename(@), !.target = rename(@)]
           links == [n \in DOMAIN p.links |-> renamed(p.links[n])]
           inputs == RenameKey(p.inputs, from, to)
           cells == RenameKey(p.cells, from, to)
           nodes == RenameKey(p.nodes, from, to)
           follow(t) == IF t.cell = from THEN [t EXCEPT !.cell = to] ELSE t
           moved(i) == [i EXCEPT !.transports = [n \in DOMAIN i.transports |-> follow(i.transports[n])]]
<1>1. /\ IsPipeline(p) /\ p.links \in Seq(Links(p)) /\ p.inputs \in [Ported(p) -> Inputs(p)]
      /\ p.cells \in [DOMAIN p.cells -> PortTypes] /\ DOMAIN p.cells \subseteq Ported(p)
      /\ p.nodes = [other \in Paths(p) |-> p.nodes[other]] /\ \A other \in Paths(p) : IsNode(p.nodes[other])
      /\ Ported(p) \subseteq Paths(p) /\ DOMAIN p.inputs = Ported(p)
  BY PipelineShape DEF InStep, Ported
<1>2. ASSUME NEW f, f = [k \in DOMAIN f |-> f[k]], to \notin DOMAIN f
      PROVE  LET g == RenameKey(f, from, to)
             IN  /\ DOMAIN g = {rename(k) : k \in DOMAIN f} /\ g = [k \in DOMAIN g |-> g[k]]
                 /\ \A k \in DOMAIN g : old(k) \in DOMAIN f /\ g[k] = f[old(k)] /\ rename(old(k)) = k
                 /\ \A k \in DOMAIN f : rename(k) \in DOMAIN g /\ g[rename(k)] = f[k]
  <2>1. CASE from \in DOMAIN f
    BY <1>2, <2>1 DEF RenameKey, Inserted, Without
  <2>2. CASE from \notin DOMAIN f
    BY <1>2, <2>2 DEF RenameKey
  <2> QED BY <2>1, <2>2
<1>3. /\ DOMAIN nodes = {rename(k) : k \in Paths(p)} /\ nodes = [k \in DOMAIN nodes |-> nodes[k]]
      /\ \A k \in DOMAIN nodes : old(k) \in Paths(p) /\ nodes[k] = p.nodes[old(k)] /\ rename(old(k)) = k
      /\ \A k \in Paths(p) : rename(k) \in DOMAIN nodes /\ nodes[rename(k)] = p.nodes[k]
  BY <1>1, <1>2 DEF Paths
<1>4. /\ DOMAIN inputs = {rename(k) : k \in Ported(p)} /\ inputs = [k \in DOMAIN inputs |-> inputs[k]]
      /\ \A k \in DOMAIN inputs : old(k) \in Ported(p) /\ inputs[k] = p.inputs[old(k)]
      /\ \A k \in Ported(p) : rename(k) \in DOMAIN inputs /\ inputs[rename(k)] = p.inputs[k]
  <2>1. p.inputs = [k \in DOMAIN p.inputs |-> p.inputs[k]] /\ to \notin DOMAIN p.inputs
    BY <1>1
  <2>2. /\ DOMAIN inputs = {rename(k) : k \in DOMAIN p.inputs} /\ inputs = [k \in DOMAIN inputs |-> inputs[k]]
        /\ \A k \in DOMAIN inputs : old(k) \in DOMAIN p.inputs /\ inputs[k] = p.inputs[old(k)]
        /\ \A k \in DOMAIN p.inputs : rename(k) \in DOMAIN inputs /\ inputs[rename(k)] = p.inputs[k]
    BY <1>2, <2>1
  <2> HIDE DEF inputs, rename, old
  <2> QED BY <1>1, <2>2
<1>5. /\ DOMAIN cells = {rename(k) : k \in DOMAIN p.cells} /\ cells = [k \in DOMAIN cells |-> cells[k]]
      /\ \A k \in DOMAIN cells : old(k) \in DOMAIN p.cells /\ cells[k] = p.cells[old(k)]
      /\ \A k \in DOMAIN p.cells : rename(k) \in DOMAIN cells /\ cells[rename(k)] = p.cells[k]
  <2>1. p.cells = [k \in DOMAIN p.cells |-> p.cells[k]] /\ to \notin DOMAIN p.cells
    BY <1>1
  <2> QED BY <1>2, <2>1
<1> HIDE DEF nodes, cells
<1>6. ASSUME NEW target \in Ported(p) PROVE moved(p.inputs[target]) = p.inputs[target]
  <2> DEFINE ts == p.inputs[target].transports
  <2>1. ts \in Seq(Transports(p)) /\ p.inputs[target] \in [vt : PortTypes, transports : Seq(Transports(p))]
    BY <1>1 DEF Inputs
  <2>2. ASSUME NEW n \in DOMAIN ts PROVE follow(ts[n]) = ts[n]
    <3>1. PICK source \in Paths(p) \ {from} : ts[n] = Transport(source)
      BY NotReadFrom
    <3> QED BY <3>1 DEF Transport
  <2> HIDE DEF follow
  <2>3. [n \in DOMAIN ts |-> follow(ts[n])] = ts
    BY <2>1, <2>2
  <2> QED BY <2>1, <2>3
<1>7. [target \in DOMAIN inputs |-> moved(inputs[target])] = inputs
  <2>1. \A target \in DOMAIN inputs : moved(inputs[target]) = inputs[target]
    BY <1>4, <1>6
  <2> HIDE DEF inputs, moved
  <2> QED BY <1>4, <2>1
<1>8. q = [nodes |-> nodes, links |-> links, cells |-> cells, inputs |-> inputs, status |-> p.status]
  <2> DEFINE g == [p EXCEPT !.nodes = nodes, !.links = links]
  <2>1. p \in [nodes : {p.nodes}, links : {p.links}, cells : {p.cells}, inputs : {p.inputs}, status : {p.status}]
    BY <1>1 DEF IsPipeline
  <2>2. q = RenameInWorker(g, from, to)
    BY DEF RenameNode, nodes
  <2> HIDE DEF links
  <2>3. /\ g = [nodes |-> nodes, links |-> links, cells |-> p.cells, inputs |-> p.inputs, status |-> p.status]
        /\ g.inputs = p.inputs /\ g.cells = p.cells
    <3>1. g = [nodes |-> nodes, links |-> links, cells |-> p.cells, inputs |-> p.inputs, status |-> p.status]
      <4> DEFINE h == [p EXCEPT !.nodes = nodes]
      <4>1. h = [nodes |-> nodes, links |-> p.links, cells |-> p.cells, inputs |-> p.inputs, status |-> p.status]
        BY <2>1
      <4>2. g = [h EXCEPT !.links = links]
        BY <2>1
      <4> HIDE DEF g, h
      <4> QED BY <4>1, <4>2
    <3> HIDE DEF g
    <3> QED BY <3>1
  <2> HIDE DEF g, q
  <2>4. RenameInWorker(g, from, to) = [g EXCEPT !.cells = cells, !.inputs = inputs]
    <3>1. RenameInWorker(g, from, to)
            = [g EXCEPT !.cells = cells, !.inputs = [target \in DOMAIN inputs |-> moved(inputs[target])]]
      BY <2>3 DEF RenameInWorker, cells
    <3> HIDE DEF inputs, moved
    <3> QED BY <1>7, <3>1
  <2> HIDE DEF inputs
  <2> QED BY <2>2, <2>3, <2>4
<1> HIDE DEF q, inputs, moved, follow
<1>9. /\ q.nodes = nodes /\ q.links = links /\ q.cells = cells /\ q.inputs = inputs /\ q.status = p.status
  BY <1>8
<1>10. /\ Paths(q) = {rename(k) : k \in Paths(p)} /\ Ported(q) = {rename(k) : k \in Ported(p)}
       /\ to \in Paths(q)
  <2>1. DOMAIN q.nodes = {rename(k) : k \in Paths(p)}
    BY <1>3, <1>9
  <2>2. Paths(q) = {rename(k) : k \in Paths(p)}
    BY <2>1 DEF Paths
  <2>3. \A k : k \in Ported(q) <=> k \in {rename(j) : j \in Ported(p)}
    <3>1. ASSUME NEW k \in Ported(q) PROVE k \in {rename(j) : j \in Ported(p)}
      <4>1. k \in DOMAIN nodes /\ HasPorts(nodes[k].type)
        BY <1>9 DEF Ported, Paths
      <4>2. old(k) \in Ported(p) /\ rename(old(k)) = k
        BY <1>3, <4>1 DEF Ported
      <4> QED BY <4>2
    <3>2. ASSUME NEW j \in Ported(p) PROVE rename(j) \in Ported(q)
      BY <1>3, <1>9 DEF Ported, Paths
    <3> QED BY <3>1, <3>2
  <2>4. to = rename(from)
    OBVIOUS
  <2> HIDE DEF rename
  <2> QED BY <2>2, <2>3, <2>4
<1>11. ASSUME NEW n \in DOMAIN p.links
       PROVE  /\ p.links[n] \in Links(p) /\ p.links[n].source \in Paths(p) \ {from}
              /\ links[n] = [source |-> p.links[n].source, target |-> rename(p.links[n].target), vt |-> p.links[n].vt]
              /\ links[n] \in Links(q)
  <2>1. p.links[n] \in Links(p) /\ p.links[n] \in ToSet(p.links)
    BY <1>1 DEF ToSet
  <2>2. p.links[n].source # from
    BY <2>1
  <2>3. links[n] = renamed(p.links[n])
    OBVIOUS
  <2>4. links[n] = [source |-> p.links[n].source, target |-> rename(p.links[n].target), vt |-> p.links[n].vt]
    BY <2>1, <2>2, <2>3 DEF Links
  <2>5. p.links[n].source \in Paths(q) /\ rename(p.links[n].target) \in Paths(q) /\ p.links[n].vt \in PortTypes
    BY <1>10, <2>1, <2>2 DEF Links
  <2> QED BY <2>1, <2>2, <2>4, <2>5 DEF Links
<1>12. DOMAIN links = DOMAIN p.links /\ links \in Seq(Links(q))
  <2>1. p.links \in [1 .. Len(p.links) -> Links(p)] /\ Len(p.links) \in Nat /\ DOMAIN p.links = 1 .. Len(p.links)
    BY <1>1
  <2>2. DOMAIN links = DOMAIN p.links /\ links = [n \in DOMAIN p.links |-> links[n]]
    OBVIOUS
  <2> HIDE DEF links
  <2>3. links \in [1 .. Len(p.links) -> Links(q)]
    BY <1>11, <2>1, <2>2
  <2> QED BY <2>1, <2>2, <2>3
<1> HIDE DEF links, renamed
<1>19. ASSUME NEW n \in DOMAIN p.links
       PROVE  /\ links[n].source = p.links[n].source /\ links[n].target = rename(p.links[n].target)
              /\ links[n].vt = p.links[n].vt /\ links[n] \in Links(q)
              /\ p.links[n].source \in Paths(p) \ {from} /\ p.links[n].target \in Paths(p)
              /\ p.links[n].vt \in PortTypes /\ p.links[n] \in Links(p)
  <2> HIDE DEF rename
  <2> DEFINE l == p.links[n]
             t == rename(l.target)
  <2>1. l \in Links(p) /\ l.source \in Paths(p) \ {from} /\ links[n] \in Links(q)
    BY <1>11
  <2>2. links[n] = [source |-> l.source, target |-> t, vt |-> l.vt]
    BY <1>11
  <2>3. l.target \in Paths(p) /\ l.vt \in PortTypes
    BY <2>1 DEF Links
  <2>4. links[n].source = l.source /\ links[n].target = t /\ links[n].vt = l.vt
    <3> HIDE DEF l, t
    <3> QED BY <2>2
  <2> QED BY <2>1, <2>3, <2>4
<1>13. IsPipeline(q)
  <2>1. ASSUME NEW t \in Ported(q) PROVE inputs[t] \in [vt : PortTypes, transports : Seq(Transports(q))]
    <3>1. old(t) \in Ported(p) /\ inputs[t] = p.inputs[old(t)]
      BY <1>4, <1>10
    <3> DEFINE ts == p.inputs[old(t)].transports
    <3>2. p.inputs[old(t)] \in [vt : PortTypes, transports : Seq(Transports(p))]
      BY <1>1, <3>1 DEF Inputs
    <3>3. ASSUME NEW n \in DOMAIN ts PROVE ts[n] \in Transports(q)
      <4>1. PICK source \in Paths(p) \ {from} : ts[n] = Transport(source)
        BY <3>1, NotReadFrom
      <4>2. source \in Paths(q)
        BY <1>10
      <4> QED BY <4>1, <4>2 DEF Transports
    <3>4. ts \in Seq(Transports(q))
      BY <3>2, <3>3, SeqOfFewer
    <3> QED BY <3>1, <3>2, <3>4
  <2>2. q.inputs \in [Ported(q) -> [vt : PortTypes, transports : Seq({Transport(other) : other \in Paths(q)})]]
    BY <1>4, <1>9, <1>10, <2>1 DEF Transports
  <2>3. q.nodes = [other \in Paths(q) |-> q.nodes[other]] /\ \A other \in Paths(q) : IsNode(q.nodes[other])
    BY <1>1, <1>3, <1>9, <1>10
  <2>4. q.cells \in [DOMAIN q.cells -> PortTypes] /\ DOMAIN q.cells \subseteq Ported(q)
    BY <1>1, <1>5, <1>9, <1>10
  <2>5. q \in [nodes : {q.nodes}, links : {q.links}, cells : {q.cells}, inputs : {q.inputs}, status : {q.status}]
    BY <1>8
  <2>6. q \in [nodes : {q.nodes}, links : Seq(Links(q)), cells : [DOMAIN q.cells -> PortTypes],
               inputs : [Ported(q) -> [vt : PortTypes, transports : Seq({Transport(other) : other \in Paths(q)})]],
               status : {q.status}]
    BY <1>9, <1>12, <2>2, <2>4, <2>5
  <2> QED BY <2>3, <2>4, <2>6 DEF IsPipeline
<1>14. ASSUME NEW path \in Paths(p), NEW vt
       PROVE  IsOfType(q, rename(path), vt) <=> IsOfType(p, path, vt)
  BY <1>3, <1>9 DEF IsOfType
<1>15. TypesAgree(q)
  <2>1. ASSUME NEW l \in ToSet(q.links)
        PROVE  /\ l.source \in DOMAIN q.cells /\ q.cells[l.source] = l.vt
               /\ l.target \in DOMAIN q.inputs /\ q.inputs[l.target].vt = l.vt
               /\ IsOfType(q, l.target, l.vt)
    <3>1. PICK n \in DOMAIN p.links : l = links[n]
      BY <1>9, <1>12 DEF ToSet
    <3> DEFINE k == p.links[n]
    <3>2. k \in ToSet(p.links) /\ k.source # from /\ k.target \in Paths(p)
      BY <1>19 DEF ToSet, Links
    <3>3. l.source = k.source /\ l.target = rename(k.target) /\ l.vt = k.vt
      BY <1>19, <3>1
    <3>4. /\ k.source \in DOMAIN p.cells /\ p.cells[k.source] = k.vt
          /\ k.target \in Ported(p) /\ p.inputs[k.target].vt = k.vt
          /\ IsOfType(p, k.target, k.vt)
      BY <1>1, <3>2 DEF InStep, TypesAgree
    <3> HIDE DEF k
    <3>5. k.source \in DOMAIN cells /\ cells[k.source] = k.vt
      BY <1>5, <3>2, <3>4
    <3> QED BY <1>4, <1>9, <1>14, <3>2, <3>3, <3>4, <3>5
  <2>2. ASSUME NEW path \in DOMAIN q.cells PROVE IsOfType(q, path, q.cells[path])
    <3>1. PICK k \in DOMAIN p.cells : path = rename(k) /\ q.cells[path] = p.cells[k]
      BY <1>5, <1>9
    <3>2. IsOfType(p, k, p.cells[k]) /\ k \in Paths(p)
      BY <1>1 DEF InStep, TypesAgree
    <3> QED BY <1>14, <3>1, <3>2
  <2> QED BY <2>1, <2>2 DEF TypesAgree
<1>16. ASSUME NEW t \in Paths(p), NEW n \in DOMAIN p.links
       PROVE  links[n].target = rename(t) <=> p.links[n].target = t
  BY <1>19 DEF Links
<1>17. OneLinkIntoSingles(q)
  <2>1. ASSUME NEW target \in Ported(q)
        PROVE  TakesMany(q.nodes[target].type) \/ Times(q.links, Into(q, target)) <= 1
    <3>1. PICK t \in Ported(p) : target = rename(t)
      BY <1>10
    <3>2. q.nodes[target] = p.nodes[t]
      BY <1>1, <1>3, <1>9, <3>1
    <3>3. TakesMany(q.nodes[target].type) \/ Times(p.links, Into(p, t)) <= 1
      BY <3>2 DEF InStep, OneLinkIntoSingles
    <3>4. ASSUME NEW n \in DOMAIN p.links
          PROVE  links[n] \in Into(q, target) <=> p.links[n] \in Into(p, t)
      <4>1. links[n] \in Into(q, target) <=> links[n].target = target
        BY <1>19 DEF Into, Links
      <4>2. p.links[n] \in Into(p, t) <=> p.links[n].target = t
        BY <1>19 DEF Into, Links
      <4> QED BY <1>1, <1>16, <3>1, <4>1, <4>2
    <3>5. Times(links, Into(q, target)) = Times(p.links, Into(p, t))
      BY <1>12, <3>4, TimesAlike
    <3> QED BY <1>9, <3>3, <3>5
  <2> QED BY <2>1 DEF OneLinkIntoSingles
<1>18. Mirrors(q)
  <2>1. ASSUME NEW target \in Ported(q), NEW source \in Paths(q)
        PROVE  Reads(q, target, source) = Times(q.links, Between(source, target))
    <3>1. PICK t \in Ported(p) : target = rename(t)
      BY <1>10
    <3> DEFINE ts == p.inputs[t].transports
    <3>2. Reads(q, target, source) = Times(ts, {Transport(source)})
      BY <1>4, <1>9, <3>1 DEF Reads
    <3>3. CASE source = to
      <4>1. \A n \in DOMAIN links : links[n] \notin Between(source, target)
        BY <1>19, <1>12, <3>3 DEF Between
      <4>2. Times(links, Between(source, target)) = 0
        BY <1>12, <4>1, TimesIsZero
      <4>3. ts \in Seq(Transports(p)) /\ Transport(source) \notin Transports(p)
        BY <1>1, <3>3, TransportsDiffer DEF Inputs, Transports
      <4> HIDE DEF ts
      <4>4. Times(ts, {Transport(source)}) = 0
        BY <4>3, TimesIsZero
      <4> QED BY <1>9, <3>2, <4>2, <4>4
    <3>4. CASE source \in Paths(p) \ {from}
      <4>1. Reads(p, t, source) = Times(p.links, Between(source, t))
        BY <1>1, <3>4 DEF InStep, Mirrors
      <4>2. ASSUME NEW n \in DOMAIN p.links
            PROVE  links[n] \in Between(source, target) <=> p.links[n] \in Between(source, t)
        <5>1. links[n] \in Between(source, target) <=> links[n].source = source /\ links[n].target = target
          BY <1>19 DEF Between, Links
        <5>2. p.links[n] \in Between(source, t) <=> p.links[n].source = source /\ p.links[n].target = t
          BY <1>19 DEF Between, Links
        <5> QED BY <1>1, <1>19, <1>16, <3>1, <5>1, <5>2
      <4>3. Times(links, Between(source, target)) = Times(p.links, Between(source, t))
        BY <1>12, <4>2, TimesAlike
      <4> QED BY <1>9, <3>2, <4>1, <4>3 DEF Reads
    <3> QED BY <1>10, <3>3, <3>4
  <2>2. DOMAIN q.inputs = Ported(q)
    BY <1>4, <1>9, <1>10
  <2> QED BY <2>1, <2>2 DEF Mirrors
<1> QED BY <1>9, <1>13, <1>15, <1>17, <1>18 DEF InStep, q

-----------------------------------------------------------------------------
(* The theorems *)

\* A single input lets go of its link before it takes another.
LEMMA ReplaceLinkFacts ==
  ASSUME NEW p, InStep(p), p.status = "ok", NEW link, Linkable(p, link),
         NEW old \in ToSet(p.links), old.target = link.target
  PROVE  LET q == AddLink(DeleteLink(p, old), link)
         IN  InStep(q) /\ q.status \in {"ok", "error"}
<1> DEFINE g == DeleteLink(p, old)
           target == link.target
<1>1. p.links \in Seq(Links(p)) /\ target \in Ported(p) /\ IsPipeline(p)
  BY PipelineShape DEF InStep, Linkable
<1>2. /\ InStep(g) /\ g.nodes = p.nodes /\ g.status = "ok"
      /\ ToSet(g.links) = ToSet(p.links) \ {old} /\ g.inputs \in SameReceivers(p)
  BY RemoveLinksFacts DEF DeleteLink
<1> HIDE DEF g
<1>3. Paths(g) = Paths(p) /\ Ported(g) = Ported(p) /\ Links(g) = Links(p) /\ Into(g, target) = Into(p, target)
  BY <1>2 DEF Paths, Ported, Links, Into
<1>4. g.links \in Seq(Links(p)) /\ g.inputs[target].vt = p.inputs[target].vt
  <2>1. g.links \in Seq(Links(g))
    BY <1>2, PipelineShape DEF InStep
  <2> QED BY <1>1, <1>2, <1>3, <2>1 DEF SameReceivers
<1>5. Linkable(g, link)
  BY <1>2, <1>3, <1>4 DEF Linkable
<1>6. TakesMany(g.nodes[target].type) \/ Times(g.links, Into(g, target)) = 0
  <2> SUFFICES ASSUME ~TakesMany(p.nodes[target].type)
               PROVE  Times(g.links, Into(p, target)) = 0
    BY <1>2, <1>3
  <2> DEFINE X == Into(p, target)
  <2>1. Times(p.links, X) <= 1
    BY <1>1 DEF InStep, OneLinkIntoSingles
  <2>2. Times(p.links, X) = Times(p.links, X \cap {old}) + Times(p.links, X \cap (ToSet(p.links) \ {old}))
    BY <1>1, TimesAreSplit
  <2>3. Times(p.links, X \cap {old}) # 0
    <3>1. PICK n \in DOMAIN p.links : p.links[n] = old
      BY DEF ToSet
    <3>2. p.links[n] \in Links(p)
      BY <1>1
    <3>3. p.links[n] \in X \cap {old}
      BY <3>1, <3>2 DEF Into, Links
    <3> HIDE DEF X
    <3> QED BY <1>1, <3>3, TimesIsZero
  <2>4. Times(p.links, X \cap {old}) \in Nat /\ Times(p.links, X \cap (ToSet(p.links) \ {old})) \in Nat
    BY <1>1, WhereIsFinite
  <2>5. Times(p.links, X \cap (ToSet(p.links) \ {old})) = 0
    <3> HIDE DEF X
    <3> QED BY <2>1, <2>2, <2>3, <2>4
  <2> HIDE DEF X
  <2>6. ASSUME NEW n \in DOMAIN g.links PROVE g.links[n] \notin X
    <3>1. g.links[n] \in ToSet(p.links) \ {old}
      BY <1>2 DEF ToSet
    <3>2. PICK m \in DOMAIN p.links : p.links[m] = g.links[n]
      BY <3>1 DEF ToSet
    <3>3. p.links[m] \notin X \cap (ToSet(p.links) \ {old})
      BY <1>1, <2>5, TimesIsZero
    <3> QED BY <3>1, <3>2, <3>3
  <2>7. Times(g.links, X) = 0
    BY <1>4, <2>6, TimesIsZero
  <2> QED BY <2>7 DEF X
<1>7. MayLink(g, link)
  BY <1>5, <1>6 DEF MayLink
<1>8. InStep(AddLink(g, link)) /\ AddLink(g, link).status \in {"ok", "error"}
  BY <1>2, <1>7, AddLinkFacts
<1> QED BY <1>8 DEF g

\* A project starts with no nodes, and then graph and worker are in step.
\* (Pipeline::new, PipelineWorker::new.)
THEOREM EmptyIsInStep == InStep(EmptyPipeline)
<1> DEFINE p == EmptyPipeline
<1>1. p = [nodes |-> <<>>, links |-> <<>>, cells |-> <<>>, inputs |-> <<>>, status |-> "ok"]
  BY DEF EmptyPipeline
<1> HIDE DEF p
<1>2. Paths(p) = {} /\ Ported(p) = {} /\ DOMAIN p.cells = {} /\ DOMAIN p.inputs = {} /\ DOMAIN p.links = {}
  BY <1>1 DEF Paths, Ported
<1>3. <<>> \in Seq(Links(p)) /\ <<>> = [x \in {} |-> <<>>[x]]
  OBVIOUS
<1>4. IsPipeline(p)
  BY <1>1, <1>2, <1>3 DEF IsPipeline
<1>5. TypesAgree(p)
  BY <1>2 DEF TypesAgree, ToSet
<1>6. OneLinkIntoSingles(p) /\ Mirrors(p)
  BY <1>2 DEF OneLinkIntoSingles, Mirrors
<1> QED BY <1>4, <1>5, <1>6 DEF InStep, p

\* What commands ask of the graph: a node of a new path, a copy of one, a link
\* (into a single input in place of the one it has), links or a node removed, a
\* node renamed that no link leaves.
GraphStep(p, q) ==
  \/ \E path, node, parent : path \notin Paths(p) /\ IsNode(node) /\ q = AddNodeAt(p, path, node, parent)
  \/ \E path, new : path \in Paths(p) /\ new \notin Paths(p) /\ q = DuplicateNode(p, path, new)
  \/ \E link : MayLink(p, link) /\ q = AddLink(p, link)
  \/ \E link, old : /\ Linkable(p, link) /\ old \in ToSet(p.links) /\ old.target = link.target
                    /\ q = AddLink(DeleteLink(p, old), link)
  \/ \E gone : q = RemoveLinks(p, gone)
  \/ \E path : q = DeleteNode(p, path)
  \/ \E from, to : /\ from \in Paths(p) /\ to \notin Paths(p) /\ \A l \in ToSet(p.links) : l.source # from
                   /\ q = RenameNode(p, from, to)

\* However many nodes and links there are, what a command changes in the graph
\* changes in the worker too, and no expect of the worker is reached: inputs
\* still read exactly the cells of the nodes that are linked to them, of the type
\* of the link. (Pipeline::add_node, duplicate_node, add_link, remove_links_if,
\* delete_node, rename_node against PipelineWorker::register_node, connect_nodes,
\* disconnect_port, remove_node, rename_node.)
THEOREM GraphStepsKeepInStep ==
  ASSUME NEW p, InStep(p), p.status = "ok", NEW q, GraphStep(p, q)
  PROVE  InStep(q) /\ q.status \in {"ok", "error"}
<1>1. ASSUME NEW path, NEW node, NEW parent, path \notin Paths(p), IsNode(node),
             q = AddNodeAt(p, path, node, parent)
      PROVE  InStep(q) /\ q.status = "ok"
  BY <1>1, AddNodeAtFacts
<1>2. ASSUME NEW path \in Paths(p), NEW new, new \notin Paths(p), q = DuplicateNode(p, path, new)
      PROVE  InStep(q) /\ q.status = "ok"
  <2>1. IsNode(p.nodes[path])
    BY PipelineShape DEF InStep
  <2> QED BY <1>2, <2>1, InsertNodeFacts DEF DuplicateNode
<1>3. ASSUME NEW link, MayLink(p, link), q = AddLink(p, link)
      PROVE  InStep(q) /\ q.status \in {"ok", "error"}
  BY <1>3, AddLinkFacts
<1>4. ASSUME NEW link, NEW old, Linkable(p, link), old \in ToSet(p.links), old.target = link.target,
             q = AddLink(DeleteLink(p, old), link)
      PROVE  InStep(q) /\ q.status \in {"ok", "error"}
  BY <1>4, ReplaceLinkFacts
<1>5. ASSUME NEW gone, q = RemoveLinks(p, gone)
      PROVE  InStep(q) /\ q.status = "ok"
  BY <1>5, RemoveLinksFacts
<1>6. ASSUME NEW path, q = DeleteNode(p, path)
      PROVE  InStep(q) /\ q.status = "ok"
  BY <1>6, DeleteNodeFacts
<1>7. ASSUME NEW from \in Paths(p), NEW to, to \notin Paths(p), \A l \in ToSet(p.links) : l.source # from,
             q = RenameNode(p, from, to)
      PROVE  InStep(q) /\ q.status = "ok"
  BY <1>7, RenameNodeFacts
<1> QED BY <1>1, <1>2, <1>3, <1>4, <1>5, <1>6, <1>7 DEF GraphStep

\* A frame in which any of the nodes with ports have work to do, with or without
\* the ports listed again after it, reads and writes every cell as the type it
\* is of, and the check of the receivers that follows takes nothing from an input
\* that is linked. (PipelineWorker::process, check_receivers, and the reads and
\* writes of ports.rs; Pipeline::refresh_ports.)
THEOREM FramesKeepInStep ==
  ASSUME NEW p, InStep(p), p.status = "ok", NEW working, working \subseteq Ported(p), NEW shown \in BOOLEAN
  PROVE  LET ran    == ProcessNodes(p, working)
             listed == IF shown THEN RefreshPorts(ran) ELSE ran
         IN  ran = p /\ InStep(CheckReceivers(listed)) /\ CheckReceivers(listed).status = "ok"
<1> DEFINE ran == ProcessNodes(p, working)
           listed == IF shown THEN RefreshPorts(ran) ELSE ran
<1>1. ran = p
  BY ProcessNodesFacts
<1>2. InStep(listed) /\ listed.status = "ok"
  BY <1>1, RefreshPortsFacts
<1> HIDE DEF listed
<1>3. InStep(CheckReceivers(listed)) /\ CheckReceivers(listed).status = "ok"
  BY <1>2, CheckReceiversFacts
<1> QED BY <1>1, <1>3 DEF listed
=============================================================================
