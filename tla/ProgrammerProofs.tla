-------------------------- MODULE ProgrammerProofs --------------------------
(* Proofs about ProgrammerSession, for any fixtures, groups, presets,       *)
(* arguments and number of calls. The first half is about sequences: that   *)
(* AddFixtures and RemoveFixture keep a selection free of repetitions, and  *)
(* that blocks, groups and wings only rearrange it. The folds of the        *)
(* libraries are recursive functions, so their values are had by least      *)
(* counterexample. The second half is the invariant and, on top of it, the  *)
(* refinement of ProgrammerValues, action by action.                        *)
EXTENDS ProgrammerSession, SequenceTheorems, FiniteSetTheorems, TLAPS

-----------------------------------------------------------------------------
(* Numbers, and adding fixtures *)

\* A nonempty set of numbers has a least one.
LEMMA LeastNumber ==
  ASSUME NEW S, S \subseteq Nat, S # {}
  PROVE  \E m \in S : \A n \in S : m <= n
<1> DEFINE R == OpToRel(<, Nat)
<1>1. IsWellFoundedOn(R, Nat)
  BY NatLessThanWellFounded
<1>2. \A m, n \in Nat : <<m, n>> \in R <=> m < n
  BY DEF OpToRel
<1> HIDE DEF R
<1>3. PICK m \in S : \A n \in S : ~(<<n, m>> \in R)
  BY <1>1, WFMin
<1>4. ASSUME NEW n \in S PROVE m <= n
  <2>1. m \in Nat /\ n \in Nat /\ ~(n < m)
    BY <1>2, <1>3
  <2> QED BY <2>1
<1> QED BY <1>4

\* Max picks the greatest of a nonempty set of numbers with a bound.
LEMMA Greatest ==
  ASSUME NEW N \in Nat, NEW S, S \subseteq 0 .. N, S # {}
  PROVE  Max(S) \in S /\ \A n \in S : Max(S) >= n
<1> DEFINE T == {N - n : n \in S}
<1>1. PICK m \in T : \A n \in T : m <= n
  <2>1. T \subseteq Nat
    <3> SUFFICES ASSUME NEW n \in S PROVE N - n \in Nat
      OBVIOUS
    <3>1. n \in 0 .. N
      OBVIOUS
    <3> QED BY <3>1
  <2>2. T # {}
    OBVIOUS
  <2> HIDE DEF T
  <2> QED BY <2>1, <2>2, LeastNumber
<1>2. N - m \in S /\ \A n \in S : N - m >= n
  <2>1. PICK k \in S : m = N - k
    BY <1>1
  <2>2. \A n \in S : m <= N - n
    BY <1>1
  <2> QED BY <2>1, <2>2
<1> QED BY <1>2 DEF Max

\* AddFixtures, one fixture.
Added(known, f) == IF Contains(known, f) THEN known ELSE Append(known, f)

IsFold(iter, base, seq, N) ==
  iter = [s \in SUBSET (1 .. N) |->
            IF s = {} THEN base ELSE Added(iter[s \ {Max(s)}], seq[Max(s)])]

\* The function by which FoldLeft adds fixture after fixture exists.
LEMMA FoldExists ==
  ASSUME NEW base, NEW seq, NEW N \in Nat
  PROVE  \E iter : IsFold(iter, base, seq, N)
<1> DEFINE Bad == {n \in Nat : ~\E iter : IsFold(iter, base, seq, n)}
<1>1. ASSUME Bad # {} PROVE FALSE
  <2>1. PICK n \in Bad : \A k \in Bad : n <= k
    <3>1. Bad \subseteq Nat
      OBVIOUS
    <3> HIDE DEF Bad
    <3> QED BY <1>1, <3>1, LeastNumber
  <2>2. CASE n = 0
    <3> DEFINE iter == [s \in SUBSET (1 .. 0) |-> base]
    <3>1. \A s \in SUBSET (1 .. 0) : s = {}
      OBVIOUS
    <3>2. IsFold(iter, base, seq, 0)
      BY <3>1 DEF IsFold
    <3> QED BY <2>2, <3>2
  <2>3. CASE n # 0
    <3>1. n \in Nat /\ n - 1 \in Nat /\ n - 1 \notin Bad
      BY <2>1, <2>3
    <3>2. PICK iter : IsFold(iter, base, seq, n - 1)
      BY <3>1
    <3> DEFINE next == [s \in SUBSET (1 .. n) |->
                          IF n \in s THEN Added(iter[s \ {n}], seq[n]) ELSE iter[s]]
    <3>3. ASSUME NEW s \in SUBSET (1 .. n)
          PROVE  next[s] = IF s = {} THEN base ELSE Added(next[s \ {Max(s)}], seq[Max(s)])
      <4>1. s \subseteq 0 .. n /\ s \in SUBSET (1 .. n) /\ n \notin s => s \in SUBSET (1 .. n - 1)
        BY <3>1
      <4>2. CASE s = {}
        <5>1. iter[s] = base
          BY <4>2, <3>2 DEF IsFold
        <5> QED BY <4>2, <5>1
      <4>3. CASE n \in s
        <5>1. Max(s) = n
          <6>3. s # {} /\ s \subseteq 0 .. n
            BY <4>1, <4>3
          <6>1. Max(s) \in s /\ Max(s) >= n
            BY <3>1, <6>3, <4>3, Greatest
          <6>2. Max(s) \in 1 .. n
            BY <6>1
          <6> QED BY <3>1, <6>1, <6>2
        <5>2. s \ {n} \in SUBSET (1 .. n) /\ n \notin s \ {n} /\ s # {}
          BY <4>3
        <5>3. next[s \ {n}] = iter[s \ {n}] /\ next[s] = Added(iter[s \ {n}], seq[n])
          BY <5>2, <4>3
        <5> QED BY <5>1, <5>2, <5>3
      <4>4. CASE n \notin s /\ s # {}
        <5>1. Max(s) \in s
          <6>1. s # {} /\ s \subseteq 0 .. n
            BY <4>1, <4>4
          <6> QED BY <3>1, <6>1, Greatest
        <5>4. s \in SUBSET (1 .. n - 1)
          BY <4>1, <4>4
        <5>2. iter[s] = Added(iter[s \ {Max(s)}], seq[Max(s)])
          BY <5>1, <5>4, <4>4, <3>2 DEF IsFold
        <5>3. next[s \ {Max(s)}] = iter[s \ {Max(s)}] /\ next[s] = iter[s]
          BY <4>4
        <5> QED BY <5>2, <5>3, <4>4
      <4> QED BY <4>2, <4>3, <4>4
    <3>4. next = [s \in SUBSET (1 .. n) |-> next[s]]
      OBVIOUS
    <3>5. IsFold(next, base, seq, n)
      <4> HIDE DEF next
      <4> QED BY <3>3, <3>4 DEF IsFold
    <3> QED BY <3>5
  <2> QED BY <2>2, <2>3
<1> QED BY <1>1

\* AddFixtures returns what that function gives for all of the fixtures.
LEMMA AddFixturesFolds ==
  ASSUME NEW S, NEW s, NEW fixtures \in Seq(S)
  PROVE  \E iter : IsFold(iter, s.fixtures, fixtures, Len(fixtures))
                   /\ AddFixtures(s, fixtures) = [s EXCEPT !.fixtures = iter[1 .. Len(fixtures)]]
<1> DEFINE N == Len(fixtures)
<1>0. N \in Nat /\ DOMAIN fixtures = 1 .. N
  OBVIOUS
<1> HIDE DEF N
<1>1. PICK iter : iter = CHOOSE f : IsFold(f, s.fixtures, fixtures, N)
  OBVIOUS
<1>2. IsFold(iter, s.fixtures, fixtures, N)
  BY <1>0, <1>1, FoldExists
<1>3. AddFixtures(s, fixtures) = [s EXCEPT !.fixtures = iter[1 .. N]]
  BY <1>0, <1>1 DEF AddFixtures, FoldLeft, MapThenFoldSet, IsFold, Added
<1> QED BY <1>2, <1>3 DEF N

\* Adding one fixture: no fixture twice, and that one is in.
LEMMA AddedFacts ==
  ASSUME NEW S, NEW known \in Seq(S), IsInjective(known), NEW f \in S
  PROVE  /\ Added(known, f) \in Seq(S) /\ IsInjective(Added(known, f))
         /\ ToSet(Added(known, f)) = ToSet(known) \cup {f}
<1>1. CASE Contains(known, f)
  BY <1>1 DEF Contains, ToSet, Added
<1>2. CASE ~Contains(known, f)
  <2> DEFINE n == Len(known)
  <2>1. Added(known, f) = Append(known, f)
    BY <1>2 DEF Added
  <2>2. /\ n \in Nat /\ DOMAIN known = 1 .. n /\ Append(known, f) \in Seq(S)
        /\ DOMAIN Append(known, f) = 1 .. n + 1
        /\ \A i \in 1 .. n : Append(known, f)[i] = known[i]
        /\ Append(known, f)[n + 1] = f
    OBVIOUS
  <2>3. \A i \in 1 .. n : known[i] # f
    BY <1>2 DEF Contains
  <2>4. IsInjective(Append(known, f))
    BY <2>2, <2>3 DEF IsInjective
  <2>5. ToSet(Append(known, f)) = ToSet(known) \cup {f}
    <3>1. \A i \in 1 .. n + 1 : i \in 1 .. n \/ i = n + 1
      BY <2>2
    <3>2. 1 .. n \subseteq 1 .. n + 1 /\ n + 1 \in 1 .. n + 1
      BY <2>2
    <3> HIDE DEF n
    <3> QED BY <2>2, <3>1, <3>2 DEF ToSet
  <2> QED BY <2>1, <2>2, <2>4, <2>5
<1> QED BY <1>1, <1>2

\* What the fold has made of base after n of the fixtures.
Grown(known, S, base, fixtures, n) ==
  /\ known \in Seq(S) /\ IsInjective(known)
  /\ ToSet(known) = ToSet(base) \cup {fixtures[i] : i \in 1 .. n}

\* One more of the fixtures.
LEMMA GrownFacts ==
  ASSUME NEW S, NEW base, NEW fixtures, NEW n \in Nat \ {0}, fixtures[n] \in S,
         NEW known, Grown(known, S, base, fixtures, n - 1)
  PROVE  Grown(Added(known, fixtures[n]), S, base, fixtures, n)
<1>1. known \in Seq(S) /\ IsInjective(known)
  BY DEF Grown
<1> PICK f \in S : f = fixtures[n]
  OBVIOUS
<1>2. /\ Added(known, f) \in Seq(S) /\ IsInjective(Added(known, f))
      /\ ToSet(Added(known, f)) = ToSet(known) \cup {f}
  BY <1>1, AddedFacts
<1>3. {fixtures[i] : i \in 1 .. n} = {fixtures[i] : i \in 1 .. n - 1} \cup {f}
  <2>1. \A i : i \in 1 .. n <=> i \in 1 .. n - 1 \/ i = n
    OBVIOUS
  <2> QED BY <2>1
<1> QED BY <1>2, <1>3 DEF Grown

\* What AddFixtures has made of s.
Enlarged(s, fixtures, known) ==
  /\ AddFixtures(s, fixtures) = [s EXCEPT !.fixtures = known]
  /\ IsInjective(known) /\ ToSet(known) = ToSet(s.fixtures) \cup ToSet(fixtures)

\* AddFixtures keeps what was selected, adds the rest, and adds nothing twice.
LEMMA AddFixturesFacts ==
  ASSUME NEW S, NEW s, s.fixtures \in Seq(S), IsInjective(s.fixtures), NEW fixtures \in Seq(S)
  PROVE  \E known \in Seq(S) : Enlarged(s, fixtures, known)
<1> DEFINE N == Len(fixtures)
<1>1. N \in Nat /\ DOMAIN fixtures = 1 .. N /\ \A i \in 1 .. N : fixtures[i] \in S
  OBVIOUS
<1>2. PICK iter : /\ IsFold(iter, s.fixtures, fixtures, N)
                  /\ AddFixtures(s, fixtures) = [s EXCEPT !.fixtures = iter[1 .. N]]
  BY AddFixturesFolds
<1> HIDE DEF N
<1> DEFINE Bad == {n \in 0 .. N : ~Grown(iter[1 .. n], S, s.fixtures, fixtures, n)}
<1>3. ASSUME Bad # {} PROVE FALSE
  <2>1. PICK n \in Bad : \A k \in Bad : n <= k
    <3>1. Bad \subseteq Nat
      BY <1>1
    <3> HIDE DEF Bad
    <3> QED BY <1>3, <3>1, LeastNumber
  <2>2. n \in 0 .. N /\ ~Grown(iter[1 .. n], S, s.fixtures, fixtures, n)
    OBVIOUS
  <2> HIDE DEF Bad
  <2>3. CASE n = 0
    <3>1. 1 .. n = {}
      BY <2>3
    <3>2. iter[{}] = s.fixtures
      BY <1>2 DEF IsFold
    <3> QED BY <2>2, <3>1, <3>2 DEF Grown
  <2>4. CASE n # 0
    <3>1. n \in 1 .. N /\ n - 1 \in 0 .. N /\ ~(n <= n - 1)
      BY <1>1, <2>2, <2>4
    <3>2. Grown(iter[1 .. n - 1], S, s.fixtures, fixtures, n - 1)
      <4>1. n - 1 \notin Bad
        BY <2>1, <3>1
      <4> QED BY <3>1, <4>1 DEF Bad
    <3>3. Max(1 .. n) = n /\ (1 .. n) \ {n} = 1 .. n - 1 /\ 1 .. n # {} /\ 1 .. n \in SUBSET (1 .. N)
      <4>0. n \in Nat /\ n >= 1
        BY <1>1, <3>1
      <4>1. n \in 1 .. n /\ 1 .. n # {} /\ 1 .. n \subseteq 0 .. n
        <5>1. n \in 1 .. n
          BY <4>0
        <5>2. 1 .. n \subseteq 0 .. n
          BY <4>0
        <5> QED BY <5>1, <5>2
      <4>2. Max(1 .. n) \in 1 .. n /\ Max(1 .. n) >= n
        BY <4>0, <4>1, Greatest
      <4>3. Max(1 .. n) = n
        BY <4>0, <4>2
      <4> QED BY <1>1, <3>1, <4>1, <4>3
    <3>4. iter[1 .. n] = Added(iter[1 .. n - 1], fixtures[n])
      BY <1>2, <3>3 DEF IsFold
    <3>5. fixtures[n] \in S /\ n \in Nat \ {0}
      BY <1>1, <3>1
    <3> QED BY <2>2, <3>2, <3>4, <3>5, GrownFacts
  <2> QED BY <2>3, <2>4
<1>4. Grown(iter[1 .. N], S, s.fixtures, fixtures, N)
  BY <1>1, <1>3
<1>5. ToSet(fixtures) = {fixtures[i] : i \in 1 .. N}
  BY <1>1 DEF ToSet
<1> QED BY <1>2, <1>4, <1>5 DEF Grown, Enlarged

-----------------------------------------------------------------------------
(* Removing and shuffling *)

\* Removing a fixture removes that one and keeps the order of the others.
LEMMA RemoveFirstFacts ==
  ASSUME NEW S, NEW seq \in Seq(S), IsInjective(seq), NEW f
  PROVE  /\ RemoveFirst(seq, f) \in Seq(S) /\ IsInjective(RemoveFirst(seq, f))
         /\ ToSet(RemoveFirst(seq, f)) = ToSet(seq) \ {f}
<1>1. CASE \E i \in 1 .. Len(seq) : seq[i] = f
  <2> PICK k \in 1 .. Len(seq) : seq[k] = f
    BY <1>1
  <2> DEFINE I == {i \in 1 .. Len(seq) : seq[i] = f}
             n == Len(seq)
             rest == RemoveAt(seq, k)
  <2>1. n \in Nat /\ k \in 1 .. n /\ DOMAIN seq = 1 .. n
    OBVIOUS
  <2>2. I = {k}
    BY <2>1 DEF IsInjective
  <2>3. SelectInSeq(seq, LAMBDA v : v = f) = k
    <3>1. SelectInSeq(seq, LAMBDA v : v = f) = Min(I)
      BY <2>2 DEF SelectInSeq
    <3>2. Min({k}) = k
      BY <2>1 DEF Min
    <3> QED BY <2>2, <3>1, <3>2
  <2>4. RemoveFirst(seq, f) = rest
    BY <1>1, <2>3 DEF RemoveFirst
  <2>5. /\ rest \in Seq(S) /\ DOMAIN rest = 1 .. n - 1
        /\ \A i \in 1 .. n - 1 : rest[i] = IF i < k THEN seq[i] ELSE seq[i + 1]
    <3> DEFINE a == SubSeq(seq, 1, k - 1)
               b == SubSeq(seq, k + 1, n)
    <3>1. a \in Seq(S) /\ Len(a) = k - 1 /\ \A i \in 1 .. k - 1 : a[i] = seq[i]
      BY <2>1
    <3>2. b \in Seq(S) /\ Len(b) = n - k /\ \A i \in 1 .. n - k : b[i] = seq[i + k]
      <4>1. k + 1 \in Int /\ n \in Int /\ \A i \in k + 1 .. n : seq[i] \in S
        BY <2>1
      <4>2. /\ b \in Seq(S) /\ Len(b) = IF k + 1 <= n THEN n - (k + 1) + 1 ELSE 0
            /\ \A i \in 1 .. n - (k + 1) + 1 : b[i] = seq[(k + 1) + i - 1]
        <5> HIDE DEF n
        <5> QED BY <4>1, SubSeqProperties
      <4> HIDE DEF b, n
      <4>3. n - (k + 1) + 1 = n - k /\ Len(b) = n - k
        BY <2>1, <4>2
      <4>4. ASSUME NEW i \in 1 .. n - k PROVE b[i] = seq[i + k]
        <5>1. (k + 1) + i - 1 = i + k
          BY <2>1
        <5>2. b[i] = seq[(k + 1) + i - 1]
          BY <4>2, <4>3
        <5> QED BY <5>1, <5>2
      <4> QED BY <4>2, <4>3, <4>4
    <3> HIDE DEF a, b
    <3>3. /\ a \o b \in Seq(S) /\ Len(a \o b) = n - 1
          /\ \A i \in 1 .. n - 1 : (a \o b)[i] = IF i <= k - 1 THEN a[i] ELSE b[i - (k - 1)]
      <4>1. Len(a) + Len(b) = n - 1
        BY <2>1, <3>1, <3>2
      <4>2. /\ a \o b \in Seq(S) /\ Len(a \o b) = Len(a) + Len(b)
            /\ \A i \in 1 .. Len(a) + Len(b) : (a \o b)[i] =
                 IF i <= Len(a) THEN a[i] ELSE b[i - Len(a)]
        BY <3>1, <3>2, ConcatProperties
      <4> QED BY <3>1, <4>1, <4>2
    <3>4. rest = a \o b
      BY DEF RemoveAt, a, b
    <3>5. ASSUME NEW i \in 1 .. n - 1
          PROVE  rest[i] = IF i < k THEN seq[i] ELSE seq[i + 1]
      <4>1. CASE i < k
        BY <2>1, <3>1, <3>3, <3>4, <4>1
      <4>2. CASE ~(i < k)
        <5>1. i - (k - 1) \in 1 .. n - k /\ (i - (k - 1)) + k = i + 1 /\ ~(i <= k - 1)
          BY <2>1, <4>2
        <5> QED BY <2>1, <3>2, <3>3, <3>4, <4>2, <5>1
      <4> QED BY <4>1, <4>2
    <3> QED BY <3>3, <3>4, <3>5
  <2> HIDE DEF rest, n, I
  <2>6. IsInjective(rest)
    <3> SUFFICES ASSUME NEW i \in 1 .. n - 1, NEW j \in 1 .. n - 1, rest[i] = rest[j]
                 PROVE  i = j
      BY <2>5 DEF IsInjective
    <3> DEFINE at(x) == IF x < k THEN x ELSE x + 1
    <3>1. at(i) \in 1 .. n /\ at(j) \in 1 .. n /\ (at(i) = at(j) => i = j)
      BY <2>1
    <3>2. seq[at(i)] = seq[at(j)]
      BY <2>5
    <3> QED BY <2>1, <3>1, <3>2 DEF IsInjective
  <2>7. ASSUME NEW x
        PROVE  x \in ToSet(rest) <=> x \in ToSet(seq) /\ x # f
    <3>1. ASSUME x \in ToSet(rest) PROVE x \in ToSet(seq) /\ x # f
      <4> PICK i \in 1 .. n - 1 : x = rest[i]
        BY <2>5, <3>1 DEF ToSet
      <4> DEFINE j == IF i < k THEN i ELSE i + 1
      <4>1. j \in 1 .. n /\ j # k
        BY <2>1
      <4>2. x = seq[j]
        BY <2>5
      <4> QED BY <2>1, <4>1, <4>2 DEF ToSet, IsInjective
    <3>2. ASSUME x \in ToSet(seq), x # f PROVE x \in ToSet(rest)
      <4> PICK j \in 1 .. n : x = seq[j]
        BY <2>1, <3>2 DEF ToSet
      <4> DEFINE i == IF j < k THEN j ELSE j - 1
      <4>1. j # k
        BY <3>2
      <4>2. i \in 1 .. n - 1 /\ j = IF i < k THEN i ELSE i + 1
        BY <2>1, <4>1
      <4>3. rest[i] = x
        BY <2>5, <4>2
      <4> QED BY <2>5, <4>2, <4>3 DEF ToSet
    <3> QED BY <3>1, <3>2
  <2> QED BY <2>4, <2>5, <2>6, <2>7
<1>2. CASE ~\E i \in 1 .. Len(seq) : seq[i] = f
  BY <1>2 DEF RemoveFirst, ToSet
<1> QED BY <1>1, <1>2

\* Unselecting one fixture is removing it.
LEMMA UnselectOne ==
  ASSUME NEW selection, NEW f
  PROVE  FoldLeft(RemoveFixture, selection, <<f>>) = RemoveFixture(selection, f)
<1> DEFINE IsIt(iter) ==
      iter = [s \in SUBSET DOMAIN <<f>> |->
                IF s = {} THEN selection ELSE RemoveFixture(iter[s \ {Max(s)}], <<f>>[Max(s)])]
<1>1. DOMAIN <<f>> = {1} /\ <<f>>[1] = f
  OBVIOUS
<1>2. Max({1}) = 1 /\ {1} \ {1} = {} /\ {1} # {}
  BY DEF Max
<1>3. \A s \in SUBSET {1} : s = {} \/ s = {1}
  OBVIOUS
<1>4. \E iter : IsIt(iter)
  <2> DEFINE iter == [s \in SUBSET {1} |-> IF s = {} THEN selection ELSE RemoveFixture(selection, f)]
  <2>1. \A s \in SUBSET {1} :
          iter[s] = IF s = {} THEN selection ELSE RemoveFixture(iter[s \ {Max(s)}], <<f>>[Max(s)])
    <3>1. {} \in SUBSET {1} /\ {1} \in SUBSET {1}
      OBVIOUS
    <3>2. iter[{}] = selection
      BY <3>1
    <3>3. iter[{1}] = RemoveFixture(selection, f)
      BY <1>2, <3>1
    <3> HIDE DEF iter
    <3>4. iter[{1}] = RemoveFixture(iter[{1} \ {Max({1})}], <<f>>[Max({1})])
      BY <1>1, <1>2, <3>2, <3>3
    <3> QED BY <1>2, <1>3, <3>2, <3>4
  <2>2. IsIt(iter)
    BY <1>1, <2>1
  <2> HIDE DEF iter, IsIt
  <2> QED BY <2>2
<1>5. PICK iter : iter = CHOOSE g : IsIt(g)
  OBVIOUS
<1>6. IsIt(iter)
  <2> HIDE DEF IsIt
  <2> QED BY <1>4, <1>5
<1>7. iter[{1}] = RemoveFixture(selection, f)
  <2>1. {} \in SUBSET DOMAIN <<f>> /\ {1} \in SUBSET DOMAIN <<f>>
    BY <1>1
  <2>2. iter[{}] = selection
    BY <1>6, <2>1
  <2>3. iter[{1}] = RemoveFixture(iter[{1} \ {Max({1})}], <<f>>[Max({1})])
    BY <1>2, <1>6, <2>1
  <2> HIDE DEF IsIt
  <2> QED BY <1>1, <1>2, <2>2, <2>3
<1>8. FoldLeft(RemoveFixture, selection, <<f>>) = iter[DOMAIN <<f>>]
  BY <1>5 DEF FoldLeft, MapThenFoldSet
<1> QED BY <1>1, <1>7, <1>8

\* A sequence has finitely many members.
LEMMA SequencesAreFinite ==
  ASSUME NEW S, NEW seq \in Seq(S)
  PROVE  IsFiniteSet(ToSet(seq))
<1>1. Len(seq) \in Nat /\ seq \in [1 .. Len(seq) -> ToSet(seq)]
  BY DEF ToSet
<1>2. seq \in Surjection(1 .. Len(seq), ToSet(seq))
  BY <1>1 DEF Surjection, ToSet
<1> QED BY <1>1, <1>2, FS_NatSurjection DEF ExistsSurjection

\* A shuffled sequence has the same members, each once.
LEMMA ShuffledFacts ==
  ASSUME NEW S, NEW seq \in Seq(S), NEW order \in SetToSeqs(ToSet(seq))
  PROVE  order \in Seq(S) /\ IsInjective(order) /\ ToSet(order) = ToSet(seq)
<1> DEFINE n == Cardinality(ToSet(seq))
           Q == ToSet(seq)
<1>1. IsFiniteSet(Q) /\ n \in Nat
  BY SequencesAreFinite, FS_CardinalityType
<1>2. order \in [1 .. n -> Q] /\ \A i, j \in 1 .. n : i # j => order[i] # order[j]
  BY DEF SetToSeqs
<1>3. Q \subseteq S
  BY DEF ToSet
<1> HIDE DEF n, Q
<1>4. order \in Injection(1 .. n, Q)
  BY <1>2 DEF Injection, IsInjective
<1>5. Cardinality(1 .. n) = n /\ n = Cardinality(Q)
  BY <1>1, FS_Interval DEF n, Q
<1>6. order \in Surjection(1 .. n, Q)
  BY <1>1, <1>4, <1>5, FS_Injection
<1>7. ToSet(order) = Q
  BY <1>2, <1>6 DEF ToSet, Surjection
<1>8. order \in Seq(S)
  BY <1>1, <1>2, <1>3
<1>9. IsInjective(order)
  BY <1>4 DEF Injection
<1> QED BY <1>7, <1>8, <1>9 DEF Q

-----------------------------------------------------------------------------
(* Groups of fixtures *)

\* No fixture is twice in a group or in two of them.
Apart(groups) ==
  /\ \A i \in DOMAIN groups : IsInjective(groups[i])
  /\ \A i, j \in DOMAIN groups : i # j => ToSet(groups[i]) \cap ToSet(groups[j]) = {}

InSome(groups, indices, f) == \E i \in indices : f \in ToSet(groups[i])

\* Every member of S is in one of the groups, once.
Deals(groups, S) ==
  /\ groups \in Seq(Seq(S)) /\ Apart(groups)
  /\ \A f \in S : InSome(groups, DOMAIN groups, f)

\* Two sequences without a common member, one after the other.
LEMMA ConcatFacts ==
  ASSUME NEW S, NEW s \in Seq(S), NEW t \in Seq(S), IsInjective(s), IsInjective(t),
         ToSet(s) \cap ToSet(t) = {}
  PROVE  /\ s \o t \in Seq(S) /\ IsInjective(s \o t)
         /\ \A f : f \in ToSet(s \o t) <=> f \in ToSet(s) \/ f \in ToSet(t)
<1> DEFINE m == Len(s)
           n == Len(t)
           u == s \o t
<1>1. m \in Nat /\ n \in Nat /\ DOMAIN s = 1 .. m /\ DOMAIN t = 1 .. n
  OBVIOUS
<1>2. /\ u \in Seq(S) /\ Len(u) = m + n
      /\ \A i \in 1 .. m + n : u[i] = IF i <= m THEN s[i] ELSE t[i - m]
  BY ConcatProperties
<1>3. DOMAIN u = 1 .. m + n
  BY <1>2
<1> HIDE DEF m, n, u
<1>4. \A i \in 1 .. m : i \in 1 .. m + n /\ u[i] = s[i]
  BY <1>1, <1>2
<1>5. \A i \in 1 .. n : i + m \in 1 .. m + n /\ u[i + m] = t[i]
  BY <1>1, <1>2
<1>6. \A i \in 1 .. m + n : i \in 1 .. m \/ \E j \in 1 .. n : i = j + m
  <2> TAKE i \in 1 .. m + n
  <2>1. i \in 1 .. m \/ (i - m \in 1 .. n /\ i = (i - m) + m)
    BY <1>1
  <2> QED BY <2>1
<1>7. \A i \in 1 .. m : s[i] \in ToSet(s)
  BY <1>1 DEF ToSet
<1>8. \A i \in 1 .. n : t[i] \in ToSet(t)
  BY <1>1 DEF ToSet
<1>9. ASSUME NEW i \in 1 .. m + n, NEW j \in 1 .. m + n, u[i] = u[j] PROVE i = j
  <2>1. CASE i \in 1 .. m /\ j \in 1 .. m
    BY <1>1, <1>4, <1>9, <2>1 DEF IsInjective
  <2>2. ASSUME NEW k \in 1 .. n, i = k + m, NEW l \in 1 .. n, j = l + m PROVE i = j
    BY <1>1, <1>5, <1>9, <2>2 DEF IsInjective
  <2>3. ASSUME i \in 1 .. m, NEW l \in 1 .. n, j = l + m PROVE FALSE
    BY <1>4, <1>5, <1>7, <1>8, <1>9, <2>3
  <2>4. ASSUME j \in 1 .. m, NEW l \in 1 .. n, i = l + m PROVE FALSE
    BY <1>4, <1>5, <1>7, <1>8, <1>9, <2>4
  <2> QED BY <1>6, <2>1, <2>2, <2>3, <2>4
<1>10. IsInjective(u)
  BY <1>3, <1>9 DEF IsInjective
<1>11. ASSUME NEW f PROVE f \in ToSet(u) <=> f \in ToSet(s) \/ f \in ToSet(t)
  <2>1. ASSUME f \in ToSet(u) PROVE f \in ToSet(s) \/ f \in ToSet(t)
    <3> PICK i \in 1 .. m + n : f = u[i]
      BY <1>3, <2>1 DEF ToSet
    <3> QED BY <1>4, <1>5, <1>6, <1>7, <1>8
  <2>2. ASSUME f \in ToSet(s) PROVE f \in ToSet(u)
    <3> PICK i \in 1 .. m : f = s[i]
      BY <1>1, <2>2 DEF ToSet
    <3> QED BY <1>3, <1>4 DEF ToSet
  <2>3. ASSUME f \in ToSet(t) PROVE f \in ToSet(u)
    <3> PICK i \in 1 .. n : f = t[i]
      BY <1>1, <2>3 DEF ToSet
    <3> QED BY <1>3, <1>5 DEF ToSet
  <2> QED BY <2>1, <2>2, <2>3
<1> QED BY <1>2, <1>10, <1>11 DEF u

IsFlatten(flat, seqs, N) ==
  flat = [i \in 1 .. N |-> IF i = 1 THEN seqs[i] ELSE flat[i - 1] \o seqs[i]]

\* The function by which FlattenSeq joins group after group exists.
LEMMA FlattenExists ==
  ASSUME NEW seqs, NEW N \in Nat
  PROVE  \E flat : IsFlatten(flat, seqs, N)
<1> DEFINE Bad == {n \in Nat : ~\E flat : IsFlatten(flat, seqs, n)}
<1>1. ASSUME Bad # {} PROVE FALSE
  <2>1. PICK n \in Bad : \A k \in Bad : n <= k
    <3>1. Bad \subseteq Nat
      OBVIOUS
    <3> HIDE DEF Bad
    <3> QED BY <1>1, <3>1, LeastNumber
  <2>2. CASE n = 0
    <3>1. 1 .. 0 = {}
      OBVIOUS
    <3>2. IsFlatten([i \in 1 .. 0 |-> {}], seqs, 0)
      BY <3>1 DEF IsFlatten
    <3> QED BY <2>2, <3>2
  <2>3. CASE n # 0
    <3>1. n \in Nat /\ n - 1 \in Nat /\ n - 1 \notin Bad
      BY <2>1, <2>3
    <3>2. PICK flat : IsFlatten(flat, seqs, n - 1)
      BY <3>1
    <3> DEFINE next == [i \in 1 .. n |->
                          IF i < n THEN flat[i]
                          ELSE IF i = 1 THEN seqs[i] ELSE flat[i - 1] \o seqs[i]]
    <3> HIDE DEF Bad
    <3>3. ASSUME NEW i \in 1 .. n
          PROVE  next[i] = IF i = 1 THEN seqs[i] ELSE next[i - 1] \o seqs[i]
      <4>1. n \in Nat /\ n >= 1 /\ i \in Nat /\ i >= 1 /\ i <= n
        BY <2>3, <3>1
      <4>2. CASE i < n
        <5>1. i \in 1 .. n - 1
          BY <4>1, <4>2
        <5>2. flat[i] = IF i = 1 THEN seqs[i] ELSE flat[i - 1] \o seqs[i]
          BY <3>2, <5>1 DEF IsFlatten
        <5>3. next[i] = flat[i]
          BY <4>2
        <5>4. i # 1 => i - 1 \in 1 .. n /\ i - 1 < n
          BY <4>1
        <5>5. i # 1 => next[i - 1] = flat[i - 1]
          BY <5>4
        <5> QED BY <5>2, <5>3, <5>5
      <4>3. CASE i = n
        <5>1. next[i] = IF i = 1 THEN seqs[i] ELSE flat[i - 1] \o seqs[i]
          BY <4>1, <4>3
        <5>2. i # 1 => i - 1 \in 1 .. n /\ i - 1 < n
          BY <4>1
        <5>3. i # 1 => next[i - 1] = flat[i - 1]
          BY <5>2
        <5> QED BY <5>1, <5>3
      <4> QED BY <4>1, <4>2, <4>3
    <3>4. next = [i \in 1 .. n |-> next[i]]
      OBVIOUS
    <3>5. IsFlatten(next, seqs, n)
      <4> HIDE DEF next
      <4> QED BY <3>3, <3>4 DEF IsFlatten
    <3> QED BY <2>1, <3>5 DEF Bad
  <2> QED BY <2>2, <2>3
<1> QED BY <1>1

\* FlattenSeq returns what that function gives for all of the groups.
LEMMA FlattenUnfolds ==
  ASSUME NEW S, NEW seqs \in Seq(S), seqs # <<>>
  PROVE  \E flat : IsFlatten(flat, seqs, Len(seqs)) /\ FlattenSeq(seqs) = flat[Len(seqs)]
<1> DEFINE N == Len(seqs)
<1>0. N \in Nat /\ N # 0
  OBVIOUS
<1> HIDE DEF N
<1>1. PICK flat : flat = CHOOSE f : IsFlatten(f, seqs, N)
  OBVIOUS
<1>2. IsFlatten(flat, seqs, N)
  BY <1>0, <1>1, FlattenExists
<1>3. FlattenSeq(seqs) = flat[N]
  BY <1>0, <1>1 DEF FlattenSeq, IsFlatten, N
<1> QED BY <1>2, <1>3 DEF N

\* What the flattening has after n groups.
Joined(seq, S, groups, n) ==
  /\ seq \in Seq(S) /\ IsInjective(seq)
  /\ \A f : f \in ToSet(seq) <=> InSome(groups, 1 .. n, f)

\* One more of the groups.
LEMMA JoinedFacts ==
  ASSUME NEW S, NEW groups \in Seq(Seq(S)), Apart(groups),
         NEW n \in 2 .. Len(groups), NEW seq, Joined(seq, S, groups, n - 1)
  PROVE  Joined(seq \o groups[n], S, groups, n)
<1> DEFINE N == Len(groups)
<1>1. N \in Nat /\ DOMAIN groups = 1 .. N /\ n \in 1 .. N /\ groups[n] \in Seq(S)
  OBVIOUS
<1> HIDE DEF N
<1>2. 1 .. n - 1 \subseteq 1 .. N /\ n \notin 1 .. n - 1 /\ \A i : i \in 1 .. n <=> i \in 1 .. n - 1 \/ i = n
  BY <1>1
<1> PICK group : group = groups[n]
  OBVIOUS
<1>3. group \in Seq(S) /\ IsInjective(group) /\ seq \in Seq(S) /\ IsInjective(seq)
  BY <1>1 DEF Apart, Joined
<1>4. ToSet(seq) \cap ToSet(group) = {}
  <2> SUFFICES ASSUME NEW f \in ToSet(seq), f \in ToSet(group) PROVE FALSE
    OBVIOUS
  <2>1. PICK i \in 1 .. n - 1 : f \in ToSet(groups[i])
    BY DEF Joined, InSome
  <2>2. i # n /\ i \in 1 .. N
    BY <1>2
  <2> QED BY <1>1, <2>1, <2>2 DEF Apart
<1>5. /\ seq \o group \in Seq(S) /\ IsInjective(seq \o group)
      /\ \A f : f \in ToSet(seq \o group) <=> f \in ToSet(seq) \/ f \in ToSet(group)
  BY <1>3, <1>4, ConcatFacts
<1>6. \A f : InSome(groups, 1 .. n, f) <=> InSome(groups, 1 .. n - 1, f) \/ f \in ToSet(group)
  BY <1>2 DEF InSome
<1>7. \A f : f \in ToSet(seq) <=> InSome(groups, 1 .. n - 1, f)
  BY DEF Joined
<1> QED BY <1>5, <1>6, <1>7 DEF Joined

\* Groups without a common member, joined: each member is there once.
LEMMA FlattenFacts ==
  ASSUME NEW S, NEW groups \in Seq(Seq(S)), Apart(groups)
  PROVE  /\ FlattenSeq(groups) \in Seq(S) /\ IsInjective(FlattenSeq(groups))
         /\ \A f : f \in ToSet(FlattenSeq(groups)) <=> InSome(groups, DOMAIN groups, f)
<1>1. CASE groups = <<>>
  <2>1. FlattenSeq(groups) = <<>> /\ DOMAIN groups = {}
    BY <1>1 DEF FlattenSeq
  <2> QED BY <2>1 DEF ToSet, InSome, IsInjective
<1>2. CASE groups # <<>>
  <2> DEFINE N == Len(groups)
  <2>1. N \in Nat /\ N >= 1 /\ DOMAIN groups = 1 .. N
    BY <1>2
  <2>2. PICK flat : IsFlatten(flat, groups, N) /\ FlattenSeq(groups) = flat[N]
    BY <1>2, FlattenUnfolds
  <2> DEFINE Bad == {n \in 1 .. N : ~Joined(flat[n], S, groups, n)}
  <2>3. ASSUME Bad # {} PROVE FALSE
    <3> HIDE DEF N
    <3>1. PICK n \in Bad : \A k \in Bad : n <= k
      <4>1. Bad \subseteq Nat
        BY <2>1
      <4> HIDE DEF Bad
      <4> QED BY <2>3, <4>1, LeastNumber
    <3>2. n \in 1 .. N /\ ~Joined(flat[n], S, groups, n)
      OBVIOUS
    <3> HIDE DEF Bad
    <3>3. CASE n = 1
      <4>1. flat[1] = groups[1]
        BY <2>2, <3>2, <3>3 DEF IsFlatten
      <4>2. groups[1] \in Seq(S) /\ IsInjective(groups[1])
        BY <2>1, <3>2, <3>3 DEF Apart
      <4>3. \A f : InSome(groups, 1 .. 1, f) <=> f \in ToSet(groups[1])
        BY DEF InSome
      <4> QED BY <3>2, <3>3, <4>1, <4>2, <4>3 DEF Joined
    <3>4. CASE n # 1
      <4>1. n \in 2 .. N /\ n - 1 \in 1 .. N /\ ~(n <= n - 1)
        BY <2>1, <3>2, <3>4
      <4>2. n - 1 \notin Bad
        BY <3>1, <4>1
      <4>3. Joined(flat[n - 1], S, groups, n - 1)
        BY <4>1, <4>2 DEF Bad
      <4>4. flat[n] = flat[n - 1] \o groups[n]
        BY <2>2, <3>2, <3>4 DEF IsFlatten
      <4> QED BY <3>2, <4>1, <4>3, <4>4, JoinedFacts DEF N
    <3> QED BY <3>3, <3>4
  <2>4. Joined(flat[N], S, groups, N)
    <3>1. N \in 1 .. N
      BY <2>1
    <3> HIDE DEF N
    <3> QED BY <2>3, <3>1
  <2> QED BY <2>1, <2>2, <2>4 DEF Joined
<1> QED BY <1>1, <1>2

-----------------------------------------------------------------------------
(* Rearranging groups *)

\* Every row is made of groups, or empty places, and every group is at one
\* place of one row: from says which it is.
Rearranges(rows, from, groups, count) ==
  /\ \A j \in 1 .. count : \A n \in DOMAIN rows[j] :
       \/ from[j][n] = 0 /\ rows[j][n] = <<>>
       \/ from[j][n] \in DOMAIN groups /\ rows[j][n] = groups[from[j][n]]
  /\ \A j, k \in 1 .. count : \A m \in DOMAIN rows[j], n \in DOMAIN rows[k] :
       from[j][m] # 0 /\ from[j][m] = from[k][n] => j = k /\ m = n
  /\ \A i \in DOMAIN groups : \E j \in 1 .. count : \E n \in DOMAIN rows[j] : from[j][n] = i

\* Groups that are laid in rows, each at one place, still deal the members
\* when every row is joined: what blocks, deals and wings have in common.
LEMMA RearrangingDeals ==
  ASSUME NEW S, NEW groups, Deals(groups, S), NEW count \in Nat,
         NEW rows \in [1 .. count -> Seq(Seq(S))], NEW from, Rearranges(rows, from, groups, count),
         NEW result, result = [j \in 1 .. count |-> FlattenSeq(rows[j])]
  PROVE  Deals(result, S)
<1>1. /\ groups \in Seq(Seq(S)) /\ Apart(groups) /\ 0 \notin DOMAIN groups
      /\ \A f \in S : InSome(groups, DOMAIN groups, f)
  BY DEF Deals
\* Where a fixture of a row comes from.
<1>2. \A j \in 1 .. count : \A n \in DOMAIN rows[j] : \A f \in ToSet(rows[j][n]) :
        from[j][n] \in DOMAIN groups /\ f \in ToSet(groups[from[j][n]])
  BY DEF Rearranges, ToSet
\* It is in one place only.
<1>3. ASSUME NEW j \in 1 .. count, NEW k \in 1 .. count, NEW m \in DOMAIN rows[j],
             NEW n \in DOMAIN rows[k], NEW f \in ToSet(rows[j][m]), f \in ToSet(rows[k][n])
      PROVE  j = k /\ m = n
  <2>1. /\ from[j][m] \in DOMAIN groups /\ f \in ToSet(groups[from[j][m]])
        /\ from[k][n] \in DOMAIN groups /\ f \in ToSet(groups[from[k][n]])
    BY <1>2, <1>3
  <2>2. from[j][m] = from[k][n] /\ from[j][m] # 0
    BY <1>1, <2>1 DEF Apart
  <2> QED BY <2>2 DEF Rearranges
<1>4. ASSUME NEW j \in 1 .. count
      PROVE  /\ rows[j] \in Seq(Seq(S)) /\ Apart(rows[j])
  <2>1. \A n \in DOMAIN rows[j] : IsInjective(rows[j][n])
    <3> TAKE n \in DOMAIN rows[j]
    <3>1. CASE rows[j][n] = <<>>
      BY <3>1 DEF IsInjective
    <3>2. CASE from[j][n] \in DOMAIN groups /\ rows[j][n] = groups[from[j][n]]
      BY <1>1, <3>2 DEF Apart
    <3> QED BY <3>1, <3>2 DEF Rearranges
  <2>2. ASSUME NEW m \in DOMAIN rows[j], NEW n \in DOMAIN rows[j], m # n
        PROVE  ToSet(rows[j][m]) \cap ToSet(rows[j][n]) = {}
    BY <1>3, <2>2
  <2> QED BY <2>1, <2>2 DEF Apart
<1>5. ASSUME NEW j \in 1 .. count
      PROVE  /\ result[j] \in Seq(S) /\ IsInjective(result[j])
             /\ \A f : f \in ToSet(result[j]) <=> InSome(rows[j], DOMAIN rows[j], f)
  <2> PICK row : row = rows[j]
    OBVIOUS
  <2>1. row \in Seq(Seq(S)) /\ Apart(row) /\ result[j] = FlattenSeq(row)
    BY <1>4
  <2> QED BY <2>1, FlattenFacts
<1>6. result \in Seq(Seq(S)) /\ DOMAIN result = 1 .. count
  <2>1. result \in [1 .. count -> Seq(S)]
    BY <1>5
  <2> QED BY <2>1
<1>7. Apart(result)
  <2>1. ASSUME NEW j \in 1 .. count, NEW k \in 1 .. count, j # k,
               NEW f \in ToSet(result[j]), f \in ToSet(result[k])
        PROVE  FALSE
    <3>1. InSome(rows[j], DOMAIN rows[j], f) /\ InSome(rows[k], DOMAIN rows[k], f)
      BY <1>5, <2>1
    <3> QED BY <1>3, <2>1, <3>1 DEF InSome
  <2> QED BY <1>5, <1>6, <2>1 DEF Apart
<1>8. ASSUME NEW f \in S PROVE InSome(result, DOMAIN result, f)
  <2>1. PICK i \in DOMAIN groups : f \in ToSet(groups[i])
    BY <1>1 DEF InSome
  <2>2. PICK j \in 1 .. count : \E n \in DOMAIN rows[j] : from[j][n] = i
    BY DEF Rearranges
  <2>3. PICK n \in DOMAIN rows[j] : from[j][n] = i
    BY <2>2
  <2>4. from[j][n] = 0 \/ rows[j][n] = groups[from[j][n]]
    BY DEF Rearranges
  <2>5. i # 0
    BY <1>1
  <2>6. f \in ToSet(rows[j][n])
    BY <2>1, <2>3, <2>4, <2>5
  <2>7. f \in ToSet(result[j])
    BY <1>5, <2>6 DEF InSome
  <2> QED BY <1>6, <2>7 DEF InSome
<1> QED BY <1>6, <1>7, <1>8 DEF Deals

\* Rounded-up division counts enough chunks, none of which is empty.
LEMMA DivCeilFacts ==
  ASSUME NEW a \in Nat, NEW b \in Nat \ {0}
  PROVE  /\ DivCeil(a, b) \in Nat /\ a <= DivCeil(a, b) * b
         /\ \A n \in 1 .. DivCeil(a, b) : (n - 1) * b \in Nat /\ n * b = (n - 1) * b + b /\ (n - 1) * b < a
         /\ a # 0 => DivCeil(a, b) # 0
<1> DEFINE x == a + b - 1
           q == x \div b
<1>1. x \in Nat
  OBVIOUS
<1>2. q \in Nat /\ q * b <= x /\ x < q * b + b /\ q * b \in Nat
  <2> HIDE DEF x
  <2> QED BY <1>1
<1>3. DivCeil(a, b) = q
  BY DEF DivCeil
<1> HIDE DEF q
<1>4. a <= q * b
  BY <1>2
<1>5. ASSUME NEW n \in 1 .. q PROVE (n - 1) * b \in Nat /\ n * b = (n - 1) * b + b /\ (n - 1) * b < a
  <2> PICK m \in Nat : m = n - 1
    BY <1>2
  <2> PICK d \in Nat : q = m + 1 + d
    <3>1. q - m - 1 \in Nat /\ q = m + 1 + (q - m - 1)
      BY <1>2
    <3> QED BY <3>1
  <2>1. m * b \in Nat /\ n * b = m * b + b /\ d * b \in Nat /\ q * b = m * b + b + d * b
    BY <1>2
  <2> QED BY <1>2, <2>1
<1>6. a # 0 => q # 0
  BY <1>4
<1> QED BY <1>2, <1>3, <1>4, <1>5, <1>6

\* The k-th of a things lies at one place of one chunk.
LEMMA PlaceExists ==
  ASSUME NEW a \in Nat, NEW b \in Nat \ {0}, NEW k \in 1 .. a
  PROVE  \E n \in 1 .. DivCeil(a, b) : \E i \in 1 .. b : k = (n - 1) * b + i
<1> PICK x \in Nat : k = x + 1
  <2>1. k - 1 \in Nat /\ k = (k - 1) + 1
    OBVIOUS
  <2> QED BY <2>1
<1> DEFINE n == x \div b + 1
           i == (x % b) + 1
<1>1. x \div b \in Nat /\ x % b \in 0 .. b - 1 /\ x = (x \div b) * b + (x % b)
  OBVIOUS
<1>2. i \in 1 .. b /\ n \in Nat /\ n >= 1 /\ n - 1 = x \div b
  BY <1>1
<1>3. k = (n - 1) * b + i
  BY <1>1, <1>2
<1>4. n <= DivCeil(a, b)
  <2> PICK q \in Nat : q = DivCeil(a, b) /\ a <= q * b
    BY DivCeilFacts
  <2> PICK m \in Nat : m = x \div b
    BY <1>1
  <2> PICK r \in Nat : r = x % b
    BY <1>1
  <2>3. x = m * b + r /\ m * b \in Nat
    BY <1>1
  <2>4. m * b <= x
    BY <2>3
  <2>1. m * b < q * b
    BY <2>4
  <2>2. m < q
    <3>1. ASSUME m >= q PROVE FALSE
      <4> PICK d \in Nat : m = q + d
        <5>1. m - q \in Nat /\ m = q + (m - q)
          BY <3>1
        <5> QED BY <5>1
      <4>1. m * b = q * b + d * b /\ d * b \in Nat /\ q * b \in Nat
        OBVIOUS
      <4> QED BY <2>1, <4>1
    <3> QED BY <3>1
  <2> QED BY <1>2, <2>2
<1>5. n \in 1 .. DivCeil(a, b)
  BY <1>2, <1>4, DivCeilFacts
<1> HIDE DEF n, i
<1> QED BY <1>2, <1>3, <1>5

\* And at no other.
LEMMA PlaceIsOne ==
  ASSUME NEW b \in Nat \ {0}, NEW m \in Nat \ {0}, NEW n \in Nat \ {0}, NEW i \in 1 .. b, NEW j \in 1 .. b,
         (m - 1) * b + i = (n - 1) * b + j
  PROVE  m = n /\ i = j
<1> PICK x \in Nat, y \in Nat : x = m - 1 /\ y = n - 1
  OBVIOUS
<1>1. x * b + i = y * b + j /\ x * b \in Nat /\ y * b \in Nat
  OBVIOUS
<1>2. ASSUME x < y PROVE FALSE
  <2> PICK d \in Nat : y = x + 1 + d
    <3>1. y - x - 1 \in Nat /\ y = x + 1 + (y - x - 1)
      BY <1>2
    <3> QED BY <3>1
  <2>1. y * b = x * b + b + d * b /\ d * b \in Nat
    OBVIOUS
  <2> QED BY <1>1, <2>1
<1>3. ASSUME y < x PROVE FALSE
  <2> PICK d \in Nat : x = y + 1 + d
    <3>1. x - y - 1 \in Nat /\ x = y + 1 + (x - y - 1)
      BY <1>3
    <3> QED BY <3>1
  <2>1. x * b = y * b + b + d * b /\ d * b \in Nat
    OBVIOUS
  <2> QED BY <1>1, <2>1
<1>4. x = y
  BY <1>2, <1>3
<1> QED BY <1>1, <1>4

\* q chunks of seq: the i-th of the n-th is at (n - 1) * size + i.
AreChunks(chunks, q, X, seq, size) ==
  /\ q \in Nat /\ chunks \in Seq(Seq(X)) /\ DOMAIN chunks = 1 .. q /\ Len(chunks) = q
  /\ \A n \in 1 .. q :
       /\ Len(chunks[n]) \in 1 .. size /\ DOMAIN chunks[n] = 1 .. Len(chunks[n])
       /\ \A i \in 1 .. Len(chunks[n]) :
            (n - 1) * size + i \in 1 .. Len(seq) /\ chunks[n][i] = seq[(n - 1) * size + i]
       /\ \A i \in 1 .. size :
            (n - 1) * size + i \in 1 .. Len(seq) => i \in 1 .. Len(chunks[n])

\* Chunks hold the sequence: each place of it is a place of one chunk.
LEMMA ChunksFacts ==
  ASSUME NEW X, NEW seq \in Seq(X), NEW size \in Nat \ {0}
  PROVE  AreChunks(Chunks(seq, size), DivCeil(Len(seq), size), X, seq, size)
<1> DEFINE L == Len(seq)
           q == DivCeil(L, size)
           chunks == Chunks(seq, size)
<1>1. L \in Nat /\ DOMAIN seq = 1 .. L /\ \A k \in 1 .. L : seq[k] \in X
  OBVIOUS
<1> HIDE DEF L
<1>2. q \in Nat /\ \A n \in 1 .. q : (n - 1) * size \in Nat /\ n * size = (n - 1) * size + size /\ (n - 1) * size < L
  BY <1>1, DivCeilFacts
<1> HIDE DEF q
<1>3. chunks = [n \in 1 .. q |-> SubSeq(seq, (n - 1) * size + 1, Least(n * size, L))]
  BY DEF Chunks, q, L
<1> HIDE DEF chunks
<1>4. ASSUME NEW n \in 1 .. q
      PROVE  /\ chunks[n] \in Seq(X)
             /\ Len(chunks[n]) \in 1 .. size /\ DOMAIN chunks[n] = 1 .. Len(chunks[n])
             /\ \A i \in 1 .. Len(chunks[n]) :
                  (n - 1) * size + i \in 1 .. L /\ chunks[n][i] = seq[(n - 1) * size + i]
             /\ \A i \in 1 .. size : (n - 1) * size + i \in 1 .. L => i \in 1 .. Len(chunks[n])
  <2> PICK start \in Nat : start = (n - 1) * size /\ n * size = start + size /\ start < L
    BY <1>2
  <2> PICK end : end = Least(n * size, L)
    OBVIOUS
  <2>1. end \in Nat /\ end <= L /\ end > start /\ end <= start + size /\ (end = L \/ end = start + size)
    BY <1>1 DEF Least
  <2>2. chunks[n] = SubSeq(seq, start + 1, end)
    BY <1>3
  <2> PICK chunk : chunk = chunks[n]
    OBVIOUS
  <2>3. start + 1 \in Int /\ end \in Int /\ \A i \in start + 1 .. end : seq[i] \in X
    BY <1>1, <2>1
  <2>4. /\ chunk \in Seq(X) /\ Len(chunk) = IF start + 1 <= end THEN end - (start + 1) + 1 ELSE 0
        /\ \A i \in 1 .. end - (start + 1) + 1 : chunk[i] = seq[(start + 1) + i - 1]
    BY <2>2, <2>3, SubSeqProperties
  <2>5. Len(chunk) = end - start /\ end - (start + 1) + 1 = end - start
    BY <2>1, <2>4
  <2>6. Len(chunk) \in 1 .. size
    BY <2>1, <2>5
  <2>7. ASSUME NEW i \in 1 .. Len(chunk)
        PROVE  start + i \in 1 .. L /\ chunk[i] = seq[start + i]
    <3>1. i \in 1 .. end - start /\ (start + 1) + i - 1 = start + i
      BY <2>1, <2>5
    <3>2. chunk[i] = seq[(start + 1) + i - 1]
      BY <2>4, <2>5, <3>1
    <3>3. start + i \in 1 .. L
      BY <1>1, <2>1, <3>1
    <3> QED BY <3>1, <3>2, <3>3
  <2>8. ASSUME NEW i \in 1 .. size, start + i \in 1 .. L
        PROVE  i \in 1 .. Len(chunk)
    BY <1>1, <2>1, <2>5, <2>8
  <2>9. DOMAIN chunk = 1 .. Len(chunk)
    BY <2>4
  <2> QED BY <2>4, <2>6, <2>7, <2>8, <2>9
<1>5. DOMAIN chunks = 1 .. q /\ chunks \in [1 .. q -> Seq(X)]
  BY <1>3, <1>4
<1>6. chunks \in Seq(Seq(X)) /\ Len(chunks) = q
  BY <1>2, <1>5
<1> QED BY <1>2, <1>4, <1>5, <1>6 DEF AreChunks, chunks, q, L

\* Blocks of groups hold each member once.
LEMMA BlocksDeal ==
  ASSUME NEW S, NEW groups, Deals(groups, S), NEW size \in Nat \ {0}
  PROVE  Deals(Blocks(groups, size), S)
<1>0. groups \in Seq(Seq(S)) /\ Len(groups) \in Nat /\ DOMAIN groups = 1 .. Len(groups)
  BY DEF Deals
<1>1. PICK rows, q : rows = Chunks(groups, size) /\ q = DivCeil(Len(groups), size)
  OBVIOUS
<1>2. AreChunks(rows, q, Seq(S), groups, size)
  BY <1>0, <1>1, ChunksFacts
<1>3. PICK from : from = [n \in 1 .. q |-> [i \in DOMAIN rows[n] |-> (n - 1) * size + i]]
  OBVIOUS
<1>4. \A k \in DOMAIN groups : \E n \in 1 .. q : \E i \in 1 .. size : k = (n - 1) * size + i
  <2>1. PICK L \in Nat : L = Len(groups)
    BY <1>0
  <2>2. \A k \in 1 .. L : \E n \in 1 .. DivCeil(L, size) : \E i \in 1 .. size : k = (n - 1) * size + i
    BY PlaceExists
  <2> QED BY <1>0, <1>1, <2>1, <2>2
<1>5. ASSUME NEW n \in 1 .. q, NEW i \in DOMAIN rows[n]
      PROVE  /\ i \in 1 .. size /\ n \in Nat \ {0} /\ from[n][i] = (n - 1) * size + i
             /\ from[n][i] \in DOMAIN groups /\ rows[n][i] = groups[from[n][i]]
  <2>1. q \in Nat /\ Len(rows[n]) \in 1 .. size /\ i \in 1 .. Len(rows[n])
    BY <1>2 DEF AreChunks
  <2>2. (n - 1) * size + i \in DOMAIN groups /\ rows[n][i] = groups[(n - 1) * size + i]
    BY <1>0, <1>2, <2>1 DEF AreChunks
  <2>3. i \in 1 .. size /\ n \in Nat \ {0}
    BY <2>1
  <2>4. from[n][i] = (n - 1) * size + i
    BY <1>3
  <2> QED BY <2>2, <2>3, <2>4
<1>6. \A j \in 1 .. q : \A n \in DOMAIN rows[j] :
        \/ from[j][n] = 0 /\ rows[j][n] = <<>>
        \/ from[j][n] \in DOMAIN groups /\ rows[j][n] = groups[from[j][n]]
  BY <1>5
<1>7. \A j, k \in 1 .. q : \A m \in DOMAIN rows[j], n \in DOMAIN rows[k] :
        from[j][m] # 0 /\ from[j][m] = from[k][n] => j = k /\ m = n
  <2> SUFFICES ASSUME NEW j \in 1 .. q, NEW k \in 1 .. q, NEW m \in DOMAIN rows[j], NEW n \in DOMAIN rows[k],
                      from[j][m] = from[k][n]
               PROVE  j = k /\ m = n
    OBVIOUS
  <2>1. /\ m \in 1 .. size /\ n \in 1 .. size /\ j \in Nat \ {0} /\ k \in Nat \ {0}
        /\ (j - 1) * size + m = (k - 1) * size + n
    BY <1>5
  <2> QED BY <2>1, PlaceIsOne
<1>8. \A i \in DOMAIN groups : \E j \in 1 .. q : \E n \in DOMAIN rows[j] : from[j][n] = i
  <2> TAKE i \in DOMAIN groups
  <2>1. PICK n \in 1 .. q : \E p \in 1 .. size : i = (n - 1) * size + p
    BY <1>4
  <2>2. PICK p \in 1 .. size : i = (n - 1) * size + p
    BY <2>1
  <2>3. p \in DOMAIN rows[n]
    BY <1>0, <1>2, <2>2 DEF AreChunks
  <2>4. from[n][p] = i
    BY <1>5, <2>2, <2>3
  <2> QED BY <2>3, <2>4
<1>9. Rearranges(rows, from, groups, q)
  BY <1>6, <1>7, <1>8 DEF Rearranges
<1>10. rows \in [1 .. q -> Seq(Seq(S))] /\ q \in Nat /\ DOMAIN rows = 1 .. q
  BY <1>2 DEF AreChunks
<1>11. PICK result : result = [n \in 1 .. q |-> FlattenSeq(rows[n])]
  OBVIOUS
<1>12. Blocks(groups, size) = result
  BY <1>1, <1>10, <1>11 DEF Blocks
<1>13. Deals(result, S)
  BY <1>9, <1>10, <1>11, RearrangingDeals
<1> QED BY <1>12, <1>13

\* So do groups that are dealt round.
LEMMA DealDeals ==
  ASSUME NEW S, NEW groups, Deals(groups, S), NEW count \in Nat \ {0}
  PROVE  Deals(Deal(groups, count), S)
<1>0. /\ groups \in Seq(Seq(S)) /\ Len(groups) \in Nat /\ DOMAIN groups = 1 .. Len(groups)
      /\ \A k \in 1 .. Len(groups) : groups[k] \in Seq(S)
  BY DEF Deals
<1>1. PICK L, q : L = Len(groups) /\ q = DivCeil(L, count)
  OBVIOUS
<1>2. L \in Nat /\ q \in Nat /\ \A n \in 1 .. q : (n - 1) * count \in Nat
  BY <1>0, <1>1, DivCeilFacts
<1>3. PICK rows : rows = [g \in 1 .. count |->
       [n \in 1 .. q |-> IF (n - 1) * count + g <= L THEN groups[(n - 1) * count + g] ELSE <<>>]]
  OBVIOUS
<1>4. PICK from : from = [g \in 1 .. count |->
       [n \in 1 .. q |-> IF (n - 1) * count + g <= L THEN (n - 1) * count + g ELSE 0]]
  OBVIOUS
<1>5. ASSUME NEW g \in 1 .. count, NEW n \in 1 .. q
      PROVE  /\ n \in Nat \ {0}
             /\ \/ from[g][n] = 0 /\ rows[g][n] = <<>> /\ (n - 1) * count + g \notin DOMAIN groups
                \/ /\ from[g][n] \in DOMAIN groups /\ from[g][n] = (n - 1) * count + g
                   /\ rows[g][n] = groups[from[g][n]]
  <2>1. PICK start \in Nat : start = (n - 1) * count
    BY <1>2
  <2>2. /\ rows[g][n] = IF start + g <= L THEN groups[start + g] ELSE <<>>
        /\ from[g][n] = IF start + g <= L THEN start + g ELSE 0
    BY <1>3, <1>4, <2>1
  <2>3. g \in Nat \ {0} /\ start + g \in Nat \ {0}
    <3>1. g \in Nat \ {0}
      OBVIOUS
    <3> QED BY <3>1
  <2>4. start + g \in DOMAIN groups <=> start + g <= L
    BY <1>0, <1>1, <1>2, <2>3
  <2>5. n \in Nat \ {0}
    BY <1>2
  <2> QED BY <2>1, <2>2, <2>4, <2>5
<1>6. \A g \in 1 .. count : DOMAIN rows[g] = 1 .. q
  BY <1>3
<1>7. rows \in [1 .. count -> Seq(Seq(S))]
  <2>1. \A g \in 1 .. count : \A n \in 1 .. q : rows[g][n] \in Seq(S)
    <3>1. <<>> \in Seq(S)
      OBVIOUS
    <3>2. ASSUME NEW g \in 1 .. count, NEW n \in 1 .. q PROVE rows[g][n] \in Seq(S)
      <4>1. CASE rows[g][n] = <<>>
        BY <3>1, <4>1
      <4>2. CASE from[g][n] \in DOMAIN groups /\ rows[g][n] = groups[from[g][n]]
        BY <1>0, <4>2
      <4> QED BY <1>5, <4>1, <4>2
    <3> QED BY <3>2
  <2>2. ASSUME NEW g \in 1 .. count PROVE rows[g] \in Seq(Seq(S))
    <3>1. PICK row : row = rows[g]
      OBVIOUS
    <3>2. row = [n \in 1 .. q |-> row[n]]
      BY <1>3, <3>1
    <3>3. \A n \in 1 .. q : row[n] \in Seq(S)
      BY <2>1, <3>1
    <3>4. row \in Seq(Seq(S))
      <4>1. PICK X : X = Seq(S)
        OBVIOUS
      <4>2. row \in [1 .. q -> X] /\ q \in Nat
        BY <1>2, <3>2, <3>3, <4>1
      <4>3. row \in Seq(X)
        BY ONLY <4>2
      <4> QED BY <4>1, <4>3
    <3> QED BY <3>1, <3>4
  <2> QED BY <1>3, <2>2
<1>8. \A j \in 1 .. count : \A n \in DOMAIN rows[j] :
        \/ from[j][n] = 0 /\ rows[j][n] = <<>>
        \/ from[j][n] \in DOMAIN groups /\ rows[j][n] = groups[from[j][n]]
  BY <1>5, <1>6
<1>9. \A j, k \in 1 .. count : \A m \in DOMAIN rows[j], n \in DOMAIN rows[k] :
        from[j][m] # 0 /\ from[j][m] = from[k][n] => j = k /\ m = n
  <2> SUFFICES ASSUME NEW j \in 1 .. count, NEW k \in 1 .. count, NEW m \in DOMAIN rows[j], NEW n \in DOMAIN rows[k],
                      from[j][m] # 0, from[j][m] = from[k][n]
               PROVE  j = k /\ m = n
    OBVIOUS
  <2>1. /\ j \in 1 .. count /\ k \in 1 .. count /\ m \in Nat \ {0} /\ n \in Nat \ {0}
        /\ (m - 1) * count + j = (n - 1) * count + k
    <3>1. m \in 1 .. q /\ n \in 1 .. q
      BY <1>6
    <3>2. m \in Nat \ {0} /\ from[j][m] = (m - 1) * count + j
      BY <1>5, <3>1
    <3>3. n \in Nat \ {0} /\ from[k][n] = (n - 1) * count + k
      BY <1>5, <3>1
    <3> QED BY <3>2, <3>3
  <2> QED BY <2>1, PlaceIsOne
<1>15. \A k \in DOMAIN groups : \E n \in 1 .. q : \E g \in 1 .. count : k = (n - 1) * count + g
  <2>1. \A k \in 1 .. L : \E n \in 1 .. DivCeil(L, count) : \E i \in 1 .. count : k = (n - 1) * count + i
    BY <1>2, PlaceExists
  <2> QED BY <1>0, <1>1, <2>1
<1>10. \A i \in DOMAIN groups : \E j \in 1 .. count : \E n \in DOMAIN rows[j] : from[j][n] = i
  <2> TAKE i \in DOMAIN groups
  <2>1. PICK n \in 1 .. q : \E g \in 1 .. count : i = (n - 1) * count + g
    BY <1>15
  <2>2. PICK g \in 1 .. count : i = (n - 1) * count + g
    BY <2>1
  <2>3. n \in DOMAIN rows[g] /\ from[g][n] = i
    BY <1>5, <1>6, <2>2
  <2> QED BY <2>3
<1>11. Rearranges(rows, from, groups, count)
  BY <1>8, <1>9, <1>10 DEF Rearranges
<1>12. PICK result : result = [g \in 1 .. count |-> FlattenSeq(rows[g])]
  OBVIOUS
<1>13. Deal(groups, count) = result
  BY <1>1, <1>3, <1>12 DEF Deal
<1>14. Deals(result, S)
  BY <1>7, <1>11, <1>12, RearrangingDeals
<1> QED BY <1>13, <1>14

\* A reversed sequence, place by place.
LEMMA ReverseFacts ==
  ASSUME NEW X, NEW seq \in Seq(X)
  PROVE  \A i \in 1 .. Len(seq) :
           /\ Reverse(seq)[i] = seq[Len(seq) - i + 1] /\ Len(seq) - i + 1 \in 1 .. Len(seq)
           /\ Len(seq) - (Len(seq) - i + 1) + 1 = i
<1>1. PICK n \in Nat : n = Len(seq)
  OBVIOUS
<1>2. \A i \in 1 .. n : n - i + 1 \in 1 .. n /\ n - (n - i + 1) + 1 = i
  OBVIOUS
<1>3. \A i \in 1 .. n : Reverse(seq)[i] = seq[(n - i) + 1]
  BY <1>1 DEF Reverse
<1> QED BY <1>1, <1>2, <1>3

\* Where the i-th of a wing of m groups comes from.
InWing(n, m, i) == IF n % 2 = 0 THEN m - i + 1 ELSE i

\* So do wings that are laid over each other, mirrored or not.
LEMMA WingsDeal ==
  ASSUME NEW S, NEW groups, Deals(groups, S), groups # <<>>, NEW count \in Nat \ {0}
  PROVE  Deals(Wings(groups, count), S)
<1>0. groups \in Seq(Seq(S)) /\ Len(groups) \in Nat \ {0} /\ DOMAIN groups = 1 .. Len(groups)
  BY DEF Deals
<1>1. PICK size : size = DivCeil(Len(groups), count)
  OBVIOUS
<1>2. size \in Nat \ {0}
  BY <1>0, <1>1, DivCeilFacts
<1>3. PICK wings, q : wings = Chunks(groups, size) /\ q = DivCeil(Len(groups), size)
  OBVIOUS
<1>4. AreChunks(wings, q, Seq(S), groups, size)
  BY <1>0, <1>2, <1>3, ChunksFacts
<1>5. q \in Nat /\ DOMAIN wings = 1 .. q /\ \A n \in 1 .. q : wings[n] \in Seq(Seq(S))
  BY <1>4 DEF AreChunks
<1>6. PICK rows : rows = [i \in 1 .. size |-> [n \in 1 .. q |->
        IF i <= Len(wings[n]) THEN (IF n % 2 = 0 THEN Reverse(wings[n]) ELSE wings[n])[i] ELSE <<>>]]
  OBVIOUS
<1>7. PICK from : from = [i \in 1 .. size |-> [n \in 1 .. q |->
        IF i <= Len(wings[n]) THEN (n - 1) * size + InWing(n, Len(wings[n]), i) ELSE 0]]
  OBVIOUS
<1>8. ASSUME NEW n \in 1 .. q, NEW i \in 1 .. size
      PROVE  \/ from[i][n] = 0 /\ rows[i][n] = <<>>
             \/ /\ n \in Nat \ {0} /\ Len(wings[n]) \in Nat
                /\ i \in 1 .. Len(wings[n]) /\ InWing(n, Len(wings[n]), i) \in 1 .. size
                /\ from[i][n] = (n - 1) * size + InWing(n, Len(wings[n]), i)
                /\ from[i][n] \in DOMAIN groups /\ rows[i][n] = groups[from[i][n]]
  <2>1. PICK m, wing : m = Len(wings[n]) /\ wing = wings[n]
    OBVIOUS
  <2>2. m \in 1 .. size /\ wing \in Seq(Seq(S)) /\ m = Len(wing)
    BY <1>4, <1>5, <2>1 DEF AreChunks
  <2>3. CASE ~(i <= m)
    BY <1>6, <1>7, <2>1, <2>3
  <2>4. CASE i <= m
    <3>1. i \in 1 .. m /\ m \in Nat /\ n \in Nat \ {0}
      BY <1>2, <1>5, <2>2, <2>4
    <3>2. PICK k : k = InWing(n, m, i)
      OBVIOUS
    <3>3. k \in 1 .. m /\ (IF n % 2 = 0 THEN Reverse(wing) ELSE wing)[i] = wing[k]
      BY <2>2, <3>1, <3>2, ReverseFacts DEF InWing
    <3>4. from[i][n] = (n - 1) * size + k /\ rows[i][n] = wing[k]
      BY <1>6, <1>7, <2>1, <2>4, <3>2, <3>3
    <3>5. (n - 1) * size + k \in DOMAIN groups /\ wing[k] = groups[(n - 1) * size + k]
      BY <1>0, <1>4, <2>1, <3>3 DEF AreChunks
    <3>6. k \in 1 .. size
      BY <1>2, <2>2, <3>3
    <3> QED BY <2>1, <3>1, <3>2, <3>4, <3>5, <3>6
  <2> QED BY <2>3, <2>4
<1>9. \A i \in 1 .. size : DOMAIN rows[i] = 1 .. q
  BY <1>6
<1>10. rows \in [1 .. size -> Seq(Seq(S))]
  <2>1. ASSUME NEW i \in 1 .. size PROVE rows[i] \in Seq(Seq(S))
    <3>1. PICK row : row = rows[i]
      OBVIOUS
    <3>2. row = [n \in 1 .. q |-> row[n]]
      BY <1>6, <3>1
    <3>3. ASSUME NEW n \in 1 .. q PROVE row[n] \in Seq(S)
      <4>1. <<>> \in Seq(S)
        OBVIOUS
      <4>2. rows[i][n] = <<>> \/ (from[i][n] \in DOMAIN groups /\ rows[i][n] = groups[from[i][n]])
        BY <1>8
      <4>3. \A k \in DOMAIN groups : groups[k] \in Seq(S)
        BY <1>0
      <4> QED BY <3>1, <4>1, <4>2, <4>3
    <3>4. row \in [1 .. q -> Seq(S)]
      BY <3>2, <3>3
    <3> QED BY <1>5, <3>1, <3>4
  <2> QED BY <1>6, <2>1
<1>11. \A i \in 1 .. size : \A n \in DOMAIN rows[i] :
        \/ from[i][n] = 0 /\ rows[i][n] = <<>>
        \/ from[i][n] \in DOMAIN groups /\ rows[i][n] = groups[from[i][n]]
  BY <1>8, <1>9
<1>12. \A j, k \in 1 .. size : \A m \in DOMAIN rows[j], n \in DOMAIN rows[k] :
        from[j][m] # 0 /\ from[j][m] = from[k][n] => j = k /\ m = n
  <2> SUFFICES ASSUME NEW j \in 1 .. size, NEW k \in 1 .. size, NEW m \in DOMAIN rows[j], NEW n \in DOMAIN rows[k],
                      from[j][m] # 0, from[j][m] = from[k][n]
               PROVE  j = k /\ m = n
    OBVIOUS
  <2>1. m \in 1 .. q /\ n \in 1 .. q
    BY <1>9
  <2>2. PICK a, b : a = Len(wings[m]) /\ b = Len(wings[n])
    OBVIOUS
  <2>3. PICK x, y : x = InWing(m, a, j) /\ y = InWing(n, b, k)
    OBVIOUS
  <2>4. /\ m \in Nat \ {0} /\ x \in 1 .. size /\ from[j][m] = (m - 1) * size + x
        /\ a \in Nat /\ j \in 1 .. a
    BY <1>8, <2>1, <2>2, <2>3
  <2>5. /\ n \in Nat \ {0} /\ y \in 1 .. size /\ from[k][n] = (n - 1) * size + y
        /\ b \in Nat /\ k \in 1 .. b
    BY <1>8, <2>1, <2>2, <2>3
  <2>6. (m - 1) * size + x = (n - 1) * size + y
    BY <2>4, <2>5
  <2>7. m = n /\ x = y
    BY <1>2, <2>4, <2>5, <2>6, PlaceIsOne
  <2>8. a = b
    BY <2>2, <2>7
  <2>9. j = k
    BY <2>3, <2>4, <2>5, <2>7, <2>8 DEF InWing
  <2> QED BY <2>7, <2>9
<1>13. \A i \in DOMAIN groups : \E j \in 1 .. size : \E n \in DOMAIN rows[j] : from[j][n] = i
  <2> TAKE i \in DOMAIN groups
  <2>1. PICK L \in Nat : L = Len(groups)
    BY <1>0
  <2>2. \A k \in 1 .. L : \E n \in 1 .. DivCeil(L, size) : \E p \in 1 .. size : k = (n - 1) * size + p
    BY <1>2, PlaceExists
  <2>3. PICK n \in 1 .. q : \E p \in 1 .. size : i = (n - 1) * size + p
    BY <1>0, <1>3, <2>1, <2>2
  <2>4. PICK p \in 1 .. size : i = (n - 1) * size + p
    BY <2>3
  <2>5. PICK m : m = Len(wings[n])
    OBVIOUS
  <2>6. m \in 1 .. size /\ p \in 1 .. m
    BY <1>0, <1>4, <2>4, <2>5 DEF AreChunks
  <2>7. PICK j : j = InWing(n, m, p)
    OBVIOUS
  <2>8. j \in 1 .. m /\ j \in 1 .. size /\ j <= m /\ InWing(n, m, j) = p
    BY <1>2, <2>6, <2>7 DEF InWing
  <2>9. from[j][n] = (n - 1) * size + p
    BY <1>7, <2>5, <2>8
  <2> QED BY <1>9, <2>4, <2>8, <2>9
<1>14. Rearranges(rows, from, groups, size)
  BY <1>11, <1>12, <1>13 DEF Rearranges
<1>15. PICK result : result = [i \in 1 .. size |-> FlattenSeq(rows[i])]
  OBVIOUS
<1>16. Wings(groups, count) = result
  <2>1. Wings(groups, count) = [i \in 1 .. size |-> FlattenSeq([n \in DOMAIN wings |->
          IF i <= Len(wings[n]) THEN (IF n % 2 = 0 THEN Reverse(wings[n]) ELSE wings[n])[i] ELSE <<>>])]
    BY <1>1, <1>3 DEF Wings
  <2>2. \A i \in 1 .. size : rows[i] = [n \in DOMAIN wings |->
          IF i <= Len(wings[n]) THEN (IF n % 2 = 0 THEN Reverse(wings[n]) ELSE wings[n])[i] ELSE <<>>]
    BY <1>5, <1>6
  <2> QED BY <1>15, <2>1, <2>2
<1>17. Deals(result, S)
  BY <1>2, <1>10, <1>14, <1>15, RearrangingDeals
<1> QED BY <1>16, <1>17
-----------------------------------------------------------------------------
(* The arrangement of a selection *)

\* Members are dealt to some group.
LEMMA DealtIsSomething ==
  ASSUME NEW S, NEW groups, Deals(groups, S), S # {}
  PROVE  groups # <<>>
<1>1. PICK f \in S : TRUE
  OBVIOUS
<1>2. PICK i \in DOMAIN groups : TRUE
  BY <1>1 DEF Deals, InSome
<1> QED BY <1>2

\* Groups of one fixture each hold each fixture once.
LEMMA SinglesDeal ==
  ASSUME NEW S, NEW seq \in Seq(S), IsInjective(seq)
  PROVE  Deals([n \in DOMAIN seq |-> <<seq[n]>>], ToSet(seq))
<1>1. PICK single : single = [n \in DOMAIN seq |-> <<seq[n]>>]
  OBVIOUS
<1>2. DOMAIN seq = 1 .. Len(seq) /\ Len(seq) \in Nat /\ \A n \in DOMAIN seq : seq[n] \in ToSet(seq)
  BY DEF ToSet
<1>3. \A n \in DOMAIN seq : single[n] = <<seq[n]>> /\ single[n] \in Seq(ToSet(seq))
  BY <1>1, <1>2
<1>4. DOMAIN single = DOMAIN seq /\ single \in Seq(Seq(ToSet(seq)))
  BY <1>1, <1>2, <1>3
<1>5. ASSUME NEW n \in DOMAIN seq, NEW f PROVE f \in ToSet(single[n]) <=> f = seq[n]
  <2>1. DOMAIN <<seq[n]>> = {1} /\ <<seq[n]>>[1] = seq[n]
    OBVIOUS
  <2>2. ToSet(<<seq[n]>>) = {seq[n]}
    BY <2>1 DEF ToSet
  <2> QED BY <1>3, <2>2
<1>6. \A n \in DOMAIN seq : IsInjective(single[n])
  BY <1>3 DEF IsInjective
<1>7. ASSUME NEW i \in DOMAIN single, NEW j \in DOMAIN single, i # j
      PROVE  ToSet(single[i]) \cap ToSet(single[j]) = {}
  <2>1. seq[i] # seq[j]
    BY <1>4, <1>7 DEF IsInjective
  <2> QED BY <1>4, <1>5, <2>1
<1>8. Apart(single)
  BY <1>4, <1>6, <1>7 DEF Apart
<1>9. ASSUME NEW f \in ToSet(seq) PROVE InSome(single, DOMAIN single, f)
  <2>1. PICK n \in DOMAIN seq : f = seq[n]
    BY DEF ToSet
  <2>2. f \in ToSet(single[n])
    BY <1>5, <2>1
  <2> QED BY <1>4, <2>2 DEF InSome
<1>10. Deals(single, ToSet(seq))
  BY <1>4, <1>8, <1>9 DEF Deals
<1> QED BY <1>1, <1>10

\* With any block size, groups and wings each selected fixture is dealt once.
LEMMA GetFixturesDeals ==
  ASSUME NEW S, NEW s, s.fixtures \in Seq(S), IsInjective(s.fixtures),
         s.block \in Nat, s.groups \in Nat, s.wings \in Nat
  PROVE  Deals(GetFixtures(s), Selected(s))
<1>1. CASE s.fixtures = <<>>
  <2>1. GetFixtures(s) = <<>> /\ Selected(s) = {}
    BY <1>1 DEF GetFixtures, Selected, ToSet
  <2>2. Deals(<<>>, {})
    BY DEF Deals, Apart
  <2> QED BY <2>1, <2>2
<1>2. CASE s.fixtures # <<>>
  <2> PICK F : F = Selected(s)
    OBVIOUS
  <2>1. F # {}
    <3>1. 1 \in DOMAIN s.fixtures
      BY <1>2
    <3> QED BY <3>1 DEF Selected, ToSet
  <2>2. PICK single : single = [n \in DOMAIN s.fixtures |-> <<s.fixtures[n]>>]
    OBVIOUS
  <2>3. PICK blocked : blocked = IF s.block = 0 THEN single ELSE Blocks(single, s.block)
    OBVIOUS
  <2>4. PICK dealt : dealt = IF s.groups = 0 THEN blocked ELSE Deal(blocked, s.groups)
    OBVIOUS
  <2>5. GetFixtures(s) = IF s.wings = 0 THEN dealt ELSE Wings(dealt, s.wings)
    BY <1>2, <2>2, <2>3, <2>4 DEF GetFixtures
  <2>6. Deals(single, F)
    BY <2>2, SinglesDeal DEF Selected
  <2>7. Deals(blocked, F)
    BY <2>3, <2>6, BlocksDeal
  <2>8. Deals(dealt, F)
    BY <2>4, <2>7, DealDeals
  <2>9. Deals(GetFixtures(s), F)
    BY <2>1, <2>5, <2>8, WingsDeal, DealtIsSomething
  <2> QED BY <2>9
<1> QED BY <1>1, <1>2

\* ArrangementKeepsFixtures, of any selection.
LEMMA ArrangingKeeps ==
  ASSUME NEW S, NEW s, s.fixtures \in Seq(S), IsInjective(s.fixtures),
         s.block \in Nat, s.groups \in Nat, s.wings \in Nat
  PROVE  /\ IsInjective(FlattenSeq(GetFixtures(s)))
         /\ ToSet(FlattenSeq(GetFixtures(s))) = Selected(s)
         /\ GetFixtures(s) \in Seq(Seq(Selected(s)))
<1>1. PICK groups : groups = GetFixtures(s)
  OBVIOUS
<1>2. PICK F : F = Selected(s)
  OBVIOUS
<1>3. groups \in Seq(Seq(F)) /\ Apart(groups) /\ \A f \in F : InSome(groups, DOMAIN groups, f)
  BY <1>1, <1>2, GetFixturesDeals DEF Deals
<1>4. /\ FlattenSeq(groups) \in Seq(F) /\ IsInjective(FlattenSeq(groups))
      /\ \A f : f \in ToSet(FlattenSeq(groups)) <=> InSome(groups, DOMAIN groups, f)
  BY <1>3, FlattenFacts
<1>5. ToSet(FlattenSeq(groups)) \subseteq F
  BY <1>4 DEF ToSet
<1> QED BY <1>1, <1>2, <1>3, <1>4, <1>5

-----------------------------------------------------------------------------
(* The inductive invariant *)

Selections ==
  {s \in [fixtures : Seq(Fixtures), block : Nat, groups : Nat, wings : Nat] :
     IsInjective(s.fixtures)}

ChannelSets ==
  {c \in [fader : Values \cup {NoValue}, presets : Seq(Presets)] : Len(c.presets) <= 1}

EntrySet == [selection : Selections, channels : ChannelSets]

Programmers ==
  [highlight : BOOLEAN, offline : BOOLEAN, selection : Selections, channels : ChannelSets,
   effects : Seq([effect : Effects, fixtures : Selections]), tracked : Seq(EntrySet),
   written : BOOLEAN, x : Nat]

IsProgrammer(p) == p \in Programmers /\ (~p.written => p.channels = NoChannels)

Undos == [undo : {"nothing", "selection", "highlight"}, selection : Selections]

SessionInv ==
  /\ IsProgrammer(prog)
  /\ done \in Seq(Undos) /\ calls \in 0 .. MaxCalls /\ Len(done) <= calls

-----------------------------------------------------------------------------
(* What each operation keeps *)

\* A selection whose fixtures are replaced.
LEMMA SelectionFacts ==
  ASSUME NEW s \in Selections, NEW known \in Seq(Fixtures), IsInjective(known)
  PROVE  /\ [s EXCEPT !.fixtures = known] \in Selections
         /\ [s EXCEPT !.fixtures = known].fixtures = known
BY DEF Selections

\* Empty and cleared selections.
LEMMA NoFixturesFacts ==
  /\ NoFixtures \in Selections /\ NoFixtures.fixtures = <<>> /\ Selected(NoFixtures) = {}
  /\ \A s \in Selections : ClearFixtures(s) \in Selections /\ Selected(ClearFixtures(s)) = {}
<1>1. <<>> \in Seq(Fixtures) /\ IsInjective(<<>>) /\ ToSet(<<>>) = {}
  BY DEF IsInjective, ToSet
<1>2. NoFixtures \in Selections /\ NoFixtures.fixtures = <<>>
  BY <1>1 DEF NoFixtures, SelectionOf, Selections
<1>3. ASSUME NEW s \in Selections
      PROVE  ClearFixtures(s) \in Selections /\ ClearFixtures(s).fixtures = <<>>
  BY <1>1, SelectionFacts DEF ClearFixtures
<1> QED BY <1>1, <1>2, <1>3 DEF Selected

\* The fixtures of a selection.
LEMMA SelectedFacts ==
  ASSUME NEW s \in Selections
  PROVE  /\ Selected(s) \subseteq Fixtures /\ IsInjective(s.fixtures)
         /\ s.fixtures \in Seq(Fixtures) /\ (s.fixtures = <<>> <=> Selected(s) = {})
<1>1. s.fixtures \in Seq(Fixtures) /\ IsInjective(s.fixtures)
  BY DEF Selections
<1>2. PICK seq \in Seq(Fixtures) : seq = s.fixtures
  BY <1>1
<1>3. ToSet(seq) \subseteq Fixtures /\ (seq = <<>> <=> ToSet(seq) = {})
  <2>1. DOMAIN seq = 1 .. Len(seq) /\ Len(seq) \in Nat /\ \A i \in DOMAIN seq : seq[i] \in Fixtures
    OBVIOUS
  <2>2. CASE seq = <<>>
    BY <2>2 DEF ToSet
  <2>3. CASE seq # <<>>
    <3>1. 1 \in DOMAIN seq
      BY <2>3
    <3> QED BY <2>1, <2>3, <3>1 DEF ToSet
  <2> QED BY <2>2, <2>3
<1> QED BY <1>1, <1>2, <1>3 DEF Selected

\* Selecting more fixtures.
LEMMA AddingFacts ==
  ASSUME NEW s \in Selections, NEW fixtures \in Seq(Fixtures)
  PROVE  /\ AddFixtures(s, fixtures) \in Selections
         /\ Selected(AddFixtures(s, fixtures)) = Selected(s) \cup ToSet(fixtures)
<1>1. PICK known \in Seq(Fixtures) : Enlarged(s, fixtures, known)
  <2>1. s.fixtures \in Seq(Fixtures) /\ IsInjective(s.fixtures)
    BY SelectedFacts
  <2> QED BY <2>1, AddFixturesFacts
<1> QED BY <1>1, SelectionFacts DEF Selected, Enlarged

\* Unselecting a fixture.
LEMMA RemovingFacts ==
  ASSUME NEW s \in Selections, NEW f
  PROVE  /\ FoldLeft(RemoveFixture, s, <<f>>) \in Selections
         /\ Selected(FoldLeft(RemoveFixture, s, <<f>>)) = Selected(s) \ {f}
<1>1. PICK rest : rest = RemoveFirst(s.fixtures, f)
  OBVIOUS
<1>2. rest \in Seq(Fixtures) /\ IsInjective(rest) /\ ToSet(rest) = ToSet(s.fixtures) \ {f}
  <2>1. PICK seq \in Seq(Fixtures) : seq = s.fixtures /\ IsInjective(seq)
    BY SelectedFacts
  <2> QED BY <1>1, <2>1, RemoveFirstFacts
<1>3. FoldLeft(RemoveFixture, s, <<f>>) = [s EXCEPT !.fixtures = rest]
  <2>1. FoldLeft(RemoveFixture, s, <<f>>) = RemoveFixture(s, f)
    BY UnselectOne
  <2>2. RemoveFixture(s, f) = [s EXCEPT !.fixtures = rest]
    BY <1>1 DEF RemoveFixture
  <2> QED BY <2>1, <2>2
<1> QED BY <1>2, <1>3, SelectionFacts DEF Selected

\* Nothing is written.
LEMMA NoChannelsFacts == NoChannels \in ChannelSets
<1>1. <<>> \in Seq(Presets) /\ Len(<<>>) = 0
  OBVIOUS
<1> QED BY <1>1 DEF NoChannels, ChannelSets

\* The tracked selections with the active one.
LEMMA EntriesFacts ==
  ASSUME NEW p, IsProgrammer(p)
  PROVE  /\ ActiveEntry(p) \in EntrySet /\ p.tracked \in Seq(EntrySet)
         /\ Entries(p) \in Seq(EntrySet)
<1>1. p.tracked \in Seq(EntrySet) /\ p.selection \in Selections /\ p.channels \in ChannelSets
  BY DEF IsProgrammer, Programmers
<1>2. ActiveEntry(p) \in EntrySet
  BY <1>1 DEF ActiveEntry, EntrySet
<1> QED BY <1>1, <1>2 DEF Entries

\* The active selection is tracked if it was written to, and its values with it.
LEMMA MovedFacts ==
  ASSUME NEW p, IsProgrammer(p), NEW q, q = MoveActiveToTracked(p)
  PROVE  /\ IsProgrammer(q) /\ q.channels = NoChannels
         /\ q.tracked = IF p.written THEN Entries(p) ELSE p.tracked
         /\ Selected(q.selection) = IF p.written THEN {} ELSE Selected(p.selection)
<1>1. p \in Programmers /\ (~p.written => p.channels = NoChannels)
  BY DEF IsProgrammer
<1>2. CASE ~p.written
  BY <1>1, <1>2 DEF MoveActiveToTracked, IsProgrammer
<1>3. CASE p.written
  <2>1. PICK none \in Selections : none = ClearFixtures(p.selection) /\ Selected(none) = {}
    BY <1>1, NoFixturesFacts DEF Programmers
  <2>2. PICK entries \in Seq(EntrySet) : entries = Entries(p)
    BY EntriesFacts
  <2>3. q = [p EXCEPT !.written = FALSE, !.tracked = entries,
                      !.selection = none, !.channels = NoChannels]
    BY <1>3, <2>1, <2>2 DEF MoveActiveToTracked
  <2>4. /\ q \in Programmers /\ q.channels = NoChannels /\ q.tracked = entries
        /\ q.selection = none
    BY <1>1, <2>3, NoChannelsFacts DEF Programmers
  <2> QED BY <1>3, <2>1, <2>2, <2>4 DEF IsProgrammer
<1> QED BY <1>2, <1>3

-----------------------------------------------------------------------------
(* What a fixture's value comes from *)

WritesIn(entries, f) == {n \in DOMAIN entries : EntryValue(entries[n], f) # NoValue}

\* Value, of any sequence of entries.
ValueIn(entries, f) ==
  IF WritesIn(entries, f) = {} THEN NoValue ELSE EntryValue(entries[Max(WritesIn(entries, f))], f)

\* What channels hold for a fixture: nothing if nothing was written.
LEMMA ControlValueFacts ==
  ASSUME NEW channels \in ChannelSets, NEW f \in Fixtures
  PROVE  /\ ControlValue(channels, f) \in (0 .. Full) \cup {NoValue}
         /\ channels = NoChannels => ControlValue(channels, f) = NoValue
<1>1. PICK presets \in Seq(Presets) : presets = channels.presets
  BY DEF ChannelSets
<1>2. PICK preset : preset = IF presets = <<>> THEN NoValue ELSE PresetValue[Last(presets)][f]
  OBVIOUS
<1>3. preset \in (0 .. Full) \cup {NoValue}
  <2>1. CASE presets = <<>>
    BY <1>2, <2>1
  <2>2. CASE presets # <<>>
    <3>1. Last(presets) \in Presets
      BY <2>2 DEF Last
    <3> QED BY <1>2, <2>2, <3>1, PresetAssumption
  <2> QED BY <2>1, <2>2
<1>4. channels.fader \in (0 .. Full) \cup {NoValue}
  BY ValuesAssumption DEF ChannelSets
<1>5. ControlValue(channels, f) = IF channels.fader # NoValue THEN channels.fader ELSE preset
  BY <1>1, <1>2 DEF ControlValue
<1>6. ASSUME channels = NoChannels PROVE ControlValue(channels, f) = NoValue
  BY <1>1, <1>2, <1>5, <1>6 DEF NoChannels
<1> QED BY <1>3, <1>4, <1>5, <1>6

\* An entry has a value for its own fixtures only, and none if nothing was written.
LEMMA EntryValueFacts ==
  ASSUME NEW e \in EntrySet, NEW f \in Fixtures
  PROVE  /\ EntryValue(e, f) \in (0 .. Full) \cup {NoValue}
         /\ EntryValue(e, f) # NoValue => f \in Selected(e.selection)
         /\ e.channels = NoChannels => EntryValue(e, f) = NoValue
<1>1. e.channels \in ChannelSets
  BY DEF EntrySet
<1> QED BY <1>1, ControlValueFacts DEF EntryValue

\* The last entry with a value for a fixture, if there is one.
LEMMA GreatestWrite ==
  ASSUME NEW X, NEW entries \in Seq(X), NEW f, WritesIn(entries, f) # {}
  PROVE  /\ Max(WritesIn(entries, f)) \in WritesIn(entries, f)
         /\ \A n \in WritesIn(entries, f) : Max(WritesIn(entries, f)) >= n
<1> PICK W : W = WritesIn(entries, f)
  OBVIOUS
<1>1. Len(entries) \in Nat /\ W \subseteq 0 .. Len(entries) /\ W # {}
  <2>1. DOMAIN entries = 1 .. Len(entries) /\ Len(entries) \in Nat
    OBVIOUS
  <2> QED BY <2>1 DEF WritesIn
<1>2. Max(W) \in W /\ \A n \in W : Max(W) >= n
  BY <1>1, Greatest
<1> QED BY <1>2

\* A new entry decides if it has a value, and changes nothing if not.
LEMMA ValueInAppend ==
  ASSUME NEW entries \in Seq(EntrySet), NEW e \in EntrySet, NEW f
  PROVE  ValueIn(Append(entries, e), f) =
           IF EntryValue(e, f) # NoValue THEN EntryValue(e, f) ELSE ValueIn(entries, f)
<1>1. PICK more : more = Append(entries, e)
  OBVIOUS
<1>2. PICK N : N = Len(entries)
  OBVIOUS
<1>3. /\ N \in Nat /\ DOMAIN entries = 1 .. N /\ DOMAIN more = 1 .. N + 1
      /\ more[N + 1] = e /\ \A n \in 1 .. N : more[n] = entries[n]
      /\ more \in Seq(EntrySet)
  BY <1>1, <1>2
<1>4. CASE EntryValue(e, f) # NoValue
  <2>1. N + 1 \in WritesIn(more, f)
    BY <1>3, <1>4 DEF WritesIn
  <2>2. Max(WritesIn(more, f)) \in WritesIn(more, f) /\ Max(WritesIn(more, f)) >= N + 1
    BY <1>3, <2>1, GreatestWrite
  <2>3. \A n \in WritesIn(more, f) : n \in 1 .. N + 1
    BY <1>3 DEF WritesIn
  <2>4. Max(WritesIn(more, f)) = N + 1
    BY <1>3, <2>2, <2>3
  <2> QED BY <1>1, <1>3, <1>4, <2>1, <2>4 DEF ValueIn
<1>5. CASE EntryValue(e, f) = NoValue
  <2>1. ASSUME NEW n PROVE n \in WritesIn(more, f) <=> n \in WritesIn(entries, f)
    <3>1. n \in 1 .. N + 1 <=> n \in 1 .. N \/ n = N + 1
      BY <1>3
    <3> QED BY <1>3, <1>5, <3>1 DEF WritesIn
  <2>2. WritesIn(more, f) = WritesIn(entries, f)
    BY <2>1
  <2>3. CASE WritesIn(entries, f) = {}
    BY <1>1, <1>5, <2>2, <2>3 DEF ValueIn
  <2>4. CASE WritesIn(entries, f) # {}
    <3>1. PICK m : m = Max(WritesIn(entries, f))
      OBVIOUS
    <3>2. m \in 1 .. N
      <4>1. m \in WritesIn(entries, f)
        BY <3>1, <2>4, GreatestWrite
      <4> QED BY <1>3, <4>1 DEF WritesIn
    <3>3. ValueIn(more, f) = EntryValue(more[m], f) /\ ValueIn(entries, f) = EntryValue(entries[m], f)
      BY <2>2, <2>4, <3>1 DEF ValueIn
    <3> QED BY <1>1, <1>3, <1>5, <3>2, <3>3
  <2> QED BY <2>3, <2>4
<1> QED BY <1>4, <1>5

\* The active entry comes before the tracked ones.
LEMMA ValueFacts ==
  ASSUME NEW p, IsProgrammer(p), NEW f \in Fixtures
  PROVE  /\ Value(p, f) = ValueIn(Entries(p), f)
         /\ Value(p, f) = IF EntryValue(ActiveEntry(p), f) # NoValue
                           THEN EntryValue(ActiveEntry(p), f) ELSE ValueIn(p.tracked, f)
         /\ Value(p, f) \in (0 .. Full) \cup {NoValue}
         /\ p.channels = NoChannels => Value(p, f) = ValueIn(p.tracked, f)
         /\ f \notin Selected(p.selection) => Value(p, f) = ValueIn(p.tracked, f)
<1>1. Value(p, f) = ValueIn(Entries(p), f)
  BY DEF Value, ValueIn, WritesIn
<1>2. ActiveEntry(p) \in EntrySet /\ p.tracked \in Seq(EntrySet) /\ Entries(p) \in Seq(EntrySet)
  BY EntriesFacts
<1>3. ValueIn(Entries(p), f) = IF EntryValue(ActiveEntry(p), f) # NoValue
                               THEN EntryValue(ActiveEntry(p), f) ELSE ValueIn(p.tracked, f)
  BY <1>2, ValueInAppend DEF Entries
<1>4. ValueIn(Entries(p), f) \in (0 .. Full) \cup {NoValue}
  <2>1. PICK entries \in Seq(EntrySet) : entries = Entries(p)
    BY <1>2
  <2>2. CASE WritesIn(entries, f) = {}
    BY <2>1, <2>2 DEF ValueIn
  <2>3. CASE WritesIn(entries, f) # {}
    <3>1. Max(WritesIn(entries, f)) \in DOMAIN entries
      BY <2>3, GreatestWrite DEF WritesIn
    <3>2. entries[Max(WritesIn(entries, f))] \in EntrySet
      BY <3>1
    <3> QED BY <2>1, <2>3, <3>2, EntryValueFacts DEF ValueIn
  <2> QED BY <2>2, <2>3
<1>5. ASSUME p.channels = NoChannels \/ f \notin Selected(p.selection)
      PROVE  EntryValue(ActiveEntry(p), f) = NoValue
  <2>1. ActiveEntry(p).channels = p.channels /\ ActiveEntry(p).selection = p.selection
    BY DEF ActiveEntry
  <2> QED BY <1>2, <1>5, <2>1, EntryValueFacts
<1> QED BY <1>1, <1>3, <1>4, <1>5

\* ProgrammedIsTracked, of any programmer.
LEMMA TrackingFacts ==
  ASSUME NEW p, IsProgrammer(p), NEW f \in Fixtures, Value(p, f) # NoValue
  PROVE  f \in TrackedFixtures(p)
<1>1. PICK kept : kept = IF p.written THEN Entries(p) ELSE p.tracked
  OBVIOUS
<1>2. kept \in Seq(EntrySet)
  BY <1>1, EntriesFacts
<1>3. ValueIn(kept, f) # NoValue
  BY <1>1, ValueFacts DEF IsProgrammer
<1>4. PICK n \in DOMAIN kept : EntryValue(kept[n], f) # NoValue
  BY <1>3 DEF ValueIn, WritesIn
<1>5. PICK e : e = kept[n]
  OBVIOUS
<1>6. e \in EntrySet /\ f \in Selected(e.selection)
  <2>1. e \in EntrySet
    BY <1>2, <1>5
  <2> QED BY <2>1, <1>4, <1>5, EntryValueFacts
<1>7. e \in ToSet(kept)
  BY <1>5 DEF ToSet
<1> QED BY <1>1, <1>6, <1>7 DEF TrackedFixtures

-----------------------------------------------------------------------------
(* What fixtures keep and what the selection carries *)

Nowhere == [f \in Fixtures |-> NoValue]
ValuesOf(p) == [f \in Fixtures |-> Value(p, f)]

\* The entries before the active one give a fixture what it keeps, the
\* channels what is carried; together they make the values.
LEMMA KeptAndCarried ==
  ASSUME NEW p, IsProgrammer(p)
  PROVE  /\ \A f \in Fixtures : Kept(p)[f] = ValueIn(p.tracked, f)
         /\ Kept(p) = [f \in Fixtures |-> ValueIn(p.tracked, f)]
         /\ p.channels = NoChannels => Carried(p) = Nowhere
         /\ ValuesOf(p) = [f \in Fixtures |->
                             IF f \in Selected(p.selection) /\ Carried(p)[f] # NoValue
                             THEN Carried(p)[f] ELSE Kept(p)[f]]
<1>1. p \in Programmers /\ p.channels \in ChannelSets
  BY DEF IsProgrammer, Programmers
<1>2. ASSUME NEW f \in Fixtures
      PROVE  Value(SetSelection(p, NoFixtures), f) = ValueIn(p.tracked, f)
  <2>1. PICK q : q = SetSelection(p, NoFixtures)
    OBVIOUS
  <2>2. NoFixtures \in Selections /\ Selected(NoFixtures) = {}
    BY NoFixturesFacts
  <2>3. /\ q \in Programmers /\ q.selection = NoFixtures /\ q.tracked = p.tracked
        /\ q.channels = p.channels /\ q.written = p.written
    BY <1>1, <2>1, <2>2 DEF SetSelection, Programmers
  <2>4. IsProgrammer(q)
    BY <2>3 DEF IsProgrammer
  <2> QED BY <2>1, <2>2, <2>3, <2>4, ValueFacts
<1>3. Kept(p) = [f \in Fixtures |-> ValueIn(p.tracked, f)]
  BY <1>2 DEF Kept
<1>4. \A f \in Fixtures : Carried(p)[f] = ControlValue(p.channels, f)
  BY DEF Carried
<1>5. ASSUME p.channels = NoChannels PROVE Carried(p) = Nowhere
  BY <1>1, <1>5, ControlValueFacts DEF Carried, Nowhere
<1>6. ASSUME NEW f \in Fixtures
      PROVE  Value(p, f) = IF f \in Selected(p.selection) /\ Carried(p)[f] # NoValue
                           THEN Carried(p)[f] ELSE Kept(p)[f]
  <2>1. EntryValue(ActiveEntry(p), f) =
          IF f \in Selected(p.selection) THEN Carried(p)[f] ELSE NoValue
    BY <1>4 DEF EntryValue, ActiveEntry
  <2>2. Kept(p)[f] = ValueIn(p.tracked, f)
    BY <1>3
  <2> QED BY <2>1, <2>2, ValueFacts
<1> QED BY <1>3, <1>5, <1>6 DEF ValuesOf

\* Neither is touched.
Same(p, q) == Kept(q) = Kept(p) /\ Carried(q) = Carried(p)

\* What leaves the tracked entries and the channels touches neither.
LEMMA SameFacts ==
  ASSUME NEW p, IsProgrammer(p), NEW q, IsProgrammer(q),
         q.tracked = p.tracked, q.channels = p.channels
  PROVE  Same(p, q)
<1>1. Kept(q) = Kept(p)
  BY KeptAndCarried
<1>2. Carried(q) = Carried(p)
  BY DEF Carried
<1> QED BY <1>1, <1>2 DEF Same

\* The fixtures keep their values, and nothing is carried any more.
Settled(p, q) == Kept(q) = ValuesOf(p) /\ Carried(q) = Nowhere

\* Tracking the active selection settles the values.
LEMMA ValuesOfMoved ==
  ASSUME NEW p, IsProgrammer(p), NEW q, IsProgrammer(q),
         q.tracked = MoveActiveToTracked(p).tracked, q.channels = NoChannels
  PROVE  Settled(p, q)
<1>1. Kept(q) = [f \in Fixtures |-> ValueIn(q.tracked, f)] /\ Carried(q) = Nowhere
  BY KeptAndCarried
<1>2. q.tracked = IF p.written THEN Entries(p) ELSE p.tracked
  BY MovedFacts
<1>3. \A f \in Fixtures : /\ Value(p, f) = ValueIn(Entries(p), f)
                          /\ ~p.written => Value(p, f) = ValueIn(p.tracked, f)
  BY ValueFacts DEF IsProgrammer
<1>4. \A f \in Fixtures : Value(p, f) = ValueIn(q.tracked, f)
  BY <1>2, <1>3
<1> QED BY <1>1, <1>4 DEF Settled, ValuesOf

-----------------------------------------------------------------------------
(* What each operation does to the selection and the values *)

\* Replacing the active selection leaves the rest.
LEMMA SelectionChanged ==
  ASSUME NEW p, IsProgrammer(p), NEW s \in Selections,
         NEW q, q = [p EXCEPT !.selection = s]
  PROVE  /\ IsProgrammer(q) /\ q.selection = s
         /\ q.tracked = p.tracked /\ q.channels = p.channels
BY DEF IsProgrammer, Programmers

\* Selecting: anew after a write, and further fixtures else; the values settle.
LEMMA SelectFixturesFacts ==
  ASSUME NEW p, IsProgrammer(p), NEW fixtures \in Seq(Fixtures),
         NEW q, q = SelectFixtures(p, fixtures)
  PROVE  /\ IsProgrammer(q) /\ Settled(p, q) /\ ToSet(fixtures) \subseteq Fixtures
         /\ \/ Selected(q.selection) = ToSet(fixtures)
            \/ /\ Carried(p) = Nowhere
               /\ Selected(q.selection) = Selected(p.selection) \cup ToSet(fixtures)
<1>1. PICK moved : moved = MoveActiveToTracked(p)
  OBVIOUS
<1>2. /\ IsProgrammer(moved) /\ moved.channels = NoChannels
      /\ Selected(moved.selection) = IF p.written THEN {} ELSE Selected(p.selection)
  BY <1>1, MovedFacts
<1>3. moved.selection \in Selections
  BY <1>2 DEF IsProgrammer, Programmers
<1>4. PICK s : s = AddFixtures(moved.selection, fixtures)
  OBVIOUS
<1>5. s \in Selections /\ Selected(s) = Selected(moved.selection) \cup ToSet(fixtures)
  BY <1>3, <1>4, AddingFacts
<1>6. q = [moved EXCEPT !.selection = s]
  BY <1>1, <1>4 DEF SelectFixtures
<1>7. /\ IsProgrammer(q) /\ q.selection = s
      /\ q.tracked = moved.tracked /\ q.channels = NoChannels
  BY <1>2, <1>5, <1>6, SelectionChanged
<1>8. Settled(p, q)
  BY <1>1, <1>7, ValuesOfMoved
<1>9. ToSet(fixtures) \subseteq Fixtures
  BY DEF ToSet
<1>10. \/ Selected(q.selection) = ToSet(fixtures)
       \/ /\ Carried(p) = Nowhere
          /\ Selected(q.selection) = Selected(p.selection) \cup ToSet(fixtures)
  <2>1. CASE p.written
    BY <1>2, <1>5, <1>7, <2>1
  <2>2. CASE ~p.written
    <3>1. Carried(p) = Nowhere
      BY <2>2, KeptAndCarried DEF IsProgrammer
    <3> QED BY <1>2, <1>5, <1>7, <2>2, <3>1
  <2> QED BY <2>1, <2>2
<1> QED BY <1>7, <1>8, <1>9, <1>10

\* Selecting a group: its fixtures are selected, and the values settle.
LEMMA SelectGroupFacts ==
  ASSUME NEW p, IsProgrammer(p), NEW group \in Selections, NEW q, q = SelectGroup(p, group)
  PROVE  IsProgrammer(q) /\ Selected(q.selection) = Selected(group) /\ Settled(p, q)
<1>1. PICK moved : moved = MoveActiveToTracked(p)
  OBVIOUS
<1>2. IsProgrammer(moved) /\ moved.channels = NoChannels
  BY <1>1, MovedFacts
<1>3. q = [moved EXCEPT !.selection = group]
  BY <1>1 DEF SelectGroup
<1>4. /\ IsProgrammer(q) /\ q.selection = group
      /\ q.tracked = moved.tracked /\ q.channels = NoChannels
  BY <1>2, <1>3, SelectionChanged
<1>5. Settled(p, q)
  BY <1>1, <1>4, ValuesOfMoved
<1> QED BY <1>4, <1>5

\* Undoing, unselecting and shuffling.
LEMMA SetSelectionFacts ==
  ASSUME NEW p, IsProgrammer(p), NEW s \in Selections, NEW q, q = SetSelection(p, s)
  PROVE  IsProgrammer(q) /\ q.selection = s /\ Same(p, q)
<1>1. IsProgrammer(q) /\ q.selection = s /\ q.tracked = p.tracked /\ q.channels = p.channels
  BY SelectionChanged DEF SetSelection
<1> QED BY <1>1, SameFacts

\* Clearing settles the values while there is a selection, and drops them after.
LEMMA ClearProgrammerFacts ==
  ASSUME NEW p, IsProgrammer(p), NEW q, q = ClearProgrammer(p)
  PROVE  /\ IsProgrammer(q) /\ Selected(q.selection) = {}
         /\ IF Selected(p.selection) # {} THEN Settled(p, q)
            ELSE Kept(q) = Nowhere /\ Carried(q) = Nowhere
<1>1. p \in Programmers /\ p.selection \in Selections
  BY DEF IsProgrammer, Programmers
<1>2. p.selection.fixtures = <<>> <=> Selected(p.selection) = {}
  BY <1>1, SelectedFacts
<1>3. CASE Selected(p.selection) # {}
  <2>1. PICK none \in Selections : none = ClearFixtures(p.selection) /\ Selected(none) = {}
    BY <1>1, NoFixturesFacts
  <2>2. PICK tracked \in Seq(EntrySet) : tracked = IF p.written THEN Entries(p) ELSE p.tracked
    BY EntriesFacts
  <2>3. q = [p EXCEPT !.tracked = tracked, !.selection = none, !.channels = NoChannels]
    BY <1>2, <1>3, <2>1, <2>2 DEF ClearProgrammer, ClearSelection
  <2>4. IsProgrammer(q) /\ q.tracked = tracked /\ q.selection = none /\ q.channels = NoChannels
    BY <1>1, <2>3, NoChannelsFacts DEF IsProgrammer, Programmers
  <2>5. q.tracked = MoveActiveToTracked(p).tracked
    BY <2>2, <2>4, MovedFacts
  <2>6. Settled(p, q)
    BY <2>4, <2>5, ValuesOfMoved
  <2> QED BY <1>3, <2>1, <2>4, <2>6
<1>4. CASE Selected(p.selection) = {}
  <2>1. q = [p EXCEPT !.tracked = <<>>, !.effects = <<>>, !.selection = NoFixtures,
                      !.channels = NoChannels, !.x = 0]
    BY <1>2, <1>4 DEF ClearProgrammer, ClearAll, NoX
  <2>2. IsProgrammer(q) /\ q.tracked = <<>> /\ q.selection = NoFixtures /\ q.channels = NoChannels
    <3>1. PICK empty : empty = <<>>
      OBVIOUS
    <3>2. empty \in Seq(EntrySet) /\ empty \in Seq([effect : Effects, fixtures : Selections])
      BY <3>1
    <3>3. q = [p EXCEPT !.tracked = empty, !.effects = empty, !.selection = NoFixtures,
                        !.channels = NoChannels, !.x = 0]
      BY <2>1, <3>1
    <3>4. NoChannels \in ChannelSets /\ NoFixtures \in Selections
      BY NoChannelsFacts, NoFixturesFacts
    <3>5. /\ q \in Programmers /\ q.tracked = empty
          /\ q.selection = NoFixtures /\ q.channels = NoChannels
      <4>1. PICK r : r = [p EXCEPT !.tracked = empty, !.effects = empty, !.x = 0]
        OBVIOUS
      <4>2. r \in Programmers /\ r.tracked = empty
        BY <1>1, <3>2, <4>1 DEF Programmers
      <4>3. q = [r EXCEPT !.selection = NoFixtures, !.channels = NoChannels]
        BY <1>1, <3>3, <4>1 DEF Programmers
      <4> QED BY <3>4, <4>2, <4>3 DEF Programmers
    <3> QED BY <3>1, <3>5 DEF IsProgrammer
  <2>3. \A f \in Fixtures : ValueIn(<<>>, f) = NoValue
    BY DEF ValueIn, WritesIn
  <2>4. Kept(q) = Nowhere /\ Carried(q) = Nowhere
    BY <2>2, <2>3, KeptAndCarried DEF Nowhere
  <2> QED BY <1>4, <2>2, <2>4, NoFixturesFacts
<1> QED BY <1>3, <1>4

\* Writing: the selection carries the value.
LEMMA WriteControlFacts ==
  ASSUME NEW p, IsProgrammer(p), NEW value \in Values, NEW q, q = WriteControl(p, value)
  PROVE  /\ IsProgrammer(q) /\ q.selection = p.selection
         /\ Kept(q) = Kept(p) /\ Carried(q) = [f \in Fixtures |-> value]
<1>1. p \in Programmers /\ p.channels \in ChannelSets
  BY DEF IsProgrammer, Programmers
<1>2. PICK written : written = [p.channels EXCEPT !.fader = value]
  OBVIOUS
<1>3. written \in ChannelSets /\ written.fader = value
  BY <1>1, <1>2 DEF ChannelSets
<1>4. q = [p EXCEPT !.channels = written, !.written = TRUE]
  BY <1>1, <1>2 DEF WriteControl, Programmers, ChannelSets
<1>5. /\ IsProgrammer(q) /\ q.selection = p.selection /\ q.tracked = p.tracked
      /\ q.channels = written
  BY <1>1, <1>3, <1>4 DEF IsProgrammer, Programmers
<1>6. value \in 0 .. Full /\ value # NoValue
  BY ValuesAssumption DEF NoValue
<1>7. Kept(q) = Kept(p)
  BY <1>5, KeptAndCarried
<1>8. \A f \in Fixtures : ControlValue(q.channels, f) = value
  BY <1>3, <1>5, <1>6 DEF ControlValue
<1>9. Carried(q) = [f \in Fixtures |-> value]
  BY <1>8 DEF Carried
<1> QED BY <1>5, <1>7, <1>9

\* Calling a preset: the selection carries its values, unless one was written.
LEMMA CallPresetFacts ==
  ASSUME NEW p, IsProgrammer(p), NEW preset \in Presets, NEW q, q = CallPreset(p, preset)
  PROVE  /\ IsProgrammer(q) /\ q.selection = p.selection
         /\ Kept(q) = Kept(p) /\ Carried(q) \in {Carried(p), PresetValue[preset]}
<1>1. p \in Programmers /\ p.channels \in ChannelSets
  BY DEF IsProgrammer, Programmers
<1>2. PICK called : called = [p.channels EXCEPT !.presets = <<preset>>]
  OBVIOUS
<1>3. called \in ChannelSets
  <2>1. <<preset>> \in Seq(Presets) /\ Len(<<preset>>) = 1
    OBVIOUS
  <2>2. PICK presets : presets = <<preset>>
    OBVIOUS
  <2>3. presets \in Seq(Presets) /\ Len(presets) <= 1
    BY <2>1, <2>2
  <2>4. called = [p.channels EXCEPT !.presets = presets]
    BY <1>2, <2>2
  <2> QED BY <1>1, <2>3, <2>4 DEF ChannelSets
<1>4. q = [p EXCEPT !.channels = called, !.written = TRUE]
  BY <1>1, <1>2 DEF CallPreset, Programmers, ChannelSets
<1>5. IsProgrammer(q) /\ q.selection = p.selection /\ q.tracked = p.tracked /\ q.channels = called
  BY <1>1, <1>3, <1>4 DEF IsProgrammer, Programmers
<1>6. Kept(q) = Kept(p)
  BY <1>5, KeptAndCarried
<1>7. called.fader = p.channels.fader /\ called.presets = <<preset>>
  BY <1>1, <1>2 DEF ChannelSets
<1>8. CASE p.channels.fader # NoValue
  <2>1. \A f \in Fixtures : ControlValue(q.channels, f) = ControlValue(p.channels, f)
    BY <1>5, <1>7, <1>8 DEF ControlValue
  <2>2. Carried(q) = Carried(p)
    BY <2>1 DEF Carried
  <2> QED BY <1>5, <1>6, <2>2
<1>9. CASE p.channels.fader = NoValue
  <2>1. <<preset>> # <<>> /\ Last(<<preset>>) = preset
    BY DEF Last
  <2>2. \A f \in Fixtures : ControlValue(q.channels, f) = PresetValue[preset][f]
    BY <1>5, <1>7, <1>9, <2>1 DEF ControlValue
  <2>3. PresetValue[preset] = [f \in Fixtures |-> PresetValue[preset][f]]
    BY PresetAssumption
  <2>4. Carried(q) = PresetValue[preset]
    BY <2>2, <2>3 DEF Carried
  <2> QED BY <1>5, <1>6, <2>4
<1> QED BY <1>8, <1>9

\* Neither the selected fixtures nor the values are touched.
Aside(p, q) == IsProgrammer(q) /\ Selected(q.selection) = Selected(p.selection) /\ Same(p, q)

\* What leaves the entries leaves the values.
LEMMA AsideFacts ==
  ASSUME NEW p, IsProgrammer(p), NEW q, q \in Programmers,
         q.tracked = p.tracked, q.channels = p.channels, q.written = p.written,
         Selected(q.selection) = Selected(p.selection)
  PROVE  Aside(p, q)
<1>1. IsProgrammer(q)
  BY DEF IsProgrammer
<1> QED BY <1>1, SameFacts DEF Aside

\* Calling an effect.
LEMMA EffectIsAside ==
  ASSUME NEW p, IsProgrammer(p), NEW effect \in Effects
  PROVE  Aside(p, CallEffect(p, effect))
<1>1. p \in Programmers
  BY DEF IsProgrammer
<1>2. PICK q : q = CallEffect(p, effect)
  OBVIOUS
<1>3. PICK call \in [effect : Effects, fixtures : Selections] :
        call = [effect |-> effect, fixtures |-> p.selection]
  BY <1>1 DEF Programmers
<1>4. PICK effects \in Seq([effect : Effects, fixtures : Selections]) :
        effects = Append(p.effects, call)
  <2>1. PICK C : C = [effect : Effects, fixtures : Selections]
    OBVIOUS
  <2>2. p.effects \in Seq(C) /\ call \in C
    BY <1>1, <1>3, <2>1 DEF Programmers
  <2>3. Append(p.effects, call) \in Seq(C)
    BY <2>2, AppendProperties
  <2> QED BY <2>1, <2>3
<1>5. q = [p EXCEPT !.effects = effects]
  BY <1>1, <1>2, <1>3, <1>4 DEF CallEffect, Programmers
<1>6. /\ q \in Programmers /\ q.tracked = p.tracked /\ q.channels = p.channels
      /\ q.written = p.written /\ q.selection = p.selection
  BY <1>1, <1>5 DEF Programmers
<1> QED BY <1>2, <1>6, AsideFacts

\* Switching the highlight and the offline mode.
LEMMA SwitchesAreAside ==
  ASSUME NEW p, IsProgrammer(p), NEW on \in BOOLEAN
  PROVE  /\ Aside(p, SetHighlight(p, on)) /\ Aside(p, SetOffline(p, on))
         /\ Aside(p, SetHighlight(p, ~p.highlight))
<1>1. p \in Programmers
  BY DEF IsProgrammer
<1>2. ASSUME NEW flag \in BOOLEAN, NEW q, q = [p EXCEPT !.highlight = flag] \/ q = [p EXCEPT !.offline = flag]
      PROVE  Aside(p, q)
  <2>1. /\ q \in Programmers /\ q.tracked = p.tracked /\ q.channels = p.channels
        /\ q.written = p.written /\ q.selection = p.selection
    BY <1>1, <1>2 DEF Programmers
  <2> QED BY <2>1, AsideFacts
<1>3. (~p.highlight) \in BOOLEAN
  OBVIOUS
<1> QED BY <1>2, <1>3 DEF SetHighlight, SetOffline

\* The groups are counted by numbers.
LEMMA CountFacts ==
  ASSUME NEW p, p \in Programmers
  PROVE  LastX(p) \in Nat /\ GroupCount(p) \in Nat
<1>1. PICK s \in Selections : s = p.selection
  BY DEF Programmers
<1>2. GetFixtures(s) \in Seq(Seq(Selected(s)))
  <2>1. /\ s.fixtures \in Seq(Fixtures) /\ IsInjective(s.fixtures)
        /\ s.block \in Nat /\ s.groups \in Nat /\ s.wings \in Nat
    BY DEF Selections
  <2> QED BY <2>1, ArrangingKeeps
<1>3. Len(GetFixtures(s)) \in Nat
  BY <1>2
<1> QED BY <1>1, <1>3 DEF LastX, GroupCount

\* Stepping through the groups.
LEMMA SteppingIsAside ==
  ASSUME NEW p, IsProgrammer(p), NEW q, q \in {NextX(p), PrevX(p), AllX(p)}
  PROVE  Aside(p, q)
<1>1. p \in Programmers /\ p.x \in Nat
  BY DEF IsProgrammer, Programmers
<1>2. \E x \in Nat : q = [p EXCEPT !.x = x]
  <2>1. PICK last \in Nat : last = LastX(p)
    BY <1>1, CountFacts
  <2>2. PICK count \in Nat : count = GroupCount(p)
    BY <1>1, CountFacts
  <2>3. CASE q = NextX(p)
    <3>1. PICK x \in Nat : x = IF p.x = NoX \/ p.x + 1 > count THEN 1 ELSE p.x + 1
      BY <1>1
    <3>2. q = [p EXCEPT !.x = x]
      BY <2>2, <2>3, <3>1 DEF NextX
    <3> QED BY <3>2
  <2>4. CASE q = PrevX(p)
    <3>1. PICK x \in Nat : x = IF p.x \in {NoX, 1} THEN last ELSE p.x - 1
      BY <1>1 DEF NoX
    <3>2. q = [p EXCEPT !.x = x]
      BY <2>1, <2>4, <3>1 DEF PrevX
    <3> QED BY <3>2
  <2>5. CASE q = AllX(p)
    BY <2>5 DEF AllX, NoX
  <2> QED BY <2>3, <2>4, <2>5
<1>3. PICK x \in Nat : q = [p EXCEPT !.x = x]
  BY <1>2
<1>4. /\ q \in Programmers /\ q.tracked = p.tracked /\ q.channels = p.channels
      /\ q.written = p.written /\ q.selection = p.selection
  BY <1>1, <1>3 DEF Programmers
<1> QED BY <1>4, AsideFacts

\* A setting of the selection and the step that is kept within its groups.
LEMMA ClampingIsAside ==
  ASSUME NEW p, IsProgrammer(p), NEW s \in Selections, s.fixtures = p.selection.fixtures,
         NEW q, q = ClampX([p EXCEPT !.selection = s])
  PROVE  Aside(p, q)
<1>1. PICK r : r = [p EXCEPT !.selection = s]
  OBVIOUS
<1>2. /\ r \in Programmers /\ r.tracked = p.tracked /\ r.channels = p.channels
      /\ r.written = p.written /\ r.selection = s /\ r.x \in Nat
  BY <1>1 DEF IsProgrammer, Programmers
<1>3. PICK last \in Nat : last = LastX(r)
  BY <1>2, CountFacts
<1>4. PICK x \in Nat : x = IF r.x = NoX THEN NoX ELSE Least(r.x, last)
  BY <1>2 DEF Least, NoX
<1>5. q = [r EXCEPT !.x = x]
  BY <1>1, <1>3, <1>4 DEF ClampX
<1>6. /\ q \in Programmers /\ q.tracked = p.tracked /\ q.channels = p.channels
      /\ q.written = p.written /\ q.selection = s
  BY <1>2, <1>5 DEF Programmers
<1> QED BY <1>6, AsideFacts DEF Selected

\* The three settings of the selection.
LEMMA ArrangingIsAside ==
  ASSUME NEW p, IsProgrammer(p), NEW size \in Nat,
         NEW q, q \in {SetBlockSize(p, size), SetGroups(p, size), SetWings(p, size)}
  PROVE  Aside(p, q)
<1>1. PICK s \in Selections : s = p.selection
  BY DEF IsProgrammer, Programmers
<1>2. ASSUME NEW t, t \in {[s EXCEPT !.block = size], [s EXCEPT !.groups = size],
                          [s EXCEPT !.wings = size]}
      PROVE  t \in Selections /\ t.fixtures = s.fixtures
  BY <1>2 DEF Selections
<1>3. p \in Programmers
  BY DEF IsProgrammer
<1>4. \E t \in {[s EXCEPT !.block = size], [s EXCEPT !.groups = size], [s EXCEPT !.wings = size]} :
        q = ClampX([p EXCEPT !.selection = t])
  <2>1. CASE q = SetBlockSize(p, size)
    BY <1>1, <2>1 DEF SetBlockSize
  <2>2. CASE q = SetGroups(p, size)
    BY <1>1, <2>2 DEF SetGroups
  <2>3. CASE q = SetWings(p, size)
    BY <1>1, <2>3 DEF SetWings
  <2> QED BY <2>1, <2>2, <2>3
<1> QED BY <1>1, <1>2, <1>4, ClampingIsAside

-----------------------------------------------------------------------------
(* The steps *)

\* before of ProgrammerValues, for what the commands returned.
Recorded(undos) ==
  [n \in DOMAIN undos |-> IF undos[n].undo # "selection" THEN <<>>
                          ELSE <<Selected(undos[n].selection)>>]

\* A command adds what undoing it brings back.
LEMMA RecordedFacts ==
  ASSUME NEW undos \in Seq(Undos), NEW undo \in Undos
  PROVE  Recorded(Append(undos, undo)) =
           Append(Recorded(undos), IF undo.undo # "selection" THEN <<>> ELSE <<Selected(undo.selection)>>)
<1>1. PICK N : N = Len(undos)
  OBVIOUS
<1>2. PICK more : more = Append(undos, undo)
  OBVIOUS
<1>3. PICK last : last = IF undo.undo # "selection" THEN <<>> ELSE <<Selected(undo.selection)>>
  OBVIOUS
<1>4. /\ N \in Nat /\ DOMAIN undos = 1 .. N /\ DOMAIN more = 1 .. N + 1
      /\ more[N + 1] = undo /\ \A n \in 1 .. N : more[n] = undos[n]
  BY <1>1, <1>2
<1>5. PICK known : known = Recorded(undos)
  OBVIOUS
<1>6. known = [n \in 1 .. N |-> known[n]] /\ Len(known) = N
  BY <1>4, <1>5 DEF Recorded
<1>7. Append(known, last) = [n \in 1 .. N + 1 |-> IF n = N + 1 THEN last ELSE known[n]]
  BY <1>4, <1>6
<1>8. Recorded(more) = [n \in 1 .. N + 1 |-> IF n = N + 1 THEN last ELSE known[n]]
  <2>1. DOMAIN Recorded(more) = 1 .. N + 1
    BY <1>4 DEF Recorded
  <2>2. ASSUME NEW n \in 1 .. N + 1
        PROVE  Recorded(more)[n] = IF n = N + 1 THEN last ELSE known[n]
    <3>1. CASE n = N + 1
      BY <1>3, <1>4, <3>1 DEF Recorded
    <3>2. CASE n # N + 1
      <4>1. n \in 1 .. N
        BY <1>4, <3>2
      <4> QED BY <1>4, <1>5, <3>2, <4>1 DEF Recorded
    <3> QED BY <3>1, <3>2
  <2>3. Recorded(more) = [n \in DOMAIN Recorded(more) |-> Recorded(more)[n]]
    BY DEF Recorded
  <2> QED BY <2>1, <2>2, <2>3
<1> QED BY <1>2, <1>3, <1>5, <1>7, <1>8

\* What every command does to the invariant and to what can be undone.
LEMMA Commanded ==
  ASSUME SessionInv, NEW op, NEW q, IsProgrammer(q), NEW undo \in Undos, Apply(op, q, undo)
  PROVE  /\ SessionInv' /\ prog' = q
         /\ Recorded(done') = Append(Recorded(done), IF undo.undo # "selection" THEN <<>>
                                                     ELSE <<Selected(undo.selection)>>)
<1>1. prog' = q /\ done' = Append(done, undo) /\ calls' = calls + 1 /\ calls < MaxCalls
  BY DEF Apply, Used
<1>2. done \in Seq(Undos) /\ calls \in 0 .. MaxCalls /\ Len(done) <= calls
  BY DEF SessionInv
<1>3. done' \in Seq(Undos) /\ Len(done') = Len(done) + 1 /\ Len(done) \in Nat
  BY <1>1, <1>2, AppendProperties
<1>4. calls' \in 0 .. MaxCalls /\ Len(done') <= calls'
  BY <1>1, <1>2, <1>3, BoundsAssumption
<1>5. SessionInv'
  BY <1>1, <1>3, <1>4 DEF SessionInv
<1> QED BY <1>1, <1>2, <1>5, RecordedFacts

\* What every direct call does to it.
LEMMA Called ==
  ASSUME SessionInv, NEW op, NEW q, IsProgrammer(q), Call(op, q)
  PROVE  SessionInv' /\ prog' = q /\ done' = done
<1>1. prog' = q /\ done' = done /\ calls' = calls + 1 /\ calls < MaxCalls
  BY DEF Call, Used
<1>2. done \in Seq(Undos) /\ calls \in 0 .. MaxCalls /\ Len(done) <= calls
  BY DEF SessionInv
<1>3. calls' \in 0 .. MaxCalls /\ Len(done) <= calls' /\ Len(done) \in Nat
  BY <1>1, <1>2, BoundsAssumption
<1> QED BY <1>1, <1>2, <1>3 DEF SessionInv

\* SelectFixturesCommand is Select.
LEMMA SelectStep ==
  ASSUME SessionInv, SelectFixturesCommand
  PROVE  SessionInv' /\ ProgrammedValues!Operation
<1>1. PICK fixtures \in Picks :
        Apply("select", SelectFixtures(prog, fixtures), [undo |-> "selection", selection |-> prog.selection])
  BY DEF SelectFixturesCommand
<1>2. PICK q : q = SelectFixtures(prog, fixtures)
  OBVIOUS
<1>3. IsProgrammer(prog) /\ prog.selection \in Selections /\ fixtures \in Seq(Fixtures)
  BY PicksAssumption DEF SessionInv, IsProgrammer, Programmers
<1>4. /\ IsProgrammer(q) /\ Settled(prog, q) /\ ToSet(fixtures) \subseteq Fixtures
      /\ \/ Selected(q.selection) = ToSet(fixtures)
         \/ /\ Carried(prog) = Nowhere
            /\ Selected(q.selection) = Selected(prog.selection) \cup ToSet(fixtures)
  BY <1>2, <1>3, SelectFixturesFacts
<1>5. PICK undo \in Undos : undo = [undo |-> "selection", selection |-> prog.selection]
  BY <1>3 DEF Undos
<1>6. /\ SessionInv' /\ prog' = q
      /\ Recorded(done') = Append(Recorded(done), <<Selected(prog.selection)>>)
  BY <1>1, <1>2, <1>4, <1>5, Commanded
<1>7. ProgrammedValues!Select(ToSet(fixtures))
  BY <1>4, <1>6 DEF ProgrammedValues!Select, Recorded,
       ProgrammedValues!Settle, ProgrammedValues!Nothing, Settled, ValuesOf, Nowhere
<1> QED BY <1>4, <1>6, <1>7 DEF ProgrammedValues!Operation

\* CallGroupCommand is SelectGroup.
LEMMA GroupStep ==
  ASSUME SessionInv, CallGroupCommand
  PROVE  SessionInv' /\ ProgrammedValues!Operation
<1>1. PICK group \in Groups : Apply("group", SelectGroup(prog, group), NothingToUndo)
  BY DEF CallGroupCommand
<1>2. PICK q : q = SelectGroup(prog, group)
  OBVIOUS
<1>3. IsProgrammer(prog) /\ group \in Selections /\ Selected(group) \subseteq Fixtures
  BY GroupsAssumption, SelectedFacts DEF SessionInv, Selections
<1>4. IsProgrammer(q) /\ Selected(q.selection) = Selected(group) /\ Settled(prog, q)
  BY <1>2, <1>3, SelectGroupFacts
<1>5. NothingToUndo \in Undos /\ NothingToUndo.undo = "nothing"
  BY NoFixturesFacts DEF NothingToUndo, Undos
<1>6. SessionInv' /\ prog' = q /\ Recorded(done') = Append(Recorded(done), <<>>)
  BY <1>1, <1>2, <1>4, <1>5, Commanded
<1>7. ProgrammedValues!SelectGroup(Selected(group))
  BY <1>4, <1>6 DEF ProgrammedValues!SelectGroup, ProgrammedValues!NotUndoable, Recorded,
       ProgrammedValues!Settle, ProgrammedValues!Nothing, Settled, ValuesOf, Nowhere
<1> QED BY <1>3, <1>6, <1>7 DEF ProgrammedValues!Operation

\* ClearProgrammerCommand is Clear.
LEMMA ClearStep ==
  ASSUME SessionInv, ClearProgrammerCommand
  PROVE  SessionInv' /\ ProgrammedValues!Operation
<1>1. PICK q : q = ClearProgrammer(prog) /\ Apply("clear", q, NothingToUndo)
  BY DEF ClearProgrammerCommand
<1>2. /\ IsProgrammer(q) /\ Selected(q.selection) = {}
      /\ IF Selected(prog.selection) # {} THEN Settled(prog, q)
         ELSE Kept(q) = Nowhere /\ Carried(q) = Nowhere
  BY <1>1, ClearProgrammerFacts DEF SessionInv
<1>3. NothingToUndo \in Undos /\ NothingToUndo.undo = "nothing"
  BY NoFixturesFacts DEF NothingToUndo, Undos
<1>4. SessionInv' /\ prog' = q /\ Recorded(done') = Append(Recorded(done), <<>>)
  BY <1>1, <1>2, <1>3, Commanded
<1>5. ProgrammedValues!Clear
  BY <1>2, <1>4 DEF ProgrammedValues!Clear, ProgrammedValues!NotUndoable, Recorded,
       ProgrammedValues!Settle, ProgrammedValues!Nothing, Settled, ValuesOf, Nowhere
<1> QED BY <1>4, <1>5 DEF ProgrammedValues!Operation

\* What both ways to write do.
LEMMA WrittenFacts ==
  ASSUME SessionInv, NEW value \in Values, NEW q, q = WriteControl(prog, value)
  PROVE  /\ IsProgrammer(q) /\ value \in 0 .. Full
         /\ Selected(q.selection) = Selected(prog.selection)
         /\ Kept(q) = Kept(prog) /\ Carried(q) = [f \in Fixtures |-> value]
BY WriteControlFacts, ValuesAssumption DEF SessionInv

\* WriteProgrammerCommand is Write.
LEMMA WriteStep ==
  ASSUME SessionInv, WriteProgrammerCommand
  PROVE  SessionInv' /\ ProgrammedValues!Operation
<1>1. PICK value \in Values : Apply("write", WriteControl(prog, value), NothingToUndo)
  BY DEF WriteProgrammerCommand
<1>2. PICK q : q = WriteControl(prog, value)
  OBVIOUS
<1>3. /\ IsProgrammer(q) /\ value \in 0 .. Full
      /\ Selected(q.selection) = Selected(prog.selection)
      /\ Kept(q) = Kept(prog) /\ Carried(q) = [f \in Fixtures |-> value]
  BY <1>2, WrittenFacts
<1>4. NothingToUndo \in Undos /\ NothingToUndo.undo = "nothing"
  BY NoFixturesFacts DEF NothingToUndo, Undos
<1>5. SessionInv' /\ prog' = q /\ Recorded(done') = Append(Recorded(done), <<>>)
  BY <1>1, <1>2, <1>3, <1>4, Commanded
<1>6. ProgrammedValues!Write(value)
  BY <1>3, <1>5 DEF ProgrammedValues!Write, ProgrammedValues!NotUndoable, Recorded
<1> QED BY <1>3, <1>5, <1>6 DEF ProgrammedValues!Operation

\* WriteDirectly is Write, with nothing to undo.
LEMMA WriteDirectlyStep ==
  ASSUME SessionInv, WriteDirectly
  PROVE  SessionInv' /\ ProgrammedValues!Operation
<1>1. PICK value \in Values : Call("writeDirectly", WriteControl(prog, value))
  BY DEF WriteDirectly
<1>2. PICK q : q = WriteControl(prog, value)
  OBVIOUS
<1>3. /\ IsProgrammer(q) /\ value \in 0 .. Full
      /\ Selected(q.selection) = Selected(prog.selection)
      /\ Kept(q) = Kept(prog) /\ Carried(q) = [f \in Fixtures |-> value]
  BY <1>2, WrittenFacts
<1>4. SessionInv' /\ prog' = q /\ done' = done
  BY <1>1, <1>2, <1>3, Called
<1>5. ProgrammedValues!Write(value)
  BY <1>3, <1>4 DEF ProgrammedValues!Write, Recorded
<1> QED BY <1>3, <1>4, <1>5 DEF ProgrammedValues!Operation

\* CallPresetCommand is CallPreset.
LEMMA PresetStep ==
  ASSUME SessionInv, CallPresetCommand
  PROVE  SessionInv' /\ ProgrammedValues!Operation
<1>1. PICK preset \in Presets : Apply("preset", CallPreset(prog, preset), NothingToUndo)
  BY DEF CallPresetCommand
<1>2. PICK q : q = CallPreset(prog, preset)
  OBVIOUS
<1>3. /\ IsProgrammer(q) /\ Selected(q.selection) = Selected(prog.selection)
      /\ Kept(q) = Kept(prog) /\ Carried(q) \in {Carried(prog), PresetValue[preset]}
  BY <1>2, CallPresetFacts DEF SessionInv
<1>4. NothingToUndo \in Undos /\ NothingToUndo.undo = "nothing"
  BY NoFixturesFacts DEF NothingToUndo, Undos
<1>5. SessionInv' /\ prog' = q /\ Recorded(done') = Append(Recorded(done), <<>>)
  BY <1>1, <1>2, <1>3, <1>4, Commanded
<1>6. ProgrammedValues!CallPreset(preset)
  BY <1>3, <1>5 DEF ProgrammedValues!CallPreset, ProgrammedValues!NotUndoable, Recorded
<1> QED BY <1>5, <1>6 DEF ProgrammedValues!Operation

\* Unselect is Unselect.
LEMMA UnselectStep ==
  ASSUME SessionInv, Unselect
  PROVE  SessionInv' /\ ProgrammedValues!Operation
<1>1. PICK f \in Fixtures : Call("unselect", UnselectFixtures(prog, <<f>>))
  BY DEF Unselect
<1>2. PICK s : s = FoldLeft(RemoveFixture, prog.selection, <<f>>)
  OBVIOUS
<1>3. s \in Selections /\ Selected(s) = Selected(prog.selection) \ {f}
  BY <1>2, RemovingFacts DEF SessionInv, IsProgrammer, Programmers
<1>4. PICK q : q = SetSelection(prog, s)
  OBVIOUS
<1>5. UnselectFixtures(prog, <<f>>) = q
  BY <1>2, <1>4 DEF UnselectFixtures, SetSelection
<1>6. IsProgrammer(q) /\ q.selection = s /\ Same(prog, q)
  BY <1>3, <1>4, SetSelectionFacts DEF SessionInv
<1>7. SessionInv' /\ prog' = q /\ done' = done
  BY <1>1, <1>5, <1>6, Called
<1>8. ProgrammedValues!Unselect(f)
  BY <1>3, <1>6, <1>7 DEF ProgrammedValues!Unselect, Same
<1> QED BY <1>7, <1>8 DEF ProgrammedValues!Operation

\* A command that is not about values is Other.
LEMMA AsideCommanded ==
  ASSUME SessionInv, NEW op, NEW q, Aside(prog, q),
         NEW undo \in Undos, undo.undo # "selection", Apply(op, q, undo)
  PROVE  SessionInv' /\ ProgrammedValues!Operation
<1>1. IsProgrammer(q) /\ Selected(q.selection) = Selected(prog.selection) /\ Same(prog, q)
  BY DEF Aside
<1>2. SessionInv' /\ prog' = q /\ Recorded(done') = Append(Recorded(done), <<>>)
  BY <1>1, Commanded
<1>3. ProgrammedValues!Other
  BY <1>1, <1>2 DEF ProgrammedValues!Other, ProgrammedValues!NotUndoable, Recorded, Same
<1> QED BY <1>2, <1>3 DEF ProgrammedValues!Operation

\* A call that is not about values is none of the abstract steps.
LEMMA AsideCalled ==
  ASSUME SessionInv, NEW op, NEW q, Aside(prog, q), Call(op, q)
  PROVE  SessionInv' /\ UNCHANGED ProgrammedValues!vars
<1>1. IsProgrammer(q) /\ Selected(q.selection) = Selected(prog.selection) /\ Same(prog, q)
  BY DEF Aside
<1>2. SessionInv' /\ prog' = q /\ done' = done
  BY <1>1, Called
<1>3. ValuesOf(q) = ValuesOf(prog)
  <2>1. IsProgrammer(prog)
    BY DEF SessionInv
  <2> QED BY <1>1, <2>1, KeptAndCarried DEF Same
<1>4. UNCHANGED ProgrammedValues!vars
  BY <1>1, <1>2, <1>3 DEF ProgrammedValues!vars, Same, ValuesOf
<1> QED BY <1>2, <1>4

\* Neither is shuffling.
LEMMA ShuffleStep ==
  ASSUME SessionInv, Shuffle
  PROVE  SessionInv' /\ UNCHANGED ProgrammedValues!vars
<1>1. PICK order \in SetToSeqs(Selected(prog.selection)) :
        Call("shuffle", SetSelection(prog, [prog.selection EXCEPT !.fixtures = order]))
  BY DEF Shuffle
<1>2. IsProgrammer(prog) /\ prog.selection \in Selections
  BY DEF SessionInv, IsProgrammer, Programmers
<1>3. order \in Seq(Fixtures) /\ IsInjective(order) /\ ToSet(order) = Selected(prog.selection)
  <2>1. PICK seq \in Seq(Fixtures) : seq = prog.selection.fixtures
    BY <1>2, SelectedFacts
  <2>2. order \in SetToSeqs(ToSet(seq)) /\ Selected(prog.selection) = ToSet(seq)
    BY <2>1 DEF Selected
  <2> QED BY <2>2, ShuffledFacts
<1>4. PICK s : s = [prog.selection EXCEPT !.fixtures = order]
  OBVIOUS
<1>5. s \in Selections /\ Selected(s) = Selected(prog.selection)
  BY <1>2, <1>3, <1>4, SelectionFacts DEF Selected
<1>6. PICK q : q = SetSelection(prog, s)
  OBVIOUS
<1>7. Aside(prog, q)
  BY <1>2, <1>5, <1>6, SetSelectionFacts DEF Aside
<1> QED BY <1>1, <1>4, <1>6, <1>7, AsideCalled

\* What is left when the last command is undone.
LEMMA RecordedFront ==
  ASSUME NEW undos \in Seq(Undos), undos # <<>>
  PROVE  /\ Recorded(Front(undos)) = SubSeq(Recorded(undos), 1, Len(Recorded(undos)) - 1)
         /\ Recorded(undos) # <<>> /\ Len(Recorded(undos)) = Len(undos) /\ Last(undos) \in Undos
         /\ Recorded(undos)[Len(undos)] = IF Last(undos).undo # "selection" THEN <<>>
                                         ELSE <<Selected(Last(undos).selection)>>
         /\ Front(undos) \in Seq(Undos) /\ Len(Front(undos)) <= Len(undos)
<1>1. PICK N : N = Len(undos)
  OBVIOUS
<1>2. N \in Nat \ {0} /\ DOMAIN undos = 1 .. N /\ Last(undos) = undos[N] /\ undos[N] \in Undos
  BY <1>1 DEF Last
<1>3. PICK known : known = Recorded(undos)
  OBVIOUS
<1>4. known = [n \in 1 .. N |-> known[n]] /\ Len(known) = N /\ DOMAIN known = 1 .. N
  BY <1>2, <1>3 DEF Recorded
<1>5. PICK front : front = Front(undos)
  OBVIOUS
<1>6. /\ front \in Seq(Undos) /\ DOMAIN front = 1 .. N - 1 /\ Len(front) = N - 1
      /\ \A n \in 1 .. N - 1 : front[n] = undos[n]
  BY <1>1, <1>2, <1>5 DEF Front
<1>7. SubSeq(known, 1, N - 1) = [n \in 1 .. N - 1 |-> known[n]]
  BY <1>2, <1>4
<1>8. Recorded(front) = [n \in 1 .. N - 1 |-> known[n]]
  <2>1. DOMAIN Recorded(front) = 1 .. N - 1
    BY <1>6 DEF Recorded
  <2>2. \A n \in 1 .. N - 1 : Recorded(front)[n] = known[n]
    BY <1>2, <1>3, <1>6 DEF Recorded
  <2>3. Recorded(front) = [n \in DOMAIN Recorded(front) |-> Recorded(front)[n]]
    BY DEF Recorded
  <2> QED BY <2>1, <2>2, <2>3
<1>9. known[N] = IF Last(undos).undo # "selection" THEN <<>> ELSE <<Selected(Last(undos).selection)>>
  BY <1>2, <1>3 DEF Recorded
<1>10. known # <<>>
  BY <1>2, <1>4
<1>11. Recorded(Front(undos)) = SubSeq(Recorded(undos), 1, Len(Recorded(undos)) - 1)
  BY <1>3, <1>4, <1>5, <1>7, <1>8
<1>12. Front(undos) \in Seq(Undos) /\ Len(Front(undos)) <= Len(undos)
  BY <1>1, <1>2, <1>5, <1>6
<1>13. Recorded(undos) # <<>> /\ Len(Recorded(undos)) = Len(undos) /\ Last(undos) \in Undos
  BY <1>1, <1>2, <1>3, <1>4, <1>10
<1>14. Recorded(undos)[Len(undos)] = IF Last(undos).undo # "selection" THEN <<>>
                                     ELSE <<Selected(Last(undos).selection)>>
  BY <1>1, <1>3, <1>9
<1> QED BY <1>11, <1>12, <1>13, <1>14

\* UndoCommand is Undo.
LEMMA UndoStep ==
  ASSUME SessionInv, UndoCommand
  PROVE  SessionInv' /\ ProgrammedValues!Operation
<1>1. PICK last : last = Last(done)
  OBVIOUS
<1>2. /\ done # <<>> /\ done' = Front(done) /\ calls' = calls + 1 /\ calls < MaxCalls
      /\ prog' = CASE last.undo = "selection" -> SetSelection(prog, last.selection)
                   [] last.undo = "highlight" -> SetHighlight(prog, ~prog.highlight)
                   [] OTHER -> prog
  BY <1>1 DEF UndoCommand, Used
<1>3. /\ IsProgrammer(prog) /\ done \in Seq(Undos) /\ calls \in 0 .. MaxCalls /\ Len(done) <= calls
      /\ MaxCalls \in Nat /\ Len(done) \in Nat
  BY BoundsAssumption DEF SessionInv
<1>4. /\ Recorded(done') = SubSeq(Recorded(done), 1, Len(Recorded(done)) - 1)
      /\ Recorded(done) # <<>> /\ last \in Undos
      /\ Recorded(done)[Len(Recorded(done))] = IF last.undo # "selection" THEN <<>>
                                               ELSE <<Selected(last.selection)>>
      /\ done' \in Seq(Undos) /\ Len(done') <= Len(done) /\ Len(done') \in Nat
  BY <1>1, <1>2, <1>3, RecordedFront
<1>5. PICK q : q = prog'
  OBVIOUS
<1>6. done' \in Seq(Undos) /\ calls' \in 0 .. MaxCalls /\ Len(done') <= calls'
  BY <1>2, <1>3, <1>4
<1>7. CASE last.undo = "selection"
  <2>1. PICK s \in Selections : s = last.selection
    BY <1>4 DEF Undos
  <2>2. q = SetSelection(prog, s)
    BY <1>2, <1>5, <1>7, <2>1
  <2>3. IsProgrammer(q) /\ Selected(q.selection) = Selected(s) /\ Same(prog, q)
    BY <1>3, <2>2, SetSelectionFacts
  <2>4. SessionInv'
    BY <1>5, <1>6, <2>3 DEF SessionInv
  <2>5. PICK top : top = <<Selected(s)>>
    OBVIOUS
  <2>6. top # <<>> /\ top[1] = Selected(s) /\ Recorded(done)[Len(Recorded(done))] = top
    BY <1>4, <1>7, <2>1, <2>5
  <2>7. ProgrammedValues!Undo
    BY <1>4, <1>5, <2>3, <2>6 DEF ProgrammedValues!Undo, Recorded, Same
  <2> QED BY <2>4, <2>7 DEF ProgrammedValues!Operation
<1>8. CASE last.undo # "selection"
  <2>1. Aside(prog, q)
    <3>1. CASE last.undo = "highlight"
      BY <1>2, <1>3, <1>5, <1>8, <3>1, SwitchesAreAside
    <3>2. CASE last.undo # "highlight"
      BY <1>2, <1>3, <1>5, <1>8, <3>2 DEF Aside, Same
    <3> QED BY <3>1, <3>2
  <2>2. SessionInv'
    <3>1. IsProgrammer(q)
      BY <2>1 DEF Aside
    <3> QED BY <1>5, <1>6, <3>1 DEF SessionInv
  <2>3. Recorded(done)[Len(Recorded(done))] = <<>>
    BY <1>4, <1>8
  <2>4. ProgrammedValues!Undo
    BY <1>4, <1>5, <2>1, <2>3 DEF ProgrammedValues!Undo, Recorded, Aside, Same
  <2> QED BY <2>2, <2>4 DEF ProgrammedValues!Operation
<1> QED BY <1>7, <1>8

\* The programmer starts well, with nothing selected and no value.
LEMMA InitStep ==
  ASSUME Init
  PROVE  SessionInv /\ ProgrammedValues!Init
<1>1. prog = NewProgrammer /\ done = <<>> /\ calls = 0
  BY DEF Init
<1>2. IsProgrammer(prog) /\ prog.channels = NoChannels /\ prog.tracked = <<>> /\ Selected(prog.selection) = {}
  <2>1. NoChannels \in ChannelSets /\ NoFixtures \in Selections /\ Selected(NoFixtures) = {}
    BY NoChannelsFacts, NoFixturesFacts
  <2>2. PICK empty : empty = <<>>
    OBVIOUS
  <2>3. empty \in Seq(EntrySet) /\ empty \in Seq([effect : Effects, fixtures : Selections])
    BY <2>2
  <2>4. prog = [highlight |-> FALSE, offline |-> FALSE, selection |-> NoFixtures,
                channels |-> NoChannels, effects |-> empty, tracked |-> empty,
                written |-> FALSE, x |-> 0]
    BY <1>1, <2>2 DEF NewProgrammer, NoX
  <2>5. prog \in Programmers /\ prog.channels = NoChannels /\ prog.selection = NoFixtures
    BY <2>1, <2>3, <2>4 DEF Programmers
  <2> QED BY <2>1, <2>2, <2>4, <2>5 DEF IsProgrammer
<1>3. SessionInv
  BY <1>1, <1>2, BoundsAssumption DEF SessionInv
<1>4. Kept(prog) = Nowhere /\ Carried(prog) = Nowhere
  <2>1. \A f \in Fixtures : ValueIn(<<>>, f) = NoValue
    BY DEF ValueIn, WritesIn
  <2> QED BY <1>2, <2>1, KeptAndCarried DEF Nowhere
<1>5. ValuesOf(prog) = Nowhere
  BY <1>2, <1>4, KeptAndCarried DEF Nowhere
<1>6. ProgrammedValues!Init
  BY <1>1, <1>2, <1>4, <1>5 DEF ProgrammedValues!Init, ProgrammedValues!Nothing, ValuesOf, Nowhere
<1> QED BY <1>3, <1>6

\* After each of them the values are what is kept and carried.
LEMMA OperationIsNext ==
  ASSUME SessionInv', ProgrammedValues!Operation
  PROVE  ProgrammedValues!Next
<1>1. PICK q : q = prog'
  OBVIOUS
<1>2. IsProgrammer(q)
  BY <1>1 DEF SessionInv
<1>3. ValuesOf(q) = [f \in Fixtures |-> IF f \in Selected(q.selection) /\ Carried(q)[f] # NoValue
                                       THEN Carried(q)[f] ELSE Kept(q)[f]]
  BY <1>2, KeptAndCarried
<1> QED BY <1>1, <1>3 DEF ProgrammedValues!Next, ProgrammedValues!Programmed, ValuesOf

\* Every step keeps the invariant and is a step of ProgrammerValues or none.
LEMMA NextStep ==
  ASSUME SessionInv, [Next]_vars
  PROVE  SessionInv' /\ [ProgrammedValues!Next]_(ProgrammedValues!vars)
<1>1. CASE SelectFixturesCommand
  BY <1>1, SelectStep, OperationIsNext
<1>2. CASE CallGroupCommand
  BY <1>2, GroupStep, OperationIsNext
<1>3. CASE ClearProgrammerCommand
  BY <1>3, ClearStep, OperationIsNext
<1>4. CASE WriteProgrammerCommand
  BY <1>4, WriteStep, OperationIsNext
<1>5. CASE CallPresetCommand
  BY <1>5, PresetStep, OperationIsNext
<1>6. CASE CallEffectCommand
  <2>1. PICK effect \in Effects : Apply("effect", CallEffect(prog, effect), NothingToUndo)
    BY <1>6 DEF CallEffectCommand
  <2>2. NothingToUndo \in Undos /\ NothingToUndo.undo # "selection"
    BY NoFixturesFacts DEF NothingToUndo, Undos
  <2>3. Aside(prog, CallEffect(prog, effect))
    BY EffectIsAside DEF SessionInv
  <2> QED BY <2>1, <2>2, <2>3, AsideCommanded, OperationIsNext
<1>7. CASE ToggleHighlightCommand
  <2>1. PICK undo \in Undos : undo = [undo |-> "highlight", selection |-> NoFixtures]
    BY NoFixturesFacts DEF Undos
  <2>2. undo.undo # "selection"
    BY <2>1
  <2>3. Apply("highlight", SetHighlight(prog, ~prog.highlight), undo)
    BY <1>7, <2>1 DEF ToggleHighlightCommand
  <2>4. Aside(prog, SetHighlight(prog, ~prog.highlight))
    BY SwitchesAreAside DEF SessionInv
  <2> QED BY <2>2, <2>3, <2>4, AsideCommanded, OperationIsNext
<1>8. CASE UndoCommand
  BY <1>8, UndoStep, OperationIsNext
<1>9. CASE Unselect
  BY <1>9, UnselectStep, OperationIsNext
<1>10. CASE WriteDirectly
  BY <1>10, WriteDirectlyStep, OperationIsNext
<1>11. CASE SwitchHighlight
  BY <1>11, SwitchesAreAside, AsideCalled DEF SwitchHighlight, SessionInv
<1>12. CASE SwitchOffline
  BY <1>12, SwitchesAreAside, AsideCalled DEF SwitchOffline, SessionInv
<1>13. CASE Arrange
  <2>1. PICK size \in Sizes : \E q \in {SetBlockSize(prog, size), SetGroups(prog, size), SetWings(prog, size)} :
          Call("arrange", q)
    BY <1>13 DEF Arrange
  <2>2. PICK q \in {SetBlockSize(prog, size), SetGroups(prog, size), SetWings(prog, size)} :
          Call("arrange", q)
    BY <2>1
  <2>3. size \in Nat
    BY BoundsAssumption
  <2>4. Aside(prog, q)
    BY <2>3, ArrangingIsAside DEF SessionInv
  <2> QED BY <2>2, <2>4, AsideCalled
<1>14. CASE StepThrough
  <2>1. PICK q \in {NextX(prog), PrevX(prog), AllX(prog)} : Call("step", q)
    BY <1>14 DEF StepThrough
  <2>2. Aside(prog, q)
    BY SteppingIsAside DEF SessionInv
  <2> QED BY <2>1, <2>2, AsideCalled
<1>15. CASE Shuffle
  BY <1>15, ShuffleStep
<1>16. CASE UNCHANGED vars
  <2>1. SessionInv'
    BY <1>16 DEF SessionInv, vars
  <2>2. UNCHANGED ProgrammedValues!vars
    BY <1>16 DEF vars, ProgrammedValues!vars, Kept, Carried
  <2> QED BY <2>1, <2>2
<1> QED BY <1>1, <1>2, <1>3, <1>4, <1>5, <1>6, <1>7, <1>8, <1>9, <1>10, <1>11, <1>12,
           <1>13, <1>14, <1>15, <1>16 DEF Next, Commands, Calls

\* The programmer and what can be undone are of the form the code gives them;
\* no selection holds a fixture twice, and what no write is flagged for is empty.
THEOREM SessionInvariant == Spec => []SessionInv
<1>1. Init => SessionInv
  BY InitStep
<1>2. SessionInv /\ [Next]_vars => SessionInv'
  BY NextStep
<1> QED BY <1>1, <1>2, PTL DEF Spec

\* Every part of the programmer is of its form, active or tracked.
THEOREM StateIsWellFormed == Spec => []TypeOK
<1>1. SessionInv => TypeOK
  <2> SUFFICES ASSUME SessionInv PROVE TypeOK
    OBVIOUS
  <2>1. prog \in Programmers /\ IsProgrammer(prog)
    BY DEF SessionInv, IsProgrammer
  <2>2. prog.highlight \in BOOLEAN /\ prog.offline \in BOOLEAN /\ prog.written \in BOOLEAN /\ prog.x \in Nat
    BY <2>1 DEF Programmers
  <2>3. ASSUME NEW e \in ToSet(Entries(prog))
        PROVE  /\ Selected(e.selection) \subseteq Fixtures /\ IsInjective(e.selection.fixtures)
               /\ e.channels.fader \in Values \cup {NoValue}
               /\ Len(e.channels.presets) <= 1 /\ ToSet(e.channels.presets) \subseteq Presets
    <3>1. PICK entries \in Seq(EntrySet) : entries = Entries(prog)
      BY <2>1, EntriesFacts
    <3>2. e \in EntrySet
      BY <3>1 DEF ToSet
    <3>3. e.selection \in Selections /\ e.channels \in ChannelSets
      BY <3>2 DEF EntrySet
    <3>4. PICK presets \in Seq(Presets) : presets = e.channels.presets
      BY <3>3 DEF ChannelSets
    <3>5. ToSet(presets) \subseteq Presets
      BY DEF ToSet
    <3> QED BY <3>3, <3>4, <3>5, SelectedFacts DEF ChannelSets
  <2>4. calls \in 0 .. MaxCalls /\ Len(done) <= calls
    BY DEF SessionInv
  <2> QED BY <2>2, <2>3, <2>4 DEF TypeOK
<1> QED BY <1>1, SessionInvariant, PTL

\* However it is blocked, dealt into groups and folded into wings, the
\* selection reaches each of its fixtures, once.
THEOREM ArrangementsKeepTheFixtures == Spec => []ArrangementKeepsFixtures
<1>1. SessionInv => ArrangementKeepsFixtures
  <2> SUFFICES ASSUME SessionInv PROVE ArrangementKeepsFixtures
    OBVIOUS
  <2>1. PICK s \in Selections : s = prog.selection
    BY DEF SessionInv, IsProgrammer, Programmers
  <2>2. /\ s.fixtures \in Seq(Fixtures) /\ IsInjective(s.fixtures)
        /\ s.block \in Nat /\ s.groups \in Nat /\ s.wings \in Nat
    BY DEF Selections
  <2>3. IsInjective(FlattenSeq(GetFixtures(s))) /\ ToSet(FlattenSeq(GetFixtures(s))) = Selected(s)
    BY <2>2, ArrangingKeeps
  <2> QED BY <2>1, <2>3 DEF ArrangementKeepsFixtures
<1> QED BY <1>1, SessionInvariant, PTL

\* Fixtures with a programmed value are among those the surface shows as tracked.
THEOREM ProgrammedFixturesAreTracked == Spec => []ProgrammedIsTracked
<1>1. SessionInv => ProgrammedIsTracked
  BY TrackingFacts DEF SessionInv, ProgrammedIsTracked
<1> QED BY <1>1, SessionInvariant, PTL

\* The programmer does what ProgrammerValues promises: a value that was written
\* goes with the selection, wherever unselecting and undoing take it, until
\* something else is selected or the selection is cleared; from then on it stays
\* with the fixtures that were selected at that moment.
THEOREM ValuesStayWithTheirFixtures == Spec => ImplementsProgrammerValues
<1>1. Init => SessionInv /\ ProgrammedValues!Init
  BY InitStep
<1>2. SessionInv /\ [Next]_vars => SessionInv' /\ [ProgrammedValues!Next]_(ProgrammedValues!vars)
  BY NextStep
<1> QED BY <1>1, <1>2, PTL DEF Spec, ImplementsProgrammerValues, ProgrammedValues!Spec

=============================================================================
