------------------------- MODULE FixtureOutputProofs -------------------------
(***************************************************************************)
(* Proofs about what the fixtures send, for every set of fixtures,         *)
(* sequences, effects and operations, however calls fall between the steps *)
(* of a frame: the programmer has the last word and nothing nobody asked   *)
(* for is left behind.                                                     *)
(***************************************************************************)
EXTENDS FixtureOutput, ProgrammerProofs

-----------------------------------------------------------------------------
(* What is written to a channel *)

Sources == {NoSource} \cup {s.source : s \in Sequences}

\* What is written in a frame.
Writings ==
  [priority : LTP \cup {HTP, Programmed, Highlight}, value : 0 .. Full,
   source : Sources, fadeOut : Nat]

\* Fixture::set_to_default
Default == [priority |-> Lowest, value |-> 0, source |-> NoSource, fadeOut |-> NoFadeOut]

IsRecord(c) ==
  c = [master |-> c.master, values |-> c.values, previous |-> c.previous,
       fade |-> c.fade, value |-> c.value, flushed |-> c.flushed]

\* A channel that has something to flush.
IsChannel(c) == IsRecord(c) /\ c.values \in Seq(Writings) /\ c.flushed = FALSE

\* The values of a channel as the programmer wants them: highlighted if the
\* fixture is lit, with this value if it has one, and nothing else at those ranks.
HasRanks(values, value, lit) ==
  /\ \A n \in DOMAIN values :
       /\ values[n].priority = Highlight => lit /\ values[n].value = Full
       /\ values[n].priority = Programmed => value # NoValue /\ values[n].value = value
  /\ lit => \E n \in DOMAIN values : values[n].priority = Highlight
  /\ value # NoValue => \E n \in DOMAIN values : values[n].priority = Programmed

\* The value that Insert appends.
Writing(value, priority, source, fadeOut) ==
  [priority |-> priority, value |-> value, source |-> source, fadeOut |-> fadeOut]

\* Inserting appends to the values and leaves something to flush.
LEMMA InsertFacts ==
  ASSUME NEW value, NEW priority, NEW source, NEW fadeOut, NEW c, IsRecord(c),
         c.values \in Seq(Writings), Writing(value, priority, source, fadeOut) \in Writings
  PROVE  /\ IsChannel(Insert(c, value, priority, source, fadeOut))
         /\ Insert(c, value, priority, source, fadeOut).values =
              Append(c.values, Writing(value, priority, source, fadeOut))
         /\ Insert(c, value, priority, source, fadeOut).fade = c.fade
<1> DEFINE w == Writing(value, priority, source, fadeOut)
           d == Insert(c, value, priority, source, fadeOut)
<1>1. d = [master |-> c.master, values |-> Append(c.values, w), previous |-> c.previous,
           fade |-> c.fade, value |-> c.value, flushed |-> FALSE]
  <2>1. PICK master, values, previous, fade, level, flushed :
          c = [master |-> master, values |-> values, previous |-> previous,
               fade |-> fade, value |-> level, flushed |-> flushed]
    BY DEF IsRecord
  <2>2. d = [c EXCEPT !.flushed = FALSE, !.values = Append(c.values, w)]
    BY DEF Insert, Writing
  <2> HIDE DEF d, w
  <2> QED BY <2>1, <2>2
<1>2. Append(c.values, w) \in Seq(Writings)
  BY AppendProperties
<1> HIDE DEF d, w
<1>3. IsChannel(d) /\ d.values = Append(c.values, w) /\ d.fade = c.fade
  BY <1>1, <1>2 DEF IsChannel, IsRecord
<1> QED BY <1>3 DEF d, w

\* A value of another rank changes nothing about the ranks of the programmer.
LEMMA RanksKept ==
  ASSUME NEW values \in Seq(Writings), NEW value, NEW lit, HasRanks(values, value, lit),
         NEW w \in Writings, w.priority \notin {Programmed, Highlight}
  PROVE  HasRanks(Append(values, w), value, lit)
<1> PICK more : more = Append(values, w)
  OBVIOUS
<1> PICK N : N = Len(values)
  OBVIOUS
<1>1. /\ N \in Nat /\ DOMAIN values = 1 .. N /\ DOMAIN more = 1 .. N + 1
      /\ more[N + 1] = w /\ \A n \in 1 .. N : more[n] = values[n]
  OBVIOUS
<1>2. ASSUME NEW n \in 1 .. N + 1
      PROVE  /\ more[n].priority = Highlight => lit /\ more[n].value = Full
             /\ more[n].priority = Programmed => value # NoValue /\ more[n].value = value
  <2>1. CASE n = N + 1
    BY <1>1, <2>1
  <2>2. CASE n # N + 1
    <3>1. n \in 1 .. N
      BY <1>1, <2>2
    <3> QED BY <1>1, <3>1 DEF HasRanks
  <2> QED BY <2>1, <2>2
<1>3. ASSUME NEW priority, \E n \in DOMAIN values : values[n].priority = priority
      PROVE  \E n \in DOMAIN more : more[n].priority = priority
  <2> PICK n \in DOMAIN values : values[n].priority = priority
    BY <1>3
  <2>1. n \in 1 .. N + 1
    BY <1>1
  <2> QED BY <1>1, <2>1
<1> QED BY <1>1, <1>2, <1>3 DEF HasRanks

\* The programmer's own value gives the channel that rank.
LEMMA RankGiven ==
  ASSUME NEW values \in Seq(Writings), NEW value, HasRanks(values, NoValue, FALSE),
         NEW w \in Writings, w.priority = Programmed, w.value = value, value # NoValue
  PROVE  HasRanks(Append(values, w), value, FALSE)
<1> PICK more : more = Append(values, w)
  OBVIOUS
<1> PICK N : N = Len(values)
  OBVIOUS
<1>1. /\ N \in Nat /\ DOMAIN values = 1 .. N /\ DOMAIN more = 1 .. N + 1
      /\ more[N + 1] = w /\ \A n \in 1 .. N : more[n] = values[n]
  OBVIOUS
<1>2. ASSUME NEW n \in 1 .. N + 1
      PROVE  /\ more[n].priority # Highlight
             /\ more[n].priority = Programmed => more[n].value = value
  <2>1. CASE n = N + 1
    BY <1>1, <2>1 DEF Programmed, Highlight
  <2>2. CASE n # N + 1
    <3>1. n \in 1 .. N
      BY <1>1, <2>2
    <3> QED BY <1>1, <3>1 DEF HasRanks
  <2> QED BY <2>1, <2>2
<1>3. N + 1 \in DOMAIN more /\ more[N + 1].priority = Programmed
  BY <1>1
<1> QED BY <1>1, <1>2, <1>3 DEF HasRanks

\* The highlight gives the channel that rank and keeps the other.
LEMMA HighlightGiven ==
  ASSUME NEW values \in Seq(Writings), NEW value, HasRanks(values, value, FALSE),
         NEW w \in Writings, w.priority = Highlight, w.value = Full
  PROVE  HasRanks(Append(values, w), value, TRUE)
<1> PICK more : more = Append(values, w)
  OBVIOUS
<1> PICK N : N = Len(values)
  OBVIOUS
<1>1. /\ N \in Nat /\ DOMAIN values = 1 .. N /\ DOMAIN more = 1 .. N + 1
      /\ more[N + 1] = w /\ \A n \in 1 .. N : more[n] = values[n]
  OBVIOUS
<1>2. ASSUME NEW n \in 1 .. N + 1
      PROVE  /\ more[n].priority = Highlight => more[n].value = Full
             /\ more[n].priority = Programmed => value # NoValue /\ more[n].value = value
  <2>1. CASE n = N + 1
    BY <1>1, <2>1 DEF Programmed, Highlight
  <2>2. CASE n # N + 1
    <3>1. n \in 1 .. N
      BY <1>1, <2>2
    <3> QED BY <1>1, <3>1 DEF HasRanks
  <2> QED BY <2>1, <2>2
<1>3. N + 1 \in DOMAIN more /\ more[N + 1].priority = Highlight
  BY <1>1
<1>4. ASSUME value # NoValue PROVE \E n \in DOMAIN more : more[n].priority = Programmed
  <2> PICK n \in DOMAIN values : values[n].priority = Programmed
    BY <1>4 DEF HasRanks
  <2>1. n \in 1 .. N + 1
    BY <1>1
  <2> QED BY <1>1, <2>1
<1> QED BY <1>1, <1>2, <1>3, <1>4 DEF HasRanks

-----------------------------------------------------------------------------
(* The steps of a frame, for one fixture *)

\* What the programmer writes.
LEMMA ProgrammedWrites ==
  ASSUME NEW c, IsChannel(c), HasRanks(c.values, NoValue, FALSE),
         NEW value, value \in (0 .. Full) \cup {NoValue},
         NEW d, d = WriteProgrammed(c, value)
  PROVE  /\ IsChannel(d) /\ HasRanks(d.values, value, FALSE) /\ d.fade = c.fade
         /\ value = NoValue => d = c
<1>1. CASE value = NoValue
  BY <1>1 DEF WriteProgrammed
<1>2. CASE value # NoValue
  <2>1. d = Insert(c, value, Programmed, NoSource, NoFadeOut)
    BY <1>2 DEF WriteProgrammed
  <2>2. PICK w \in Writings : w = Writing(value, Programmed, NoSource, NoFadeOut)
    BY <1>2 DEF Writing, Writings, Sources, NoFadeOut
  <2>3. IsRecord(c) /\ c.values \in Seq(Writings)
    BY DEF IsChannel
  <2>4. IsChannel(d) /\ d.values = Append(c.values, w) /\ d.fade = c.fade
    BY <2>1, <2>2, <2>3, InsertFacts
  <2>5. w.priority = Programmed /\ w.value = value
    BY <2>2 DEF Writing
  <2> QED BY <1>2, <2>3, <2>4, <2>5, RankGiven
<1> QED BY <1>1, <1>2

\* What the highlight writes.
LEMMA HighlightWrites ==
  ASSUME NEW c, IsChannel(c), NEW value, HasRanks(c.values, value, FALSE),
         NEW lit \in BOOLEAN, NEW d, d = WriteHighlight(c, lit)
  PROVE  /\ IsChannel(d) /\ HasRanks(d.values, value, lit) /\ d.fade = c.fade
         /\ ~lit => d = c
<1>1. CASE ~lit
  BY <1>1 DEF WriteHighlight
<1>2. CASE lit
  <2>1. d = Insert(c, Full, Highlight, NoSource, NoFadeOut)
    BY <1>2 DEF WriteHighlight
  <2>2. PICK w \in Writings : w = Writing(Full, Highlight, NoSource, NoFadeOut)
    <3>1. Writing(Full, Highlight, NoSource, NoFadeOut) \in Writings
      BY DEF Writing, Writings, Sources, NoFadeOut, Full
    <3> QED BY <3>1
  <2>3. IsRecord(c) /\ c.values \in Seq(Writings)
    BY DEF IsChannel
  <2>4. IsChannel(d) /\ d.values = Append(c.values, w) /\ d.fade = c.fade
    BY <2>1, <2>2, <2>3, InsertFacts
  <2>5. w.priority = Highlight /\ w.value = Full
    BY <2>2 DEF Writing
  <2>6. HasRanks(d.values, value, TRUE)
    BY <2>3, <2>4, <2>5, HighlightGiven
  <2> QED BY <1>2, <2>4, <2>6
<1> QED BY <1>1, <1>2

\* A channel that holds the default has nothing at the programmer's ranks.
LEMMA DefaultFacts ==
  Default \in Writings /\ <<Default>> \in Seq(Writings) /\ HasRanks(<<Default>>, NoValue, FALSE)
<1>1. Default \in Writings
  BY DEF Default, Writings, Sources, LTP, Lowest, NoFadeOut, Full
<1>2. Default.priority # Programmed /\ Default.priority # Highlight
  BY DEF Default, Lowest, Programmed, Highlight
<1>3. HasRanks(<<Default>>, NoValue, FALSE)
  BY <1>2 DEF HasRanks
<1>4. <<Default>> \in Seq(Writings)
  BY <1>1
<1> QED BY <1>1, <1>3, <1>4

\* Adding a sequence's value, if the fixture is one of its cue's.
LEMMA SequenceWrites ==
  ASSUME NEW c, IsChannel(c), NEW s \in Sequences, NEW f,
         NEW value, NEW lit, HasRanks(c.values, value, lit),
         NEW d, d = WriteSequence(c, s, f)
  PROVE  /\ IsChannel(d) /\ HasRanks(d.values, value, lit) /\ d.fade = c.fade
         /\ f \notin s.fixtures => d = c
<1>1. CASE f \notin s.fixtures
  BY <1>1 DEF WriteSequence
<1>2. CASE f \in s.fixtures
  <2>1. d = Insert(c, s.value, s.priority, s.source, s.fadeOut)
    BY <1>2 DEF WriteSequence
  <2>2. PICK w \in Writings : w = Writing(s.value, s.priority, s.source, s.fadeOut)
    BY SequencesAssumption DEF Writing, Writings, Sources
  <2>3. w.priority \notin {Programmed, Highlight}
    <3>1. s.priority \in LTP \cup {HTP} /\ w.priority = s.priority
      BY <2>2, SequencesAssumption DEF Writing
    <3> QED BY <3>1 DEF LTP, HTP, Lowest, Programmed, Highlight
  <2>4. IsRecord(c) /\ c.values \in Seq(Writings)
    BY DEF IsChannel
  <2>5. IsChannel(d) /\ d.values = Append(c.values, w) /\ d.fade = c.fade
    BY <2>1, <2>2, <2>4, InsertFacts
  <2>6. HasRanks(d.values, value, lit)
    BY <2>3, <2>4, <2>5, RanksKept
  <2> QED BY <1>2, <2>5, <2>6
<1> QED BY <1>1, <1>2

\* The function that writes sequence after sequence.
IsWriting(iter, base, f, N) ==
  iter = [S \in SUBSET (1 .. N) |->
            IF S = {} THEN base ELSE WriteSequence(iter[S \ {Max(S)}], playing[Max(S)], f)]

\* That function exists, for any number of sequences.
LEMMA WritingExists ==
  ASSUME NEW base, NEW f, NEW N \in Nat
  PROVE  \E iter : IsWriting(iter, base, f, N)
<1> DEFINE Bad == {n \in Nat : ~\E iter : IsWriting(iter, base, f, n)}
<1>1. ASSUME Bad # {} PROVE FALSE
  <2>1. PICK n \in Bad : \A k \in Bad : n <= k
    <3>1. Bad \subseteq Nat
      OBVIOUS
    <3> HIDE DEF Bad
    <3> QED BY <1>1, <3>1, LeastNumber
  <2>2. CASE n = 0
    <3> DEFINE iter == [s \in SUBSET (1 .. 0) |-> base]
    <3>1. \A s \in SUBSET (1 .. 0) : s = {}
      OBVIOUS
    <3>2. IsWriting(iter, base, f, 0)
      BY <3>1 DEF IsWriting
    <3> QED BY <2>2, <3>2
  <2>3. CASE n # 0
    <3>1. n \in Nat /\ n - 1 \in Nat /\ n - 1 \notin Bad
      BY <2>1, <2>3
    <3>2. PICK iter : IsWriting(iter, base, f, n - 1)
      BY <3>1
    <3> DEFINE next == [s \in SUBSET (1 .. n) |->
                          IF n \in s THEN WriteSequence(iter[s \ {n}], playing[n], f) ELSE iter[s]]
    <3>3. ASSUME NEW s \in SUBSET (1 .. n)
          PROVE  next[s] = IF s = {} THEN base ELSE WriteSequence(next[s \ {Max(s)}], playing[Max(s)], f)
      <4>1. s \subseteq 0 .. n /\ s \in SUBSET (1 .. n) /\ n \notin s => s \in SUBSET (1 .. n - 1)
        BY <3>1
      <4>2. CASE s = {}
        <5>1. iter[s] = base
          BY <4>2, <3>2 DEF IsWriting
        <5> QED BY <4>2, <5>1
      <4>3. CASE n \in s
        <5>1. Max(s) = n
          <6>3. s # {} /\ s \subseteq 0 .. n
            BY <4>1, <4>3
          <6>1. Max(s) \in s /\ Max(s) >= n
            BY <3>1, <6>3, <4>3, Greatest
          <6>2. Max(s) \in 1 .. n
            BY <6>1
          <6> QED BY <3>1, <6>1, <6>2
        <5>2. s \ {n} \in SUBSET (1 .. n) /\ n \notin s \ {n} /\ s # {}
          BY <4>3
        <5>3. next[s \ {n}] = iter[s \ {n}] /\ next[s] = WriteSequence(iter[s \ {n}], playing[n], f)
          BY <5>2, <4>3
        <5> QED BY <5>1, <5>2, <5>3
      <4>4. CASE n \notin s /\ s # {}
        <5>1. Max(s) \in s
          <6>1. s # {} /\ s \subseteq 0 .. n
            BY <4>1, <4>4
          <6> QED BY <3>1, <6>1, Greatest
        <5>4. s \in SUBSET (1 .. n - 1)
          BY <4>1, <4>4
        <5>2. iter[s] = WriteSequence(iter[s \ {Max(s)}], playing[Max(s)], f)
          BY <5>1, <5>4, <4>4, <3>2 DEF IsWriting
        <5>3. next[s \ {Max(s)}] = iter[s \ {Max(s)}] /\ next[s] = iter[s]
          BY <4>4
        <5> QED BY <5>2, <5>3, <4>4
      <4> QED BY <4>2, <4>3, <4>4
    <3>4. next = [s \in SUBSET (1 .. n) |-> next[s]]
      OBVIOUS
    <3>5. IsWriting(next, base, f, n)
      <4> HIDE DEF next
      <4> QED BY <3>3, <3>4 DEF IsWriting
    <3> QED BY <3>5
  <2> QED BY <2>2, <2>3
<1> QED BY <1>1

\* The channel after the sequences is what that function gives for all of them.
LEMMA SequencesFold ==
  ASSUME NEW X, playing \in Seq(X), NEW base, NEW f
  PROVE  \E iter : /\ IsWriting(iter, base, f, Len(playing))
                   /\ WriteSequences(base, f) = iter[1 .. Len(playing)]
<1> DEFINE N == Len(playing)
<1>0. N \in Nat /\ DOMAIN playing = 1 .. N
  OBVIOUS
<1> HIDE DEF N
<1>1. PICK iter : iter = CHOOSE g : IsWriting(g, base, f, N)
  OBVIOUS
<1>2. IsWriting(iter, base, f, N)
  BY <1>0, <1>1, WritingExists
<1>3. WriteSequences(base, f) = iter[1 .. N]
  BY <1>0, <1>1 DEF WriteSequences, FoldLeft, MapThenFoldSet, IsWriting
<1> QED BY <1>2, <1>3 DEF N

\* The channel after the first n sequences: as the programmer wants it, and
\* unchanged if none of them writes to the fixture.
Played(c, base, value, lit, f, n) ==
  /\ IsChannel(c) /\ HasRanks(c.values, value, lit) /\ c.fade = base.fade
  /\ (\A k \in 1 .. n : f \notin playing[k].fixtures) => c = base

\* What the sequences write.
LEMMA SequencesWrite ==
  ASSUME playing \in Seq(Sequences), NEW base, IsChannel(base), NEW f,
         NEW value, NEW lit, HasRanks(base.values, value, lit)
  PROVE  Played(WriteSequences(base, f), base, value, lit, f, Len(playing))
<1> DEFINE N == Len(playing)
<1>1. N \in Nat /\ \A k \in 1 .. N : playing[k] \in Sequences
  OBVIOUS
<1>2. PICK iter : /\ IsWriting(iter, base, f, N)
                  /\ WriteSequences(base, f) = iter[1 .. N]
  BY SequencesFold
<1> HIDE DEF N
<1> DEFINE Bad == {n \in 0 .. N : ~Played(iter[1 .. n], base, value, lit, f, n)}
<1>3. ASSUME Bad # {} PROVE FALSE
  <2>1. PICK n \in Bad : \A k \in Bad : n <= k
    <3>1. Bad \subseteq Nat
      BY <1>1
    <3> HIDE DEF Bad
    <3> QED BY <1>3, <3>1, LeastNumber
  <2>2. n \in 0 .. N /\ ~Played(iter[1 .. n], base, value, lit, f, n)
    OBVIOUS
  <2> HIDE DEF Bad
  <2>3. CASE n = 0
    <3>1. 1 .. n = {}
      BY <2>3
    <3>2. iter[{}] = base
      BY <1>2 DEF IsWriting
    <3> QED BY <2>2, <3>1, <3>2 DEF Played
  <2>4. CASE n # 0
    <3>1. n \in 1 .. N /\ n - 1 \in 0 .. N /\ ~(n <= n - 1)
      BY <1>1, <2>2, <2>4
    <3>2. Played(iter[1 .. n - 1], base, value, lit, f, n - 1)
      <4>1. n - 1 \notin Bad
        BY <2>1, <3>1
      <4> QED BY <3>1, <4>1 DEF Bad
    <3>3. Max(1 .. n) = n /\ (1 .. n) \ {n} = 1 .. n - 1 /\ 1 .. n # {} /\ 1 .. n \in SUBSET (1 .. N)
      <4>0. n \in Nat /\ n >= 1
        BY <1>1, <3>1
      <4>1. n \in 1 .. n /\ 1 .. n # {} /\ 1 .. n \subseteq 0 .. n
        <5>1. n \in 1 .. n
          BY <4>0
        <5>2. 1 .. n \subseteq 0 .. n
          BY <4>0
        <5> QED BY <5>1, <5>2
      <4>2. Max(1 .. n) \in 1 .. n /\ Max(1 .. n) >= n
        BY <4>0, <4>1, Greatest
      <4>3. Max(1 .. n) = n
        BY <4>0, <4>2
      <4> QED BY <1>1, <3>1, <4>1, <4>3
    <3>4. iter[1 .. n] = WriteSequence(iter[1 .. n - 1], playing[n], f)
      BY <1>2, <3>3 DEF IsWriting
    <3>5. PICK before, after : before = iter[1 .. n - 1] /\ after = iter[1 .. n]
      OBVIOUS
    <3>6. PICK s \in Sequences : s = playing[n]
      BY <1>1, <3>1
    <3>7. IsChannel(before) /\ HasRanks(before.values, value, lit) /\ before.fade = base.fade
      BY <3>2, <3>5 DEF Played
    <3>8. /\ IsChannel(after) /\ HasRanks(after.values, value, lit) /\ after.fade = before.fade
          /\ f \notin s.fixtures => after = before
      <4>1. after = WriteSequence(before, s, f)
        BY <3>4, <3>5, <3>6
      <4> QED BY <3>7, <4>1, SequenceWrites
    <3>9. ASSUME \A k \in 1 .. n : f \notin playing[k].fixtures PROVE after = base
      <4>1. n \in 1 .. n /\ \A k \in 1 .. n - 1 : k \in 1 .. n
        BY <3>1
      <4>2. before = base
        BY <3>2, <3>5, <3>9, <4>1 DEF Played
      <4> QED BY <3>6, <3>8, <3>9, <4>1, <4>2
    <3> QED BY <2>2, <3>5, <3>7, <3>8, <3>9 DEF Played
  <2> QED BY <2>3, <2>4
<1>4. Played(iter[1 .. N], base, value, lit, f, N)
  <2>1. N \in 0 .. N
    BY <1>1
  <2> QED BY <1>3, <2>1
<1> QED BY <1>2, <1>4 DEF N

\* What an effect writes to a fixture of its own.
LEMMA EffectWrites ==
  ASSUME NEW c, IsChannel(c), NEW value, NEW lit, HasRanks(c.values, value, lit),
         NEW d, d = Insert(c, EffectValue, Normal, NoSource, NoFadeOut)
  PROVE  IsChannel(d) /\ HasRanks(d.values, value, lit) /\ d.fade = c.fade
<1>1. PICK w \in Writings : w = Writing(EffectValue, Normal, NoSource, NoFadeOut)
  <2>1. Normal \in LTP /\ NoFadeOut \in Nat /\ EffectValue \in 0 .. Full
    BY LevelsAssumption DEF Normal, LTP, Lowest, NoFadeOut
  <2>2. Writing(EffectValue, Normal, NoSource, NoFadeOut) \in Writings
    BY <2>1 DEF Writing, Writings, Sources
  <2> QED BY <2>2
<1>2. w.priority \notin {Programmed, Highlight}
  BY <1>1 DEF Writing, Normal, Programmed, Highlight
<1>3. IsRecord(c) /\ c.values \in Seq(Writings)
  BY DEF IsChannel
<1>4. IsChannel(d) /\ d.values = Append(c.values, w) /\ d.fade = c.fade
  BY <1>1, <1>3, InsertFacts
<1> QED BY <1>2, <1>3, <1>4, RanksKept

-----------------------------------------------------------------------------
(* What is sent *)

\* The first of the places of a rank is one of them.
LEMMA FirstPlace ==
  ASSUME NEW values \in Seq(Writings), NEW priority, Places(values, {priority}) # {}
  PROVE  /\ Min(Places(values, {priority})) \in DOMAIN values
         /\ values[Min(Places(values, {priority}))].priority = priority
<1> PICK S : S = Places(values, {priority})
  OBVIOUS
<1>1. S \subseteq Nat /\ S # {}
  <2>1. DOMAIN values = 1 .. Len(values) /\ Len(values) \in Nat
    OBVIOUS
  <2> QED BY <2>1 DEF Places
<1>2. \E m \in S : \A n \in S : m <= n
  BY <1>1, LeastNumber
<1>3. Min(S) \in S
  BY <1>2 DEF Min
<1>4. \A n \in S : n \in DOMAIN values /\ values[n].priority = priority
  BY DEF Places
<1> QED BY <1>3, <1>4

\* Highlight comes first: neither the fade nor the master matters.
LEMMA HighlightIsSent ==
  ASSUME NEW c, c.values \in Seq(Writings), NEW value, NEW lit, HasRanks(c.values, value, lit), lit
  PROVE  Sent(c) = Full
<1> PICK values \in Seq(Writings) : values = c.values
  OBVIOUS
<1>1. Places(values, {Highlight}) # {}
  BY DEF HasRanks, Places
<1>2. Sent(c) = values[Min(Places(values, {Highlight}))].value
  BY <1>1 DEF Sent, FirstOf
<1>3. values[Min(Places(values, {Highlight}))].value = Full
  BY <1>1, FirstPlace DEF HasRanks
<1> QED BY <1>2, <1>3

\* Then comes the programmer: neither the fade nor the master matters.
LEMMA ValueIsSent ==
  ASSUME NEW c, c.values \in Seq(Writings), NEW value, HasRanks(c.values, value, FALSE),
         value # NoValue
  PROVE  Sent(c) = value
<1> PICK values \in Seq(Writings) : values = c.values
  OBVIOUS
<1>1. Places(values, {Highlight}) = {} /\ Places(values, {Programmed}) # {}
  BY DEF HasRanks, Places
<1>2. Sent(c) = values[Min(Places(values, {Programmed}))].value
  BY <1>1 DEF Sent, FirstOf
<1>3. values[Min(Places(values, {Programmed}))].value = value
  BY <1>1, FirstPlace DEF HasRanks
<1> QED BY <1>2, <1>3

\* A channel that holds nothing but the default asks for darkness.
LEMMA NothingAskedFor == AskedFor(<<Default>>) = 0
<1> PICK values : values = <<Default>>
  OBVIOUS
<1>1. DOMAIN values = {1} /\ values[1] = Default
  OBVIOUS
<1>2. Default.priority = 0 /\ Default.value = 0
  BY DEF Default, Lowest
<1>3. Places(values, LTP) = {1} /\ Places(values, {HTP}) = {}
  BY <1>1, <1>2 DEF Places, LTP, Lowest, HTP
<1>4. Highest(values, {1}, LAMBDA v : v.priority) = 0
  <2>1. {n \in {1} : \A m \in {1} : values[m].priority <= values[n].priority} = {1}
    BY <1>1, <1>2
  <2>2. Max({1}) = 1
    BY DEF Max
  <2> QED BY <1>1, <1>2, <2>1, <2>2 DEF Highest
<1>5. AskedFor(values) = 0
  BY <1>3, <1>4 DEF AskedFor
<1> QED BY <1>5

\* There is no fade, or one.
IsFade(fade) == fade = NotFading \/ fade = <<fade[1]>>

\* Flushing decides the value and the fade, and leaves what was written.
LEMMA FlushFacts ==
  ASSUME NEW c, IsChannel(c), IsFade(c.fade), NEW master,
         NEW d, d = Flush(SetMaster(c, master))
  PROVE  /\ IsRecord(d) /\ d.values = c.values /\ d.master = master /\ IsFade(d.fade)
         /\ d.fade = NotFading => d.value = AskedFor(c.values)
<1>1. PICK b : b = SetMaster(c, master)
  OBVIOUS
<1>2. b = [master |-> master, values |-> c.values, previous |-> c.previous,
           fade |-> c.fade, value |-> c.value, flushed |-> FALSE]
  <2>1. PICK m, values, previous, fade, level, flushed :
          c = [master |-> m, values |-> values, previous |-> previous,
               fade |-> fade, value |-> level, flushed |-> flushed]
    BY DEF IsChannel, IsRecord
  <2>2. c.flushed = FALSE
    BY DEF IsChannel
  <2> QED BY <1>1, <2>1, <2>2 DEF SetMaster
<1>3. IsFade(NextFade(b))
  BY <1>2 DEF NextFade, IsFade, FadeFrom
<1> DEFINE next == NextFade(b)
           wanted == AskedFor(b.values)
           runs == next # NotFading /\ next[1].age < next[1].duration
           faded == Faded(next[1], IF wanted = NoValue THEN 0 ELSE wanted)
<1>4. d = [b EXCEPT !.flushed = TRUE, !.fade = IF runs THEN next ELSE NotFading,
                    !.value = IF runs THEN faded ELSE wanted]
  <2>1. b.flushed = FALSE
    BY <1>2
  <2> QED BY <1>1, <2>1 DEF Flush
<1>5. ASSUME NEW fade, NEW value, d = [b EXCEPT !.flushed = TRUE, !.fade = fade, !.value = value]
      PROVE  IsRecord(d) /\ d.values = c.values /\ d.master = master /\ d.fade = fade /\ d.value = value
  BY <1>2, <1>5 DEF IsRecord
<1>6. CASE runs
  <2>1. next # NotFading
    BY <1>6
  <2>2. d = [b EXCEPT !.flushed = TRUE, !.fade = next, !.value = faded]
    BY <1>4, <1>6
  <2> HIDE DEF next, faded
  <2> QED BY <1>3, <1>5, <2>1, <2>2 DEF next
<1>7. CASE ~runs
  <2>1. d = [b EXCEPT !.flushed = TRUE, !.fade = NotFading, !.value = wanted]
    BY <1>4, <1>7
  <2>2. wanted = AskedFor(c.values)
    BY <1>2
  <2> HIDE DEF wanted
  <2>3. IsRecord(d) /\ d.values = c.values /\ d.master = master /\ d.fade = NotFading /\ d.value = wanted
    BY <1>5, <2>1
  <2> QED BY <2>2, <2>3 DEF IsFade
<1> QED BY <1>6, <1>7

\* A channel nobody wrote to sends nothing, unless it fades out.
LEMMA SentDark ==
  ASSUME NEW c, IsRecord(c), c.values = <<Default>>, c.master \in 0 .. Full, c.value = 0
  PROVE  Sent(c) = 0
<1>1. DOMAIN c.values = {1} /\ c.values[1] = Default /\ Default.priority = 0
  BY DEF Default, Lowest
<1>2. Places(c.values, {Highlight}) = {} /\ Places(c.values, {Programmed}) = {}
  BY <1>1 DEF Places, Highlight, Programmed
<1>3. Sent(c) = Scaled(c, 0)
  BY <1>2 DEF Sent
<1>4. Scaled(c, 0) = (0 * c.master) \div Full
  BY DEF Scaled, NoValue, Full
<1>5. (0 * c.master) \div Full = 0
  BY DEF Full
<1> QED BY <1>3, <1>4, <1>5

\* The default is written like everything else.
LEMMA DefaultWrites ==
  ASSUME NEW b, IsRecord(b), b.values \in Seq(Writings),
         NEW e, e = Insert(b, 0, Lowest, NoSource, NoFadeOut)
  PROVE  IsChannel(e) /\ e.values = Append(b.values, Default) /\ e.fade = b.fade
<1>1. Default = Writing(0, Lowest, NoSource, NoFadeOut)
  BY DEF Default, Writing
<1>2. Writing(0, Lowest, NoSource, NoFadeOut) \in Writings
  BY <1>1, DefaultFacts
<1>3. /\ IsChannel(e) /\ e.fade = b.fade
      /\ e.values = Append(b.values, Writing(0, Lowest, NoSource, NoFadeOut))
  BY <1>2, InsertFacts
<1> QED BY <1>1, <1>3

\* The next frame begins with the default, and the fade goes on.
LEMMA NextFrameFacts ==
  ASSUME NEW d, IsRecord(d), d.values \in Seq(Writings), IsFade(d.fade),
         NEW e, e = DefaultsOf(Aged(d))
  PROVE  /\ IsChannel(e) /\ e.values = <<Default>> /\ IsFade(e.fade)
         /\ e.fade = NotFading => d.fade = NotFading
<1>1. PICK a : a = Aged(d)
  OBVIOUS
<1>2. /\ IsRecord(a) /\ a.values = d.values /\ IsFade(a.fade)
      /\ a.fade = NotFading => d.fade = NotFading
  <2>1. CASE a = d
    BY <2>1
  <2>2. CASE a # d
    <3>1. d.fade # NotFading /\ a = [d EXCEPT !.fade[1].age = @ + 1]
      BY <1>1, <2>2 DEF Aged
    <3>2. PICK x : d.fade = <<x>>
      BY <3>1 DEF IsFade
    <3>3. PICK y : [d.fade EXCEPT ![1].age = @ + 1] = <<y>>
      BY <3>2
    <3>4. PICK m, values, previous, fade, level, flushed :
            d = [master |-> m, values |-> values, previous |-> previous,
                 fade |-> fade, value |-> level, flushed |-> flushed]
      BY DEF IsRecord
    <3>5. a = [master |-> m, values |-> values, previous |-> previous,
               fade |-> <<y>>, value |-> level, flushed |-> flushed]
      <4>1. a = [d EXCEPT !.fade = [d.fade EXCEPT ![1].age = @ + 1]]
        BY <3>1
      <4> QED BY <3>3, <3>4, <4>1
    <3>6. <<y>> # NotFading
      BY DEF NotFading
    <3> QED BY <3>4, <3>5, <3>6 DEF IsRecord, IsFade
  <2> QED BY <2>1, <2>2
<1>3. PICK b : b = Clear(a)
  OBVIOUS
<1>4. IsRecord(b) /\ b.values = <<>> /\ b.fade = a.fade
  <2>1. PICK m, values, previous, fade, level, flushed :
          a = [master |-> m, values |-> values, previous |-> previous,
               fade |-> fade, value |-> level, flushed |-> flushed]
    BY <1>2 DEF IsRecord
  <2>2. b = [master |-> m, values |-> <<>>, previous |-> values,
             fade |-> fade, value |-> NoValue, flushed |-> flushed]
    BY <1>3, <2>1 DEF Clear
  <2> QED BY <2>1, <2>2 DEF IsRecord
<1>5. e = Insert(b, 0, Lowest, NoSource, NoFadeOut)
  BY <1>1, <1>3 DEF DefaultsOf
<1>6. b.values \in Seq(Writings)
  BY <1>4
<1>8. IsChannel(e) /\ e.values = Append(b.values, Default) /\ e.fade = b.fade
  BY <1>4, <1>5, <1>6, DefaultWrites
<1>9. e.values = <<Default>>
  <2>1. Append(<<>>, Default) = <<Default>>
    OBVIOUS
  <2> QED BY <1>4, <1>8, <2>1
<1> QED BY <1>2, <1>4, <1>8, <1>9

-----------------------------------------------------------------------------
(* The effects of the programmer *)

\* What is left after the place of an effect.
LEMMA BehindFacts ==
  ASSUME NEW E, NEW rest \in Seq(E), NEW e, Contains(rest, e)
  PROVE  /\ Behind(rest, e) \in Seq(E) /\ ToSet(Behind(rest, e)) \subseteq ToSet(rest)
         /\ e \in ToSet(rest)
<1> PICK left : left = Behind(rest, e)
  OBVIOUS
<1>1. PICK n \in Nat : n = Len(rest) /\ DOMAIN rest = 1 .. n
  OBVIOUS
<1>2. PICK I : I = {i \in DOMAIN rest : rest[i] = e}
  OBVIOUS
<1>3. PICK j \in 1 .. n : rest[j] = e
  BY <1>1 DEF Contains
<1>4. I \subseteq Nat /\ I # {}
  BY <1>1, <1>2, <1>3
<1>5. Min(I) \in I
  <2>1. \E m \in I : \A k \in I : m <= k
    BY <1>4, LeastNumber
  <2> QED BY <2>1 DEF Min
<1>6. PICK k \in 1 .. n : k = Min(I)
  BY <1>1, <1>2, <1>5
<1>7. left = SubSeq(rest, k + 1, n)
  BY <1>1, <1>2, <1>6 DEF Behind
<1>8. k + 1 \in Int /\ n \in Int /\ \A i \in (k + 1) .. n : rest[i] \in E
  <2>1. \A i \in (k + 1) .. n : i \in 1 .. n
    BY <1>6
  <2> QED BY <1>1, <2>1
<1>9. /\ left \in Seq(E)
      /\ Len(left) = IF k + 1 <= n THEN n - (k + 1) + 1 ELSE 0
      /\ \A i \in 1 .. n - (k + 1) + 1 : left[i] = rest[(k + 1) + i - 1]
  BY <1>7, <1>8, SubSeqProperties
<1>10. ASSUME NEW x \in ToSet(left) PROVE x \in ToSet(rest)
  <2>1. PICK i \in DOMAIN left : x = left[i]
    BY DEF ToSet
  <2>0. i \in 1 .. Len(left)
    BY <1>9
  <2>2. i \in 1 .. n - (k + 1) + 1 /\ (k + 1) + i - 1 \in 1 .. n
    BY <1>6, <1>9, <2>0
  <2>3. x = rest[(k + 1) + i - 1]
    BY <1>9, <2>1, <2>2
  <2> QED BY <1>1, <2>2, <2>3 DEF ToSet
<1>11. e \in ToSet(rest)
  BY <1>1, <1>3 DEF ToSet
<1> QED BY <1>9, <1>10, <1>11

\* Where the lookups stand after n effects: what is left of the list is of the
\* list, and what was found is.
LookedUp(found, active, E, order, n) ==
  /\ found = [rest |-> found.rest, missing |-> found.missing]
  /\ found.rest \in Seq(E) /\ ToSet(found.rest) \subseteq ToSet(active)
  /\ \A k \in 1 .. n : order[k] \in found.missing \/ order[k] \in ToSet(active)

\* The next lookup.
LEMMA NextLookUp ==
  ASSUME NEW E, NEW active, NEW order, NEW n \in Nat \ {0},
         NEW found, LookedUp(found, active, E, order, n - 1),
         NEW next, next = LookUp(found, order[n])
  PROVE  LookedUp(next, active, E, order, n)
<1>1. PICK rest, missing :
        /\ rest \in Seq(E) /\ ToSet(rest) \subseteq ToSet(active)
        /\ found = [rest |-> rest, missing |-> missing]
  BY DEF LookedUp
<1>2. PICK e : e = order[n]
  OBVIOUS
<1>3. \A k \in 1 .. n : k = n \/ order[k] \in missing \/ order[k] \in ToSet(active)
  <2>1. \A k \in 1 .. n : k = n \/ k \in 1 .. n - 1
    OBVIOUS
  <2> QED BY <1>1, <2>1 DEF LookedUp
<1>4. CASE Contains(rest, e)
  <2>1. PICK left : left = Behind(rest, e)
    OBVIOUS
  <2>2. left \in Seq(E) /\ ToSet(left) \subseteq ToSet(rest) /\ e \in ToSet(rest)
    BY <1>1, <1>4, <2>1, BehindFacts
  <2>3. next = [rest |-> left, missing |-> missing]
    BY <1>1, <1>2, <1>4, <2>1 DEF LookUp
  <2> QED BY <1>1, <1>2, <1>3, <2>2, <2>3 DEF LookedUp
<1>5. CASE ~Contains(rest, e)
  <2>1. next = [rest |-> <<>>, missing |-> missing \cup {e}]
    BY <1>1, <1>2, <1>5 DEF LookUp
  <2>2. <<>> \in Seq(E) /\ ToSet(<<>>) = {}
    BY DEF ToSet
  <2> QED BY <1>2, <1>3, <2>1, <2>2 DEF LookedUp
<1> QED BY <1>4, <1>5

\* The function that looks up effect after effect.
IsLooking(iter, base, order, N) ==
  iter = [s \in SUBSET (1 .. N) |->
            IF s = {} THEN base ELSE LookUp(iter[s \ {Max(s)}], order[Max(s)])]

\* That function exists, for any number of effects.
LEMMA LookingExists ==
  ASSUME NEW base, NEW order, NEW N \in Nat
  PROVE  \E iter : IsLooking(iter, base, order, N)
<1> DEFINE Bad == {n \in Nat : ~\E iter : IsLooking(iter, base, order, n)}
<1>1. ASSUME Bad # {} PROVE FALSE
  <2>1. PICK n \in Bad : \A k \in Bad : n <= k
    <3>1. Bad \subseteq Nat
      OBVIOUS
    <3> HIDE DEF Bad
    <3> QED BY <1>1, <3>1, LeastNumber
  <2>2. CASE n = 0
    <3> DEFINE iter == [s \in SUBSET (1 .. 0) |-> base]
    <3>1. \A s \in SUBSET (1 .. 0) : s = {}
      OBVIOUS
    <3>2. IsLooking(iter, base, order, 0)
      BY <3>1 DEF IsLooking
    <3> QED BY <2>2, <3>2
  <2>3. CASE n # 0
    <3>1. n \in Nat /\ n - 1 \in Nat /\ n - 1 \notin Bad
      BY <2>1, <2>3
    <3>2. PICK iter : IsLooking(iter, base, order, n - 1)
      BY <3>1
    <3> DEFINE next == [s \in SUBSET (1 .. n) |->
                          IF n \in s THEN LookUp(iter[s \ {n}], order[n]) ELSE iter[s]]
    <3>3. ASSUME NEW s \in SUBSET (1 .. n)
          PROVE  next[s] = IF s = {} THEN base ELSE LookUp(next[s \ {Max(s)}], order[Max(s)])
      <4>1. s \subseteq 0 .. n /\ s \in SUBSET (1 .. n) /\ n \notin s => s \in SUBSET (1 .. n - 1)
        BY <3>1
      <4>2. CASE s = {}
        <5>1. iter[s] = base
          BY <4>2, <3>2 DEF IsLooking
        <5> QED BY <4>2, <5>1
      <4>3. CASE n \in s
        <5>1. Max(s) = n
          <6>3. s # {} /\ s \subseteq 0 .. n
            BY <4>1, <4>3
          <6>1. Max(s) \in s /\ Max(s) >= n
            BY <3>1, <6>3, <4>3, Greatest
          <6>2. Max(s) \in 1 .. n
            BY <6>1
          <6> QED BY <3>1, <6>1, <6>2
        <5>2. s \ {n} \in SUBSET (1 .. n) /\ n \notin s \ {n} /\ s # {}
          BY <4>3
        <5>3. next[s \ {n}] = iter[s \ {n}] /\ next[s] = LookUp(iter[s \ {n}], order[n])
          BY <5>2, <4>3
        <5> QED BY <5>1, <5>2, <5>3
      <4>4. CASE n \notin s /\ s # {}
        <5>1. Max(s) \in s
          <6>1. s # {} /\ s \subseteq 0 .. n
            BY <4>1, <4>4
          <6> QED BY <3>1, <6>1, Greatest
        <5>4. s \in SUBSET (1 .. n - 1)
          BY <4>1, <4>4
        <5>2. iter[s] = LookUp(iter[s \ {Max(s)}], order[Max(s)])
          BY <5>1, <5>4, <4>4, <3>2 DEF IsLooking
        <5>3. next[s \ {Max(s)}] = iter[s \ {Max(s)}] /\ next[s] = iter[s]
          BY <4>4
        <5> QED BY <5>2, <5>3, <4>4
      <4> QED BY <4>2, <4>3, <4>4
    <3>4. next = [s \in SUBSET (1 .. n) |-> next[s]]
      OBVIOUS
    <3>5. IsLooking(next, base, order, n)
      <4> HIDE DEF next
      <4> QED BY <3>3, <3>4 DEF IsLooking
    <3> QED BY <3>5
  <2> QED BY <2>2, <2>3
<1> QED BY <1>1

\* All lookups are what that function gives for all effects.
LEMMA LookUpsFold ==
  ASSUME NEW X, NEW order \in Seq(X), NEW active
  PROVE  \E iter : /\ IsLooking(iter, [rest |-> active, missing |-> {}], order, Len(order))
                   /\ LookUps(active, order) = iter[1 .. Len(order)]
<1> DEFINE N == Len(order)
           base == [rest |-> active, missing |-> {}]
<1>0. N \in Nat /\ DOMAIN order = 1 .. N
  OBVIOUS
<1>1. PICK iter : iter = CHOOSE g : IsLooking(g, base, order, N)
  OBVIOUS
<1> HIDE DEF N
<1>2. IsLooking(iter, base, order, N)
  <2> HIDE DEF base
  <2> QED BY <1>0, <1>1, LookingExists
<1>3. LookUps(active, order) = iter[1 .. N]
  BY <1>0, <1>1 DEF LookUps, FoldLeft, MapThenFoldSet, IsLooking
<1> QED BY <1>2, <1>3 DEF N

\* Where all lookups end.
LEMMA LookUpsFacts ==
  ASSUME NEW E, NEW active \in Seq(E), NEW X, NEW order \in Seq(X)
  PROVE  LookedUp(LookUps(active, order), active, E, order, Len(order))
<1> DEFINE N == Len(order)
           base == [rest |-> active, missing |-> {}]
<1>1. N \in Nat
  OBVIOUS
<1>2. PICK iter : /\ IsLooking(iter, base, order, N)
                  /\ LookUps(active, order) = iter[1 .. N]
  BY LookUpsFold
<1>3. LookedUp(base, active, E, order, 0)
  BY DEF LookedUp
<1> HIDE DEF N, base
<1> DEFINE Bad == {n \in 0 .. N : ~LookedUp(iter[1 .. n], active, E, order, n)}
<1>4. ASSUME Bad # {} PROVE FALSE
  <2>1. PICK n \in Bad : \A k \in Bad : n <= k
    <3>1. Bad \subseteq Nat
      BY <1>1
    <3> HIDE DEF Bad
    <3> QED BY <1>4, <3>1, LeastNumber
  <2>2. n \in 0 .. N /\ ~LookedUp(iter[1 .. n], active, E, order, n)
    OBVIOUS
  <2> HIDE DEF Bad
  <2>3. CASE n = 0
    <3>1. 1 .. n = {}
      BY <2>3
    <3>2. iter[{}] = base
      BY <1>2 DEF IsLooking
    <3> QED BY <1>3, <2>2, <2>3, <3>1, <3>2
  <2>4. CASE n # 0
    <3>1. n \in 1 .. N /\ n - 1 \in 0 .. N /\ ~(n <= n - 1) /\ n \in Nat \ {0}
      BY <1>1, <2>2, <2>4
    <3>2. LookedUp(iter[1 .. n - 1], active, E, order, n - 1)
      <4>1. n - 1 \notin Bad
        BY <2>1, <3>1
      <4> QED BY <3>1, <4>1 DEF Bad
    <3>3. Max(1 .. n) = n /\ (1 .. n) \ {n} = 1 .. n - 1 /\ 1 .. n # {} /\ 1 .. n \in SUBSET (1 .. N)
      <4>0. n \in Nat /\ n >= 1
        BY <1>1, <3>1
      <4>1. n \in 1 .. n /\ 1 .. n # {} /\ 1 .. n \subseteq 0 .. n
        <5>1. n \in 1 .. n
          BY <4>0
        <5>2. 1 .. n \subseteq 0 .. n
          BY <4>0
        <5> QED BY <5>1, <5>2
      <4>2. Max(1 .. n) \in 1 .. n /\ Max(1 .. n) >= n
        BY <4>0, <4>1, Greatest
      <4>3. Max(1 .. n) = n
        BY <4>0, <4>2
      <4> QED BY <1>1, <3>1, <4>1, <4>3
    <3>4. iter[1 .. n] = LookUp(iter[1 .. n - 1], order[n])
      BY <1>2, <3>3 DEF IsLooking
    <3>5. PICK before, after : before = iter[1 .. n - 1] /\ after = iter[1 .. n]
      OBVIOUS
    <3>6. LookedUp(after, active, E, order, n)
      BY <3>1, <3>2, <3>4, <3>5, NextLookUp
    <3> QED BY <2>2, <3>5, <3>6
  <2> QED BY <2>3, <2>4
<1>5. LookedUp(iter[1 .. N], active, E, order, N)
  <2>1. N \in 0 .. N
    BY <1>1
  <2> QED BY <1>4, <2>1
<1> QED BY <1>2, <1>5 DEF N

\* Whatever ran before, only what the programmer calls runs after a frame.
LEMMA EngineFacts ==
  ASSUME NEW E, NEW active \in Seq(E), NEW X, NEW order \in Seq(X)
  PROVE  /\ EngineAfter(active, order) \subseteq ToSet(active)
         /\ IsFiniteSet(EngineAfter(active, order))
<1>1. PICK looked : looked = LookUps(active, order)
  OBVIOUS
<1>2. LookedUp(looked, active, E, order, Len(order))
  BY <1>1, LookUpsFacts
<1>3. EngineAfter(active, order) = (ToSet(order) \ looked.missing) \cup (ToSet(looked.rest) \ ToSet(order))
  BY <1>1 DEF EngineAfter
<1>4. ASSUME NEW e \in ToSet(order), e \notin looked.missing PROVE e \in ToSet(active)
  <2>1. PICK k \in DOMAIN order : e = order[k]
    BY DEF ToSet
  <2>2. k \in 1 .. Len(order)
    OBVIOUS
  <2> QED BY <1>2, <1>4, <2>1, <2>2 DEF LookedUp
<1>5. ToSet(looked.rest) \subseteq ToSet(active)
  BY <1>2 DEF LookedUp
<1>6. EngineAfter(active, order) \subseteq ToSet(active)
  BY <1>3, <1>4, <1>5
<1> QED BY <1>6, SequencesAreFinite, FS_Subset

-----------------------------------------------------------------------------
(* The invariant *)

\* Whoever wrote in this frame so far wrote nothing to the fixture.
Untouched(f) ==
  /\ f \notin asked.lit /\ asked.values[f] = NoValue
  /\ phase \in {"effects", "outputs"} => \A s \in ToSet(playing) : f \notin s.fixtures
  /\ phase = "outputs" => \A e \in asked.effects : f \notin Selected(e.fixtures)

\* A channel while a frame is written: as the programmer wants it, whatever the
\* others have written, and as the frame before left it if nobody has.
Collecting(f) ==
  /\ HasRanks(channels[f].values, asked.values[f], f \in asked.lit)
  /\ Untouched(f) => channels[f].values = <<Default>>

IsAsked ==
  /\ asked = [values |-> asked.values, lit |-> asked.lit, playing |-> asked.playing,
              effects |-> asked.effects, offline |-> asked.offline]
  /\ asked.values \in [Fixtures -> (0 .. Full) \cup {NoValue}]

FrameInv ==
  /\ playing \in Seq(Sequences) /\ IsInjective(playing) /\ IsFiniteSet(engine)
  /\ phase \in {"commands", "sequences", "effects", "outputs"}
  /\ IsAsked
  /\ \A f \in Fixtures : IsChannel(channels[f]) /\ IsFade(channels[f].fade)
  /\ phase = "commands" => \A f \in Fixtures : channels[f].values = <<Default>>
  /\ phase # "commands" => asked.playing = playing /\ \A f \in Fixtures : Collecting(f)
  /\ ProgrammerHasTheLastWord
  /\ UnaskedIsDark

OutputInv == SessionInv /\ FrameInv

\* The invariant holds in the beginning.
LEMMA OutputInitHolds ==
  ASSUME OutputInit
  PROVE  OutputInv /\ ProgrammedValues!Init
<1>1. SessionInv /\ ProgrammedValues!Init
  BY InitStep DEF OutputInit
<1>2. playing \in Seq(Sequences) /\ IsInjective(playing) /\ IsFiniteSet(engine)
  <2>1. playing = <<>> /\ engine = {}
    BY DEF OutputInit
  <2>2. <<>> \in Seq(Sequences) /\ DOMAIN <<>> = {}
    OBVIOUS
  <2> QED BY <2>1, <2>2, FS_EmptySet DEF IsInjective
<1>3. IsAsked
  BY DEF OutputInit, NothingAsked, IsAsked
<1>4. ASSUME NEW f \in Fixtures
      PROVE  IsChannel(channels[f]) /\ IsFade(channels[f].fade) /\ channels[f].values = <<Default>>
  <2>1. PICK b : b = Clear(NewChannel)
    OBVIOUS
  <2>2. IsRecord(b) /\ b.values = <<>> /\ b.fade = NotFading
    BY <2>1 DEF Clear, NewChannel, IsRecord
  <2>3. PICK c : c = channels[f]
    OBVIOUS
  <2>4. c = Insert(b, 0, Lowest, NoSource, NoFadeOut)
    BY <2>1, <2>3 DEF OutputInit, DefaultsOf
  <2>5. b.values \in Seq(Writings)
    BY <2>2
  <2>6. IsChannel(c) /\ c.values = Append(b.values, Default) /\ c.fade = b.fade
    BY <2>2, <2>4, <2>5, DefaultWrites
  <2>7. Append(<<>>, Default) = <<Default>>
    OBVIOUS
  <2> QED BY <2>2, <2>3, <2>6, <2>7 DEF IsFade
<1>5. ProgrammerHasTheLastWord /\ UnaskedIsDark
  BY DEF OutputInit, NothingAsked, ProgrammerHasTheLastWord, UnaskedIsDark
<1>6. phase = "commands"
  BY DEF OutputInit
<1> QED BY <1>1, <1>2, <1>3, <1>4, <1>5, <1>6 DEF OutputInv, FrameInv

\* Nothing the users do between two steps of a frame touches the frame.
LEMMA FrameUntouched ==
  ASSUME FrameInv, UNCHANGED frameVars
  PROVE  FrameInv'
BY DEF FrameInv, frameVars, IsAsked, Collecting, Untouched, IsChannel, IsRecord, IsFade, HasRanks,
       ProgrammerHasTheLastWord, UnaskedIsDark, FrameIsOver, FadesOut

\* Starting and stopping sequences.
LEMMA SequencesChange ==
  ASSUME OutputInv, StartSequence \/ StopSequence
  PROVE  OutputInv' /\ UNCHANGED <<prog, done>>
<1>1. /\ phase = "commands" /\ Used("sequence")
      /\ UNCHANGED <<prog, done, engine, channels, out, asked, phase>>
  BY DEF StartSequence, StopSequence
<1>2. SessionInv'
  BY <1>1, BoundsAssumption DEF OutputInv, SessionInv, Used, IsProgrammer
<1>3. playing \in Seq(Sequences) /\ IsInjective(playing)
  BY DEF OutputInv, FrameInv
<1>4. (playing \in Seq(Sequences) /\ IsInjective(playing))'
  <2>1. CASE StartSequence
    <3>1. PICK s \in Sequences \ ToSet(playing) : playing' = Append(playing, s)
      BY <2>1 DEF StartSequence
    <3>2. \A n \in 1 .. Len(playing) : playing[n] # s
      BY <3>1 DEF ToSet
    <3>3. playing' \in Seq(Sequences)
      BY <1>3, <3>1
    <3>4. IsInjective(playing')
      BY <1>3, <3>1, <3>2 DEF IsInjective
    <3> QED BY <3>3, <3>4
  <2>2. CASE StopSequence
    <3>1. PICK s : playing' = RemoveFirst(playing, s)
      BY <2>2 DEF StopSequence
    <3> QED BY <1>3, <3>1, RemoveFirstFacts
  <2> QED BY <2>1, <2>2
<1>5. FrameInv'
  <2>1. /\ IsFiniteSet(engine) /\ IsAsked
        /\ \A f \in Fixtures : IsChannel(channels[f]) /\ IsFade(channels[f].fade)
        /\ \A f \in Fixtures : channels[f].values = <<Default>>
        /\ ProgrammerHasTheLastWord /\ UnaskedIsDark
    BY <1>1 DEF OutputInv, FrameInv
  <2>2. (/\ IsFiniteSet(engine) /\ IsAsked
         /\ \A f \in Fixtures : IsChannel(channels[f]) /\ IsFade(channels[f].fade)
         /\ \A f \in Fixtures : channels[f].values = <<Default>>
         /\ ProgrammerHasTheLastWord /\ UnaskedIsDark)'
    BY <1>1, <2>1 DEF IsAsked, IsChannel, IsRecord, IsFade, ProgrammerHasTheLastWord, UnaskedIsDark,
                      FrameIsOver, FadesOut
  <2>3. phase' = "commands"
    BY <1>1
  <2> QED BY <1>4, <2>2, <2>3 DEF FrameInv
<1> QED BY <1>1, <1>2, <1>5 DEF OutputInv

\* The programmer writes its values, the first of the frame.
LEMMA ProgrammerRuns ==
  ASSUME OutputInv, RunProgrammer
  PROVE  FrameInv'
<1> DEFINE value(f) == IF prog.offline THEN NoValue ELSE Value(prog, f)
           lit == IF prog.offline THEN {} ELSE Highlighted(prog)
<1>1. /\ phase = "commands" /\ phase' = "sequences"
      /\ playing' = playing /\ engine' = engine
      /\ asked' = [values |-> [f \in Fixtures |-> value(f)], lit |-> lit, playing |-> playing,
                   effects |-> {}, offline |-> prog.offline]
      /\ \A f \in Fixtures :
           channels'[f] = WriteHighlight(WriteProgrammed(channels[f], value(f)), f \in lit)
  BY DEF RunProgrammer
<1>2. ASSUME NEW f \in Fixtures PROVE value(f) \in (0 .. Full) \cup {NoValue}
  BY ValueFacts DEF OutputInv, SessionInv
<1> HIDE DEF value, lit
<1>3. IsAsked'
  BY <1>1, <1>2 DEF IsAsked
<1>4. ASSUME NEW f \in Fixtures
      PROVE  /\ IsChannel(channels'[f]) /\ IsFade(channels'[f].fade)
             /\ HasRanks(channels'[f].values, value(f), f \in lit)
             /\ value(f) = NoValue /\ f \notin lit => channels'[f].values = <<Default>>
  <2>0. PICK l \in BOOLEAN : l <=> f \in lit
    <3>1. CASE f \in lit
      <4> WITNESS TRUE \in BOOLEAN
      <4> QED BY <3>1
    <3>2. CASE f \notin lit
      <4> WITNESS FALSE \in BOOLEAN
      <4> QED BY <3>2
    <3> QED BY <3>1, <3>2
  <2>1. PICK c, v : c = channels[f] /\ v = value(f)
    OBVIOUS
  <2>2. PICK d, e : d = WriteProgrammed(c, v) /\ e = WriteHighlight(d, l)
    OBVIOUS
  <2>3. channels'[f] = e
    BY <1>1, <2>0, <2>1, <2>2 DEF WriteHighlight
  <2>4. IsChannel(c) /\ IsFade(c.fade) /\ c.values = <<Default>>
    BY <1>1, <2>1 DEF OutputInv, FrameInv
  <2>5. HasRanks(c.values, NoValue, FALSE)
    BY <2>4, DefaultFacts
  <2>6. v \in (0 .. Full) \cup {NoValue}
    BY <1>2, <2>1
  <2>7. /\ IsChannel(d) /\ HasRanks(d.values, v, FALSE) /\ d.fade = c.fade
        /\ v = NoValue => d = c
    BY <2>2, <2>4, <2>5, <2>6, ProgrammedWrites
  <2>8. /\ IsChannel(e) /\ HasRanks(e.values, v, l) /\ e.fade = d.fade
        /\ ~l => e = d
    BY <2>2, <2>7, HighlightWrites
  <2>9. HasRanks(e.values, value(f), f \in lit)
    BY <2>0, <2>1, <2>8 DEF HasRanks
  <2>10. ASSUME v = NoValue, ~l PROVE e.values = <<Default>>
    BY <2>4, <2>7, <2>8, <2>10
  <2> QED BY <2>0, <2>1, <2>3, <2>4, <2>7, <2>8, <2>9, <2>10
<1>5. ASSUME NEW f \in Fixtures PROVE Collecting(f)'
  <2>1. asked'.values[f] = value(f) /\ asked'.lit = lit
    BY <1>1
  <2> QED BY <1>4, <2>1 DEF Collecting, Untouched
<1>6. asked'.playing = playing'
  BY <1>1
<1>7. (playing \in Seq(Sequences) /\ IsInjective(playing) /\ IsFiniteSet(engine))'
  BY <1>1 DEF OutputInv, FrameInv
<1>8. ProgrammerHasTheLastWord' /\ UnaskedIsDark'
  BY <1>1 DEF ProgrammerHasTheLastWord, UnaskedIsDark, FrameIsOver
<1> QED BY <1>1, <1>3, <1>4, <1>5, <1>6, <1>7, <1>8 DEF FrameInv

\* The sequences write their values.
LEMMA SequencesRun ==
  ASSUME OutputInv, RunSequences
  PROVE  FrameInv'
<1>1. /\ phase = "sequences" /\ phase' = "effects"
      /\ playing' = playing /\ engine' = engine /\ asked' = asked
      /\ \A f \in Fixtures : channels'[f] = WriteSequences(channels[f], f)
  BY DEF RunSequences
<1>2. playing \in Seq(Sequences) /\ asked.playing = playing
  BY <1>1 DEF OutputInv, FrameInv
<1>3. ASSUME NEW f \in Fixtures
      PROVE  /\ IsChannel(channels'[f]) /\ IsFade(channels'[f].fade)
             /\ HasRanks(channels'[f].values, asked.values[f], f \in asked.lit)
             /\ Untouched(f)' => channels'[f].values = <<Default>>
  <2>1. PICK c, d : c = channels[f] /\ d = WriteSequences(c, f)
    OBVIOUS
  <2>2. channels'[f] = d
    BY <1>1, <2>1
  <2>3. PICK v, l : v = asked.values[f] /\ l = (f \in asked.lit)
    OBVIOUS
  <2>4. IsChannel(c) /\ IsFade(c.fade) /\ Collecting(f)
    BY <1>1, <2>1 DEF OutputInv, FrameInv
  <2>5. HasRanks(c.values, v, l)
    BY <2>1, <2>3, <2>4 DEF Collecting
  <2>6. Played(d, c, v, l, f, Len(playing))
    BY <1>2, <2>1, <2>4, <2>5, SequencesWrite
  <2>7. /\ IsChannel(d) /\ HasRanks(d.values, v, l) /\ d.fade = c.fade
        /\ (\A k \in 1 .. Len(playing) : f \notin playing[k].fixtures) => d = c
    BY <2>6 DEF Played
  <2>8. HasRanks(d.values, asked.values[f], f \in asked.lit)
    BY <2>3, <2>7
  <2>9. ASSUME Untouched(f)' PROVE d.values = <<Default>>
    <3>1. Untouched(f) /\ \A s \in ToSet(playing) : f \notin s.fixtures
      BY <1>1, <2>9 DEF Untouched
    <3>2. \A k \in 1 .. Len(playing) : playing[k] \in ToSet(playing)
      BY <1>2 DEF ToSet
    <3>3. d = c
      BY <2>7, <3>1, <3>2
    <3> QED BY <2>1, <2>4, <3>1, <3>3 DEF Collecting
  <2> QED BY <2>2, <2>4, <2>7, <2>8, <2>9
<1>4. ASSUME NEW f \in Fixtures PROVE Collecting(f)'
  BY <1>1, <1>3 DEF Collecting
<1>5. (/\ playing \in Seq(Sequences) /\ IsInjective(playing) /\ IsFiniteSet(engine)
       /\ IsAsked /\ asked.playing = playing)'
  BY <1>1, <1>2 DEF OutputInv, FrameInv, IsAsked
<1>6. ProgrammerHasTheLastWord' /\ UnaskedIsDark'
  BY <1>1 DEF ProgrammerHasTheLastWord, UnaskedIsDark, FrameIsOver
<1> QED BY <1>1, <1>3, <1>4, <1>5, <1>6 DEF FrameInv

\* The effects run, those that ran before and are not called any more end.
LEMMA EffectsRun ==
  ASSUME OutputInv, RunEffects
  PROVE  FrameInv'
<1>1. /\ phase = "effects" /\ phase' = "outputs" /\ playing' = playing
      /\ asked' = [asked EXCEPT !.effects = ToSet(prog.effects)]
      /\ \A f \in Fixtures :
           channels'[f] = IF \E e \in engine' : f \in Selected(e.fixtures)
                          THEN Insert(channels[f], EffectValue, Normal, NoSource, NoFadeOut)
                          ELSE channels[f]
  BY DEF RunEffects
<1>2. playing \in Seq(Sequences) /\ asked.playing = playing /\ IsAsked
  BY <1>1 DEF OutputInv, FrameInv
<1>3. engine' \subseteq ToSet(prog.effects) /\ IsFiniteSet(engine')
  <2>1. PICK order \in SetToSeqs(engine) : engine' = EngineAfter(prog.effects, order)
    BY DEF RunEffects
  <2>2. Cardinality(engine) \in Nat
    BY FS_CardinalityType DEF OutputInv, FrameInv
  <2>3. order \in Seq(engine)
    BY <2>2 DEF SetToSeqs
  <2>4. PICK E : prog.effects \in Seq(E)
    BY DEF OutputInv, SessionInv, IsProgrammer, Programmers
  <2> QED BY <2>1, <2>3, <2>4, EngineFacts
<1>4. /\ asked'.values = asked.values /\ asked'.lit = asked.lit /\ asked'.playing = asked.playing
      /\ asked'.effects = ToSet(prog.effects) /\ IsAsked'
  <2>1. asked' = [values |-> asked.values, lit |-> asked.lit, playing |-> asked.playing,
                  effects |-> ToSet(prog.effects), offline |-> asked.offline]
    BY <1>1, <1>2 DEF IsAsked
  <2> QED BY <1>2, <2>1 DEF IsAsked
<1>5. ASSUME NEW f \in Fixtures
      PROVE  /\ IsChannel(channels'[f]) /\ IsFade(channels'[f].fade)
             /\ HasRanks(channels'[f].values, asked.values[f], f \in asked.lit)
             /\ Untouched(f)' => channels'[f].values = <<Default>>
  <2>1. PICK c, d : c = channels[f] /\ d = channels'[f]
    OBVIOUS
  <2>2. IsChannel(c) /\ IsFade(c.fade) /\ Collecting(f)
    BY <1>1, <2>1 DEF OutputInv, FrameInv
  <2>3. CASE \E e \in engine' : f \in Selected(e.fixtures)
    <3>1. d = Insert(c, EffectValue, Normal, NoSource, NoFadeOut)
      BY <1>1, <2>1, <2>3
    <3>2. PICK v, l : v = asked.values[f] /\ l = (f \in asked.lit)
      OBVIOUS
    <3>3. HasRanks(c.values, v, l)
      BY <2>1, <2>2, <3>2 DEF Collecting
    <3>4. IsChannel(d) /\ HasRanks(d.values, v, l) /\ d.fade = c.fade
      BY <2>2, <3>1, <3>3, EffectWrites
    <3>5. HasRanks(d.values, asked.values[f], f \in asked.lit)
      BY <3>2, <3>4
    <3>6. ~Untouched(f)'
      BY <1>1, <1>3, <1>4, <2>3 DEF Untouched
    <3> QED BY <2>1, <2>2, <3>4, <3>5, <3>6
  <2>4. CASE ~\E e \in engine' : f \in Selected(e.fixtures)
    <3>1. d = c
      BY <1>1, <2>1, <2>4
    <3>2. Untouched(f)' => Untouched(f)
      BY <1>1, <1>4 DEF Untouched
    <3> QED BY <2>1, <2>2, <3>1, <3>2 DEF Collecting
  <2> QED BY <2>3, <2>4
<1>6. ASSUME NEW f \in Fixtures PROVE Collecting(f)'
  BY <1>4, <1>5 DEF Collecting
<1>7. (playing \in Seq(Sequences) /\ IsInjective(playing) /\ asked.playing = playing)'
  BY <1>1, <1>2, <1>4 DEF OutputInv, FrameInv
<1>8. ProgrammerHasTheLastWord' /\ UnaskedIsDark'
  BY <1>1 DEF ProgrammerHasTheLastWord, UnaskedIsDark, FrameIsOver
<1> QED BY <1>1, <1>3, <1>4, <1>5, <1>6, <1>7, <1>8 DEF FrameInv

\* How the frame of one channel ends.
LEMMA ChannelEnds ==
  ASSUME NEW c, IsChannel(c), IsFade(c.fade), NEW master \in 0 .. Full,
         NEW value, NEW lit, HasRanks(c.values, value, lit),
         NEW d, d = Flush(SetMaster(c, master)), NEW e, e = DefaultsOf(Aged(d))
  PROVE  /\ IsChannel(e) /\ IsFade(e.fade) /\ e.values = <<Default>>
         /\ lit => Sent(d) = Full
         /\ ~lit /\ value # NoValue => Sent(d) = value
         /\ c.values = <<Default>> /\ e.fade = NotFading => Sent(d) = 0
<1>1. /\ IsRecord(d) /\ d.values = c.values /\ d.master = master /\ IsFade(d.fade)
      /\ d.fade = NotFading => d.value = AskedFor(c.values)
  BY FlushFacts
<1>2. c.values \in Seq(Writings)
  BY DEF IsChannel
<1>3. /\ IsChannel(e) /\ e.values = <<Default>> /\ IsFade(e.fade)
      /\ e.fade = NotFading => d.fade = NotFading
  BY <1>1, <1>2, NextFrameFacts
<1>4. ASSUME lit PROVE Sent(d) = Full
  BY <1>1, <1>2, <1>4, HighlightIsSent
<1>5. ASSUME ~lit, value # NoValue PROVE Sent(d) = value
  <2>1. HasRanks(d.values, value, FALSE)
    BY <1>1, <1>5 DEF HasRanks
  <2> QED BY <1>1, <1>2, <1>5, <2>1, ValueIsSent
<1>6. ASSUME c.values = <<Default>>, e.fade = NotFading PROVE Sent(d) = 0
  <2>1. d.value = 0
    BY <1>1, <1>3, <1>6, NothingAskedFor
  <2> QED BY <1>1, <1>6, <2>1, SentDark
<1> QED BY <1>3, <1>4, <1>5, <1>6

\* The outputs are written and the next frame begins.
LEMMA FrameEnds ==
  ASSUME OutputInv, EndFrame
  PROVE  FrameInv'
<1> DEFINE flushed(f) == Flush(SetMaster(channels[f], Master[f]))
<1>1. /\ phase = "outputs" /\ phase' = "commands"
      /\ playing' = playing /\ engine' = engine /\ asked' = asked
      /\ \A f \in Fixtures : /\ out'[f] = Sent(flushed(f))
                              /\ channels'[f] = DefaultsOf(Aged(flushed(f)))
  BY DEF EndFrame
<1>2. playing \in Seq(Sequences) /\ asked.playing = playing
  BY <1>1 DEF OutputInv, FrameInv
<1>3. ASSUME NEW f \in Fixtures
      PROVE  /\ IsChannel(channels'[f]) /\ IsFade(channels'[f].fade)
             /\ channels'[f].values = <<Default>>
             /\ f \in asked.lit => out'[f] = Full
             /\ f \notin asked.lit /\ asked.values[f] # NoValue => out'[f] = asked.values[f]
             /\ Untouched(f) /\ channels'[f].fade = NotFading => out'[f] = 0
  <2>1. PICK c, d, e : c = channels[f] /\ d = flushed(f) /\ e = DefaultsOf(Aged(d))
    OBVIOUS
  <2>2. PICK master \in 0 .. Full : master = Master[f]
    BY LevelsAssumption
  <2>3. d = Flush(SetMaster(c, master)) /\ out'[f] = Sent(d) /\ channels'[f] = e
    BY <1>1, <2>1, <2>2
  <2> HIDE DEF flushed
  <2>4. PICK v, l : v = asked.values[f] /\ l = (f \in asked.lit)
    OBVIOUS
  <2>5. IsChannel(c) /\ IsFade(c.fade) /\ Collecting(f)
    BY <1>1, <2>1 DEF OutputInv, FrameInv
  <2>6. HasRanks(c.values, v, l)
    BY <2>1, <2>4, <2>5 DEF Collecting
  <2>7. /\ IsChannel(e) /\ IsFade(e.fade) /\ e.values = <<Default>>
        /\ l => Sent(d) = Full
        /\ ~l /\ v # NoValue => Sent(d) = v
        /\ c.values = <<Default>> /\ e.fade = NotFading => Sent(d) = 0
    BY <2>1, <2>3, <2>5, <2>6, ChannelEnds
  <2>8. Untouched(f) => c.values = <<Default>>
    BY <2>1, <2>5 DEF Collecting
  <2> QED BY <2>3, <2>4, <2>7, <2>8
<1>4. ProgrammerHasTheLastWord'
  BY <1>1, <1>3 DEF ProgrammerHasTheLastWord
<1>5. UnaskedIsDark'
  BY <1>1, <1>2, <1>3 DEF UnaskedIsDark, Untouched, FadesOut
<1>6. (playing \in Seq(Sequences) /\ IsInjective(playing) /\ IsFiniteSet(engine) /\ IsAsked)'
  BY <1>1 DEF OutputInv, FrameInv, IsAsked
<1> QED BY <1>1, <1>3, <1>4, <1>5, <1>6 DEF FrameInv

\* Every step keeps the invariant, and what the users see of the programmer
\* changes only as ProgrammerValues promises.
LEMMA OutputStep ==
  ASSUME OutputInv, [OutputNext]_outputVars
  PROVE  OutputInv' /\ [ProgrammedValues!Next]_(ProgrammedValues!vars)
<1>1. SessionInv /\ FrameInv
  BY DEF OutputInv
<1>2. CASE RunCommand \/ CallProgrammer
  <2>1. Next /\ UNCHANGED frameVars
    BY <1>2 DEF RunCommand, CallProgrammer, Next
  <2>2. SessionInv' /\ [ProgrammedValues!Next]_(ProgrammedValues!vars)
    BY <1>1, <2>1, NextStep
  <2> QED BY <1>1, <2>1, <2>2, FrameUntouched DEF OutputInv
<1>3. ASSUME UNCHANGED <<prog, done>> PROVE UNCHANGED ProgrammedValues!vars
  BY <1>3 DEF ProgrammedValues!vars, Kept, Carried
<1>4. CASE StartSequence \/ StopSequence
  BY <1>3, <1>4, SequencesChange
<1>5. ASSUME UNCHANGED vars
      PROVE  SessionInv' /\ [ProgrammedValues!Next]_(ProgrammedValues!vars)
  BY <1>1, <1>5, NextStep
<1>6. CASE RunProgrammer
  <2>1. UNCHANGED vars
    BY <1>6 DEF RunProgrammer
  <2> QED BY <1>5, <1>6, <2>1, ProgrammerRuns DEF OutputInv
<1>7. CASE RunSequences
  <2>1. UNCHANGED vars
    BY <1>7 DEF RunSequences
  <2> QED BY <1>5, <1>7, <2>1, SequencesRun DEF OutputInv
<1>8. CASE RunEffects
  <2>1. UNCHANGED vars
    BY <1>8 DEF RunEffects
  <2> QED BY <1>5, <1>8, <2>1, EffectsRun DEF OutputInv
<1>9. CASE EndFrame
  <2>1. UNCHANGED vars
    BY <1>9 DEF EndFrame
  <2> QED BY <1>5, <1>9, <2>1, FrameEnds DEF OutputInv
<1>10. CASE UNCHANGED outputVars
  <2>1. UNCHANGED vars /\ UNCHANGED frameVars
    BY <1>10 DEF outputVars
  <2> QED BY <1>1, <1>5, <2>1, FrameUntouched DEF OutputInv
<1> QED BY <1>2, <1>4, <1>6, <1>7, <1>8, <1>9, <1>10 DEF OutputNext, Frame

-----------------------------------------------------------------------------
(* What is proved of every behaviour *)

\* However calls and commands fall between the steps of the frames.
THEOREM OutputInvariant == OutputSpec => []OutputInv
<1>1. OutputInit => OutputInv
  BY OutputInitHolds
<1>2. OutputInv /\ [OutputNext]_outputVars => OutputInv'
  BY OutputStep
<1> QED BY <1>1, <1>2, PTL DEF OutputSpec

\* Highlight, then the programmer's value, unscaled: no sequence, effect, fade
\* or master has a say in what such a fixture sends.
THEOREM ProgrammerOverridesEverything == OutputSpec => []ProgrammerHasTheLastWord
<1>1. OutputInv => ProgrammerHasTheLastWord
  BY DEF OutputInv, FrameInv
<1> QED BY <1>1, OutputInvariant, PTL

\* No value of an earlier frame, of a cleared programmer or of an effect that
\* has ended is sent to a fixture nobody wants anything of.
THEOREM NothingIsLeftBehind == OutputSpec => []UnaskedIsDark
<1>1. OutputInv => UnaskedIsDark
  BY DEF OutputInv, FrameInv
<1> QED BY <1>1, OutputInvariant, PTL

\* Frames and sequences do nothing to the programmer's values, neither to those
\* that go with the selection nor to those that are kept: the session that
\* frames run in does what ProgrammerValues promises, as the one without.
THEOREM FramesKeepTheValues == OutputSpec => ImplementsProgrammerValues
<1>1. OutputInit => OutputInv /\ ProgrammedValues!Init
  BY OutputInitHolds
<1>2. OutputInv /\ [OutputNext]_outputVars
        => OutputInv' /\ [ProgrammedValues!Next]_(ProgrammedValues!vars)
  BY OutputStep
<1> QED BY <1>1, <1>2, PTL DEF OutputSpec, ImplementsProgrammerValues, ProgrammedValues!Spec

=============================================================================
