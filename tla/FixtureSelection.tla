-------------------------- MODULE FixtureSelection --------------------------
(* An ordered selection of fixtures and how block size, groups and wings   *)
(* arrange it into the groups that effects, the highlight and the fan of   *)
(* values count (FixtureSelection of mizer_fixtures). A setting of zero    *)
(* stands for None.                                                        *)
EXTENDS Naturals, SequencesExt

SelectionOf(fixtures) == [fixtures |-> fixtures, block |-> 0, groups |-> 0, wings |-> 0]
NoFixtures == SelectionOf(<<>>)

Selected(s) == ToSet(s.fixtures)

\* For the mutation checks: fixtures may be selected twice.
AddFixturesAgain(s, fixtures) == [s EXCEPT !.fixtures = @ \o fixtures]

AddFixtures(s, fixtures) ==
  LET added(known, f) == IF Contains(known, f) THEN known ELSE Append(known, f)
  IN  [s EXCEPT !.fixtures = FoldLeft(added, @, fixtures)]

RemoveFixture(s, f) == [s EXCEPT !.fixtures = RemoveFirst(@, f)]

\* Clearing keeps the settings.
ClearFixtures(s) == [s EXCEPT !.fixtures = <<>>]

-----------------------------------------------------------------------------
(* get_fixtures *)

DivCeil(a, b) == (a + b - 1) \div b
Least(a, b) == IF a < b THEN a ELSE b

Chunks(seq, size) ==
  [n \in 1 .. DivCeil(Len(seq), size) |->
     SubSeq(seq, (n - 1) * size + 1, Least(n * size, Len(seq)))]

Blocks(groups, size) ==
  LET chunks == Chunks(groups, size)
  IN  [n \in DOMAIN chunks |-> FlattenSeq(chunks[n])]

\* For the mutation checks: the last groups of an uneven deal are left out.
DealDroppingRest(groups, count) ==
  [g \in 1 .. count |->
     FlattenSeq([n \in 1 .. Len(groups) \div count |-> groups[(n - 1) * count + g]])]

\* The groups are dealt round: some stay empty if there are more of them.
Deal(groups, count) ==
  [g \in 1 .. count |->
     FlattenSeq([n \in 1 .. DivCeil(Len(groups), count) |->
       IF (n - 1) * count + g <= Len(groups) THEN groups[(n - 1) * count + g] ELSE <<>>])]

\* Every other wing is mirrored and laid over the first.
Wings(groups, count) ==
  LET size == DivCeil(Len(groups), count)
      wings == Chunks(groups, size)
      wing(n) == IF n % 2 = 0 THEN Reverse(wings[n]) ELSE wings[n]
      member(n, i) == IF i <= Len(wings[n]) THEN wing(n)[i] ELSE <<>>
  IN  [i \in 1 .. size |-> FlattenSeq([n \in DOMAIN wings |-> member(n, i)])]

GetFixtures(s) ==
  LET single  == [n \in DOMAIN s.fixtures |-> <<s.fixtures[n]>>]
      blocked == IF s.block = 0 THEN single ELSE Blocks(single, s.block)
      dealt   == IF s.groups = 0 THEN blocked ELSE Deal(blocked, s.groups)
      winged  == IF s.wings = 0 THEN dealt ELSE Wings(dealt, s.wings)
  IN  IF s.fixtures = <<>> THEN <<>> ELSE winged

=============================================================================
