----------------------------- MODULE Programmer -----------------------------
(* The programmer: what is selected, what was written to the selection, and *)
(* the selections that were written to before. Of the fixture controls one  *)
(* stands for all: they are kept in fields of their own and do not          *)
(* interact. Presets are of its type. NoValue and None stand for None.      *)
EXTENDS ChannelValues, FixtureSelection, FiniteSetsExt

CONSTANT PresetValue   \* preset -> fixture -> the value, NoValue where it has none

NoX == 0               \* Programmer.x is None; else x + 1

NoChannels == [fader |-> NoValue, presets |-> <<>>]

NewProgrammer ==
  [highlight |-> FALSE, offline |-> FALSE, selection |-> NoFixtures,
   channels |-> NoChannels, effects |-> <<>>, tracked |-> <<>>,
   written |-> FALSE, x |-> NoX]

ActiveEntry(p) == [selection |-> p.selection, channels |-> p.channels]
Entries(p) == Append(p.tracked, ActiveEntry(p))

-----------------------------------------------------------------------------
(* Operations *)

\* For the mutation checks: the values stay with the next selection as well.
MoveActiveKeepingChannels(p) ==
  IF ~p.written THEN p
  ELSE [p EXCEPT !.written = FALSE, !.tracked = Entries(p),
                 !.selection = ClearFixtures(@)]

MoveActiveToTracked(p) ==
  IF ~p.written THEN p
  ELSE [p EXCEPT !.written = FALSE, !.tracked = Entries(p),
                 !.selection = ClearFixtures(@), !.channels = NoChannels]

SelectFixtures(p, fixtures) ==
  LET moved == MoveActiveToTracked(p)
  IN  [moved EXCEPT !.selection = AddFixtures(@, fixtures)]

SelectGroup(p, group) == [MoveActiveToTracked(p) EXCEPT !.selection = group]

SetSelection(p, selection) == [p EXCEPT !.selection = selection]

UnselectFixtures(p, fixtures) ==
  [p EXCEPT !.selection = FoldLeft(RemoveFixture, @, fixtures)]

\* The flag stays up.
ClearSelection(p) ==
  [p EXCEPT !.tracked = IF p.written THEN Entries(p) ELSE @,
            !.selection = ClearFixtures(@), !.channels = NoChannels]

ClearAll(p) ==
  [p EXCEPT !.tracked = <<>>, !.effects = <<>>, !.selection = NoFixtures,
            !.channels = NoChannels, !.x = NoX]

ClearProgrammer(p) == IF p.selection.fixtures # <<>> THEN ClearSelection(p) ELSE ClearAll(p)

WriteControl(p, value) == [p EXCEPT !.channels.fader = value, !.written = TRUE]

\* For the mutation checks: calling a preset is not taken for a write.
CallPresetUnwritten(p, preset) == [p EXCEPT !.channels.presets = <<preset>>]

CallPreset(p, preset) == [p EXCEPT !.channels.presets = <<preset>>, !.written = TRUE]

CallEffect(p, effect) ==
  [p EXCEPT !.effects = Append(@, [effect |-> effect, fixtures |-> p.selection])]

SetHighlight(p, on) == [p EXCEPT !.highlight = on]
SetOffline(p, on) == [p EXCEPT !.offline = on]

-----------------------------------------------------------------------------
(* Stepping through the groups of the selection *)

GroupCount(p) == Len(GetFixtures(p.selection))
LastX(p) == IF GroupCount(p) = 0 THEN 1 ELSE GroupCount(p)

ClampX(p) == [p EXCEPT !.x = IF @ = NoX THEN NoX ELSE Least(@, LastX(p))]

SetBlockSize(p, size) == ClampX([p EXCEPT !.selection.block = size])
SetGroups(p, count) == ClampX([p EXCEPT !.selection.groups = count])
SetWings(p, count) == ClampX([p EXCEPT !.selection.wings = count])

NextX(p) == [p EXCEPT !.x = IF @ = NoX \/ @ + 1 > GroupCount(p) THEN 1 ELSE @ + 1]
PrevX(p) == [p EXCEPT !.x = IF @ \in {NoX, 1} THEN LastX(p) ELSE @ - 1]
AllX(p) == [p EXCEPT !.x = NoX]

-----------------------------------------------------------------------------
(* What a frame reads of it *)

ControlValue(channels, f) ==
  LET preset == IF channels.presets = <<>> THEN NoValue
                ELSE PresetValue[Last(channels.presets)][f]
  IN  IF channels.fader # NoValue THEN channels.fader ELSE preset

EntryValue(entry, f) ==
  IF f \in Selected(entry.selection) THEN ControlValue(entry.channels, f) ELSE NoValue

\* For the mutation checks: earlier selections come before later ones.
ValueFirstWins(p, f) ==
  LET entries == Entries(p)
      writes  == {n \in DOMAIN entries : EntryValue(entries[n], f) # NoValue}
  IN  IF writes = {} THEN NoValue ELSE EntryValue(entries[Min(writes)], f)

\* The last selection with a value for the fixture decides.
Value(p, f) ==
  LET entries == Entries(p)
      writes  == {n \in DOMAIN entries : EntryValue(entries[n], f) # NoValue}
  IN  IF writes = {} THEN NoValue ELSE EntryValue(entries[Max(writes)], f)

\* What run() highlights, offline aside.
Highlighted(p) ==
  LET groups == GetFixtures(p.selection)
  IN  CASE ~p.highlight -> {}
        [] p.highlight /\ p.x = NoX -> Selected(p.selection)
        [] p.highlight /\ p.x # NoX -> IF p.x \in DOMAIN groups THEN ToSet(groups[p.x]) ELSE {}

\* get_tracked_selections, as fixtures
TrackedFixtures(p) ==
  UNION {Selected(e.selection) : e \in ToSet(IF p.written THEN Entries(p) ELSE p.tracked)}

IsGroupActive(p, group) ==
  Selected(group) \subseteq UNION {Selected(e.selection) : e \in ToSet(Entries(p))}

=============================================================================
