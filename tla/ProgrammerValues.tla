-------------------------- MODULE ProgrammerValues --------------------------
(* What an operator may rely on: a value that is written belongs to the     *)
(* selection until something else is selected or the selection is cleared;  *)
(* the fixtures selected then keep it for good, whatever is selected,       *)
(* unselected or undone after, until all is cleared. As long as it belongs  *)
(* to the selection it is with whoever is selected: unselecting, or undoing *)
(* a selection, takes it from those that leave and gives it to those that   *)
(* come.                                                                    *)
EXTENDS Integers, Sequences

CONSTANTS
  Fixtures,
  Values,
  Presets,
  PresetValue,   \* preset -> fixture -> value, NoValue where it has none
  NoValue

VARIABLES
  selected,   \* set of fixtures
  values,     \* fixture -> its programmed value or NoValue
  kept,       \* fixture -> what it has for good
  carried,    \* fixture -> what it has of the selection while it is selected
  before      \* what undoing each command brings back: <<selection>> or <<>>

vars == <<selected, values, kept, carried, before>>

Nothing == [f \in Fixtures |-> NoValue]

Programmed ==
  [f \in Fixtures |-> IF f \in selected /\ carried[f] # NoValue THEN carried[f] ELSE kept[f]]

Init ==
  /\ selected = {} /\ before = <<>>
  /\ values = Nothing /\ kept = Nothing /\ carried = Nothing

NotUndoable == before' = Append(before, <<>>)

\* The fixtures selected now keep what the selection carries.
Settle == kept' = values /\ carried' = Nothing

Write(v) ==
  /\ carried' = [f \in Fixtures |-> v]
  /\ NotUndoable \/ UNCHANGED before
  /\ UNCHANGED <<selected, kept>>

\* A value that was written goes before the preset's.
CallPreset(preset) ==
  /\ carried' \in {carried, PresetValue[preset]}
  /\ NotUndoable
  /\ UNCHANGED <<selected, kept>>

\* A selection starts anew after a write and goes on otherwise.
Select(fixtures) ==
  /\ \/ selected' = fixtures
     \/ carried = Nothing /\ selected' = selected \cup fixtures
  /\ Settle
  /\ before' = Append(before, <<selected>>)

SelectGroup(fixtures) == selected' = fixtures /\ Settle /\ NotUndoable

Unselect(fixture) ==
  /\ selected' = selected \ {fixture}
  /\ UNCHANGED <<kept, carried, before>>

Clear ==
  /\ selected' = {}
  /\ IF selected # {} THEN Settle ELSE kept' = Nothing /\ carried' = Nothing
  /\ NotUndoable

Undo ==
  /\ before # <<>>
  /\ before' = SubSeq(before, 1, Len(before) - 1)
  /\ LET last == before[Len(before)]
     IN  selected' = IF last = <<>> THEN selected ELSE last[1]
  /\ UNCHANGED <<kept, carried>>

\* A command about something else
Other == NotUndoable /\ UNCHANGED <<selected, kept, carried>>

Operation ==
  \/ \E v \in Values : Write(v)
  \/ \E preset \in Presets : CallPreset(preset)
  \/ Clear \/ Undo \/ Other
  \/ \E fixtures \in SUBSET Fixtures : Select(fixtures) \/ SelectGroup(fixtures)
  \/ \E fixture \in Fixtures : Unselect(fixture)

Next == Operation /\ values' = Programmed'

Spec == Init /\ [][Next]_vars

=============================================================================
