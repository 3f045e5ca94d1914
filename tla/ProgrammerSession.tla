------------------------- MODULE ProgrammerSession -------------------------
(* The programmer as its users reach it: commands that the runtime applies  *)
(* and undoes, and calls of the API that lock the programmer directly. Most *)
(* commands have nothing to undo; undoing a selection sets the one before.  *)
EXTENDS Programmer

CONSTANTS
  Fixtures,
  Groups,      \* set of selections with their settings
  Picks,       \* what is selected at once: sequences of fixtures
  Values,      \* what is written to controls
  Presets,
  Effects,
  Sizes,       \* arguments of the block size, groups and wings settings
  Ops,         \* names of the operations that are used
  MaxCalls

\* A project file or a list sent by the UI could name a fixture twice in a
\* group; fixtures added to it, and those of the programmer, are in it once.
ASSUME GroupsAssumption ==
  \A group \in Groups :
    /\ group \in [fixtures : Seq(Fixtures), block : Nat, groups : Nat, wings : Nat]
    /\ IsInjective(group.fixtures)
ASSUME PicksAssumption == Picks \subseteq Seq(Fixtures)
ASSUME ValuesAssumption == Values \subseteq 0 .. Full
ASSUME PresetAssumption == PresetValue \in [Presets -> [Fixtures -> (0 .. Full) \cup {NoValue}]]
ASSUME BoundsAssumption == Sizes \subseteq Nat /\ MaxCalls \in Nat

VARIABLES
  prog,
  done,        \* what the commands returned for their undo
  calls

vars == <<prog, done, calls>>

Init == prog = NewProgrammer /\ done = <<>> /\ calls = 0

Used(op) == op \in Ops /\ calls < MaxCalls /\ calls' = calls + 1

-----------------------------------------------------------------------------
(* Commands *)

NothingToUndo == [undo |-> "nothing", selection |-> NoFixtures]

Apply(op, programmer, undo) == Used(op) /\ prog' = programmer /\ done' = Append(done, undo)

SelectFixturesCommand ==
  \E fixtures \in Picks :
    Apply("select", SelectFixtures(prog, fixtures),
          [undo |-> "selection", selection |-> prog.selection])

CallGroupCommand == \E group \in Groups : Apply("group", SelectGroup(prog, group), NothingToUndo)

ClearProgrammerCommand == Apply("clear", ClearProgrammer(prog), NothingToUndo)

WriteProgrammerCommand ==
  \E value \in Values : Apply("write", WriteControl(prog, value), NothingToUndo)

CallPresetCommand ==
  \E preset \in Presets : Apply("preset", CallPreset(prog, preset), NothingToUndo)

CallEffectCommand ==
  \E effect \in Effects : Apply("effect", CallEffect(prog, effect), NothingToUndo)

ToggleHighlightCommand ==
  Apply("highlight", SetHighlight(prog, ~prog.highlight),
        [undo |-> "highlight", selection |-> NoFixtures])

UndoCommand ==
  /\ Used("undo")
  /\ done # <<>>
  /\ prog' = CASE Last(done).undo = "selection" -> SetSelection(prog, Last(done).selection)
               [] Last(done).undo = "highlight" -> SetHighlight(prog, ~prog.highlight)
               [] OTHER -> prog
  /\ done' = Front(done)

Commands ==
  \/ SelectFixturesCommand \/ CallGroupCommand \/ ClearProgrammerCommand
  \/ WriteProgrammerCommand \/ CallPresetCommand \/ CallEffectCommand
  \/ ToggleHighlightCommand \/ UndoCommand

-----------------------------------------------------------------------------
(* Calls *)

Call(op, programmer) == Used(op) /\ prog' = programmer /\ UNCHANGED done

Unselect == \E f \in Fixtures : Call("unselect", UnselectFixtures(prog, <<f>>))

WriteDirectly == \E value \in Values : Call("writeDirectly", WriteControl(prog, value))

SwitchHighlight == \E on \in BOOLEAN : Call("switchHighlight", SetHighlight(prog, on))

SwitchOffline == \E on \in BOOLEAN : Call("offline", SetOffline(prog, on))

Arrange ==
  \E size \in Sizes :
    \/ Call("arrange", SetBlockSize(prog, size))
    \/ Call("arrange", SetGroups(prog, size))
    \/ Call("arrange", SetWings(prog, size))

StepThrough ==
  \/ Call("step", NextX(prog))
  \/ Call("step", PrevX(prog))
  \/ Call("step", AllX(prog))

Shuffle ==
  \E order \in SetToSeqs(Selected(prog.selection)) :
    Call("shuffle", SetSelection(prog, [prog.selection EXCEPT !.fixtures = order]))

Calls ==
  \/ Unselect \/ WriteDirectly \/ SwitchHighlight \/ SwitchOffline
  \/ Arrange \/ StepThrough \/ Shuffle

Next == Commands \/ Calls
Spec == Init /\ [][Next]_vars

-----------------------------------------------------------------------------
(* Properties *)

(* Every part of the state is of the form the code gives it; no selection   *)
(* holds a fixture twice.                                                   *)
TypeOK ==
  /\ prog.highlight \in BOOLEAN /\ prog.offline \in BOOLEAN /\ prog.written \in BOOLEAN
  /\ \A e \in ToSet(Entries(prog)) :
       /\ Selected(e.selection) \subseteq Fixtures /\ IsInjective(e.selection.fixtures)
       /\ e.channels.fader \in Values \cup {NoValue}
       /\ Len(e.channels.presets) <= 1 /\ ToSet(e.channels.presets) \subseteq Presets
  /\ prog.x \in Nat
  /\ calls \in 0 .. MaxCalls /\ Len(done) <= calls

\* What the selections before the active one leave a fixture with.
Kept(p) == [f \in Fixtures |-> Value(SetSelection(p, NoFixtures), f)]

\* What the active selection holds for a fixture, if it is selected.
Carried(p) == [f \in Fixtures |-> ControlValue(p.channels, f)]

(* A value that is written, or comes of a preset, is with exactly the       *)
(* fixtures that are selected, until something else is selected or the      *)
(* selection is cleared. The fixtures selected at that moment keep it: no   *)
(* selecting, unselecting or undoing after it takes it from them or gives   *)
(* it to others, a later selection's value covers it, and only a clear with *)
(* nothing selected takes it away. Before that moment it goes with the      *)
(* selection: unselecting a fixture takes it away, and undoing a selection  *)
(* takes it from the fixtures that leave and gives it to those that come    *)
(* back (set_selection moves nothing to the tracked selections, "TODO:      *)
(* move_active_to_tracked?").                                               *)
ProgrammedValues ==
  INSTANCE ProgrammerValues WITH
    Values   <- 0 .. Full,
    selected <- Selected(prog.selection),
    values   <- [f \in Fixtures |-> Value(prog, f)],
    kept     <- Kept(prog),
    carried  <- Carried(prog),
    before   <- [n \in DOMAIN done |-> IF done[n].undo # "selection" THEN <<>>
                                        ELSE <<Selected(done[n].selection)>>]
ImplementsProgrammerValues == ProgrammedValues!Spec

(* However the selection is blocked, dealt into groups and folded into      *)
(* wings, each selected fixture is in exactly one place of the result:      *)
(* effects, presets, fans and the highlight reach all of them, once.        *)
ArrangementKeepsFixtures ==
  LET arranged == FlattenSeq(GetFixtures(prog.selection))
  IN  IsInjective(arranged) /\ ToSet(arranged) = Selected(prog.selection)

(* A fixture with a programmed value is among the tracked ones, which is    *)
(* what the surface shows as programmed.                                    *)
ProgrammedIsTracked ==
  \A f \in Fixtures : Value(prog, f) # NoValue => f \in TrackedFixtures(prog)

=============================================================================
