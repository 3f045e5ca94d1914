SPECIFICATION Spec
CONSTANTS
  f1 = f1
  f2 = f2
  f3 = f3
  warm = warm
  Fixtures <- MCFixtures
  Picks <- MCPicks
  Groups <- MCGroups
  Values = {1, 3}
  Presets = {warm}
  PresetValue <- MCPresetValue
  Effects = {}
  Sizes = {2}
  Ops <- ValueOps
  MaxCalls = 5
CHECK_DEADLOCK FALSE
INVARIANTS
  TypeOK
  ArrangementKeepsFixtures
  ProgrammedIsTracked
PROPERTIES
  ImplementsProgrammerValues
