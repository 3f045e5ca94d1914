SPECIFICATION OutputSpec
CONSTANTS
  f1 = f1
  f2 = f2
  circle = circle
  wave = wave
  Fixtures <- MCFixtures
  Picks <- MCPicks
  Groups = {}
  Values = {1}
  Presets = {}
  PresetValue <- NoPresets
  Effects = {circle, wave}
  Sizes = {}
  Sequences <- MCSequences
  EffectValue = 3
  Master <- MCMaster
  Ops <- OutputOps
  MaxCalls = 4
CHECK_DEADLOCK FALSE
INVARIANTS
  ProgrammerHasTheLastWord
  UnaskedIsDark
PROPERTIES
  FadesEnd
  CalledEffectRuns
