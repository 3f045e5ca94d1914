SPECIFICATION Spec
CONSTANTS
  Names = {"a", "b"}
  Levels = {1}
  HoldGap = 1
  MaxCommands = 4
  MaxControls = 3
  MaxRecords = 2
  MaxTime = 2
  MaxId = 2
CHECK_DEADLOCK FALSE
INVARIANTS
  TypeOK
  RunningIsPlaying
  CoursesAreOrdered
  TracksHaveAllControls
  IdsAreFresh
PROPERTIES
  RecordingKeepsThePast
  UndoRestores
