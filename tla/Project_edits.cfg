SPECIFICATION Spec
CONSTANTS
  Sessions <- AllSessions
  MaxRedos = 1
  MaxNodes = 8
  MayShowNodes = TRUE
INVARIANTS DocumentIsWhole TransportsMirrorLinks NoPanic SavedProjectLoads
PROPERTY UndoAndRedoAreExact
CHECK_DEADLOCK FALSE
