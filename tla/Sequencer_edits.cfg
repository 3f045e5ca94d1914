SPECIFICATION Spec
CONSTANTS
  c1 = c1
  c2 = c2
  e1 = e1
  e2 = e2
  Sequence <- EditShows
  NewCue <- Simple
  Rate = {1}
  UserOp = {"GoForward", "Stop", "Store", "Unstore", "Delete", "Restore", "Close", "Load"}
  QueueSize = 7
  MaxCommands = 5
  MaxTime = 2
INVARIANT PlayedCueExists
PROPERTY FramesGoOn
