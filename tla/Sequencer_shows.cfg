SPECIFICATION Spec
CONSTANTS
  c1 = c1
  c2 = c2
  e1 = e1
  e2 = e2
  Sequence <- MixedShows
  NewCue <- Simple
  Rate = {0, 1, 2}
  UserOp = {"GoForward", "GoBackward", "GoTo", "Stop", "Toggle", "Rate"}
  QueueSize = 6
  MaxCommands = 3
  MaxTime = 6
INVARIANTS TypeOK OrderHoldsTheActive EffectsFollowCues StoppedIsSilent DelaysAreKept
PROPERTIES OrderFollowsStarts CuesWaitTheirTurn AutomaticCuesAreReached
