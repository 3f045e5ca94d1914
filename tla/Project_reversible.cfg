SPECIFICATION Spec
CONSTANTS
  Sessions <- PlacingFixtures
  MaxRedos = 0
  MaxNodes = 8
  MayShowNodes = FALSE
PROPERTY CommandsAreReversible
CHECK_DEADLOCK FALSE
