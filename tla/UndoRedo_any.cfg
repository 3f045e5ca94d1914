SPECIFICATION Spec
CONSTANTS
  Entry = {a, b}
  a = a
  b = b
  MaxHistory = 5
INVARIANTS TypeOK StepsTakeEffect
PROPERTY ImplementsUndoStack
