SPECIFICATION Spec
CONSTANTS
  t1 = t1
  t2 = t2
  n1 = n1
  DefaultName = DefaultName
  Name = {n1}
  Caller = {t1, t2}
  UserCommand <- NodeCommands
  UserOp = {"run", "undo", "redo"}
  AutoApply = FALSE
  DiskFaults = FALSE
  MaxRequests = 7
  MaxCrashes = 0
INVARIANTS KeysAreUnique StatesBelongToEntriesInEffect
PROPERTY UndoRestores
