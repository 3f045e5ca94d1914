SPECIFICATION Spec
CONSTANTS
  t1 = t1
  t2 = t2
  n1 = n1
  DefaultName = DefaultName
  Name = {n1}
  Caller = {t1, t2}
  UserCommand <- AddAndRename
  UserOp = {"run", "undo", "save", "saveAs", "new", "load", "applyWal"}
  AutoApply = TRUE
  DiskFaults = TRUE
  MaxRequests = 4
  MaxCrashes = 2
INVARIANTS TypeOK RecoveryRestores
PROPERTIES LogIsKeptUntilSaved EveryRequestIsAnswered
