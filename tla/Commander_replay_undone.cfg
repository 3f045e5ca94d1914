SPECIFICATION Spec
CONSTANTS
  t1 = t1
  t2 = t2
  n1 = n1
  DefaultName = DefaultName
  Name = {n1}
  Caller = {t1}
  UserCommand <- AddAndRename
  UserOp = {"run", "undo", "saveAs"}
  AutoApply = TRUE
  DiskFaults = FALSE
  MaxRequests = 4
  MaxCrashes = 1
INVARIANT ReplayRestoresUnsavedChanges
