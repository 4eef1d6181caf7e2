SPECIFICATION Spec
CONSTANTS
  MaxTxn = 2
  MaxUpdates = 2
  MaxCheckpoints = 1
  Troubles = {"threads", "disk"}
INVARIANTS
  LogSound
  CommitDurable
  DecidedOnce
  UndoBackwards
PROPERTIES
  RollbackComplete
  ImplementsOutcome
