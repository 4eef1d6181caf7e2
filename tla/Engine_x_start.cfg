SPECIFICATION EngineSpec
CONSTANTS
  Parts = {"recovery"}
  Tuple = {r1}
  Kind = {"hash"}
  NoFile = NoFile
  Table = {ta, tb}
  Key = {k1, k2}
  Val = {v1, v2}
  MaxTxn = 2
  MaxRowLog = 6
  MaxLog = 2
  MaxSlots = 3
  MaxAuto = 1
  Overlap = {FALSE}
  Mixed = {FALSE}
  DeleteLost = {FALSE}
  Behind = {FALSE}
  Reused = {FALSE}
  Code <- Codes
  ValueOf <- EqualInside
  Budget = 2
  MaxItems = 5
  Truncating = {FALSE, TRUE}
  Admitted = {}
INVARIANT RecoveryNeverRaises
CHECK_DEADLOCK FALSE
