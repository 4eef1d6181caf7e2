SPECIFICATION EngineSpec
CONSTANTS
  Parts = {"catalog"}
  Tuple = {r1}
  Kind = {"hash", "bitmap"}
  NoFile = NoFile
  Table = {ta, tb}
  Key = {k1, k2}
  Val = {v1, v2}
  MaxTxn = 2
  MaxRowLog = 6
  MaxLog = 2
  MaxSlots = 3
  MaxAuto = 1
  Overlap = {FALSE}
  Mixed = {FALSE}
  DeleteLost = {FALSE}
  Behind = {FALSE}
  Reused = {FALSE}
  Code <- Codes
  ValueOf <- EqualInside
  Budget = 2
  MaxItems = 5
  Truncating = {FALSE}
  Admitted = {"index in transaction"}
INVARIANT IndexesCurrent
CHECK_DEADLOCK FALSE
