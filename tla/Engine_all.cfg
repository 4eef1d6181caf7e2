SPECIFICATION EngineSpec
CONSTANTS
  Parts = {"recovery", "catalog", "planner", "sort", "rtree"}
  Tuple = {r1, r2}
  Kind = {"hash", "bitmap"}
  NoFile = NoFile
  Table = {ta, tb}
  Key = {k1, k2}
  Val = {v1, v2}
  MaxTxn = 2
  MaxRowLog = 6
  MaxLog = 3
  MaxSlots = 3
  MaxAuto = 1
  Overlap = {FALSE}
  Mixed = {FALSE}
  DeleteLost = {FALSE}
  Behind = {FALSE}
  Reused = {FALSE}
  Code <- Codes
  ValueOf <- EqualInside
  Budget = 2
  MaxItems = 5
  Truncating = {FALSE}
  Admitted = {}
SYMMETRY Symmetry
INVARIANTS
  RowsRecovered
  TablesAsPromised
  IndexesCurrent
  AnswerExact
  SortExact
  TreeExact
PROPERTIES
  TreeImplementsRowIndex
CHECK_DEADLOCK FALSE
