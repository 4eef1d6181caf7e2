SPECIFICATION FilesSpec
CONSTANTS
  Parts = {"heap", "sequential"}
  one = one
  two = two
  Lost = {FALSE}
  Value = {one, two}
  Size <- SizeOf
  PageCap = 5
  EntriesPerDir = 2
  MaxPages = 5
  Key = {1, 2, 3, 4}
  Val = {1, 2}
  Fresh = {FALSE}
  Stays = {TRUE}
  MaxStatement = 1
  Emptied = {FALSE}
  Moving = {FALSE}
INVARIANTS HeapSound SequentialSound IndexExact StatementExact
PROPERTIES ImplementsRowStore
