SPECIFICATION FilesSpec
CONSTANTS
  Parts = {"sequential"}
  one = one
  two = two
  Lost = {FALSE}
  Value = {one, two}
  Size <- SizeOf
  PageCap = 5
  EntriesPerDir = 2
  MaxPages = 5
  Key = {1, 2, 3, 4}
  Val = {1, 2}
  Fresh = {FALSE}
  Stays = {TRUE}
  MaxStatement = 2
  Emptied = {FALSE}
  Moving = {FALSE}
INVARIANT StatementExact
