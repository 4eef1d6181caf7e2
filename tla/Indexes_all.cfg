SPECIFICATION IndexesSpec
CONSTANTS
  Parts = {"hash", "bitmap", "tree", "sets", "join"}
  HKey = {h1, h2, h3}
  h1 = h1
  h2 = h2
  h3 = h3
  HRid = {r1, r2}
  BKey = {b1, b2, b3}
  BRid = {s1, s2, s3, s4}
  BPageCap = 9
  BMaxOnPage = 3
  Twins = FALSE
  Wide = FALSE
  Code <- Codes
  ValueOf <- OwnValue
  NumBuckets = 2
  MaxItems = 4
SYMMETRY Symmetry
INVARIANTS HashSound BitmapSound BitmapsExact TreeSound TreeAnswersExact HashExact
PROPERTIES ImplementsRowIndex
CHECK_DEADLOCK FALSE
