SPECIFICATION Spec
CONSTANTS
  a = a
  b = b
  c = c
  t1 = t1
  t2 = t2
  t3 = t3
  r1 = r1
  None = None
  Thread = {a, b, c}
  Txn = {t1, t2, t3}
  Resource = {r1}
  Entry = {e1, e2, e3}
  TxnOf <- OneEach
  Timed = {TRUE, FALSE}
  MaxUses <- Once
SYMMETRY Symmetry
INVARIANTS
  WritersCounted
  WriterAttached
PROPERTIES
  WriterFirst
CHECK_DEADLOCK FALSE
