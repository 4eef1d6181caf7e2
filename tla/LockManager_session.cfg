SPECIFICATION Spec
CONSTANTS
  a = a
  b = b
  c = c
  t1 = t1
  t2 = t2
  t3 = t3
  r1 = r1
  None = None
  Thread = {a, b, c}
  Txn = {t1, t2}
  Resource = {r1}
  Entry = {e1, e2, e3}
  TxnOf <- SharedTxn
  Timed = {TRUE}
  MaxUses <- Twice
SYMMETRY Symmetry
INVARIANTS
  TypeOK
  Exclusion
  WriterWoken
PROPERTIES
  ReleaseAllComplete
  ImplementsLockTable
