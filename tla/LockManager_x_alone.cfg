SPECIFICATION Spec
CONSTANTS
  a = a
  b = b
  c = c
  t1 = t1
  t2 = t2
  t3 = t3
  r1 = r1
  None = None
  Thread = {a, b}
  Txn = {t1, t2}
  Resource = {r1}
  Entry = {e1, e2}
  TxnOf <- TwoThreads
  Timed = {TRUE}
  MaxUses <- Once
INVARIANT ExclusiveIsAlone
CHECK_DEADLOCK FALSE
