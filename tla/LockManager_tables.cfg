SPECIFICATION FairSpec
CONSTANTS
  a = a
  b = b
  c = c
  t1 = t1
  t2 = t2
  t3 = t3
  r1 = r1
  None = None
  Thread = {a, b}
  Txn = {t1, t2}
  Resource = {r1, r2}
  Entry = {e1, e2}
  TxnOf <- TwoThreads
  Timed = {TRUE}
  MaxUses <- OneUpgraded
INVARIANTS
  References
  OwnedIsHeld
PROPERTIES
  AcquireReturns
