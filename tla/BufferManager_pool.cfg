SPECIFICATION Spec
CONSTANTS
  m1 = m1
  m2 = m2
  None = None
  Manager = {m1, m2}
  MaxFrames = 2
  MaxPages <- ThreePages
  MaxChanges = 2
  MaxPins = 2
  MaxTxn = 1
  MaxLost = 1
INVARIANTS
  TypeOK
  FramesSound
  ImagesSound
PROPERTIES
  ImplementsPageStore
CHECK_DEADLOCK FALSE
