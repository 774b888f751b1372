SPECIFICATION Spec
CONSTANTS
  TxFrames = 3
  RxFrames = 1
  Modes = {FALSE}
  BATCH = 2
  Lowers = FALSE
INVARIANTS Handed
