SPECIFICATION PlanesSpec
CONSTANTS
  TxFrames = 3
  RxFrames = 2
  Modes = {TRUE, FALSE}
  BATCH = 3
  Lowers = FALSE
  Protos = {"tcp", "udp"}
  WINDOW = 2
  SEGS = 1
  CHUNKS = 4
INVARIANTS TypeOK Handed HandedOver PanicBound
PROPERTIES TxServed FillServed
CHECK_DEADLOCK FALSE
