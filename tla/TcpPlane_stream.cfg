SPECIFICATION Spec
CONSTANTS
  TX_CAP = 2
  RX_CAP = 3
  CLOCK_TICKS = 2
  MSG = 3
  PEER_MSG = 3
  BUF = 2
  PeerCloses = TRUE
  PeerResets = TRUE
INVARIANTS TypeOK StreamOut StreamIn EndIsComplete
