SPECIFICATION FairSpec
CONSTANTS
  TX_CAP = 2
  RX_CAP = 2
  CLOCK_TICKS = 2
  MSG = 1
  PEER_MSG = 1
  BUF = 2
  PeerCloses = TRUE
  PeerResets = TRUE
PROPERTIES EndReported
