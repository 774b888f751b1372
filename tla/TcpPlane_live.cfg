SPECIFICATION FairSpec
CONSTANTS
  TX_CAP = 1
  RX_CAP = 1
  CLOCK_TICKS = 2
  MSG = 2
  PEER_MSG = 0
  BUF = 2
  PeerCloses = TRUE
  PeerResets = TRUE
PROPERTIES HandshakeEnds TakenArrives ResetReported
