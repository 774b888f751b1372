SPECIFICATION FairSpec
CONSTANTS
  Args <- MCArgs
  COUNT = 4
  SIZE = 2
  CONTROL = 1
  BUF = 3
  TX_CAP = 1
  RX_CAP = 3
  SAMPLE = 2
  SPINS = 2
  IDLE = 2
  CONNECT_TIMEOUT = 2
INVARIANTS TypeOK Tally ElapsedCovers CutOff EchoWhole
PROPERTIES Terminates
CHECK_DEADLOCK FALSE
