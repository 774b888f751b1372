SPECIFICATION FairSpec
CONSTANTS
  proto = "udp"
  FRAME_COUNT = 3
  FILL_SIZE = 2
  RX_SIZE = 2
  TX_SIZE = 1
  frame_size = 2
  Headroom = 1
  W = 4
  Payload = {p1, p2}
  NoPayload = NoPayload
INVARIANTS TypeOK FrameOwnership NoOverwrite
PROPERTIES Service RxFrameReturns
