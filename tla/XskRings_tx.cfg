SPECIFICATION Spec
CONSTANTS
  proto = "tcp"
  FRAME_COUNT = 3
  FILL_SIZE = 1
  RX_SIZE = 1
  TX_SIZE = 2
  frame_size = 2
  Headroom = 1
  W = 4
  Payload = {p1, p2}
  NoPayload = NoPayload
INVARIANTS IInv CompletionRoom
PROPERTIES WireStable Service
CHECK_DEADLOCK FALSE
