SPECIFICATION Spec
CONSTANTS
  Confs <- MCConfs
  Nics <- MCNics
  Pages = {4096, 16384}
  Remotes = {r1, r2}
  POOL = 2
  RX_CAP = 1
  Short = {0, 1}
  None = None
INVARIANTS TypeOK QueueHeld LeakBound Fed Geometry ChunksFit Received
