SPECIFICATION Spec
CONSTANTS
  Sock = {s1, s2}
  Iface = {i1}
  Queue = {0, 1}
  Port = {n1}
  Remote = {r1, r2}
  Unaddressable = {}
  Protos = {"udp"}
  MAX_FLOWS = 2
  MAX_XSKS = 2
  MAX_CONNECTS = 2
  None = None
SYMMETRY Symmetry
INVARIANTS NoOrphanFlow
