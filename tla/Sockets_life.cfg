SPECIFICATION Spec
CONSTANTS
  Sock = {s1, s2}
  Iface = {i1}
  Queue = {0, 1, 2}
  Port = {n1, n2}
  Remote = {r1, r2, r0}
  Unaddressable = {r0}
  Protos = {"tcp"}
  MAX_FLOWS = 3
  MAX_XSKS = 2
  MAX_CONNECTS = 2
  None = None
SYMMETRY Symmetry
INVARIANTS TypeOK Delivered RedirectLands HostLosesToStraysOnly OrphansAreStray
