----------------------------- MODULE MCUdpSocket -----------------------------
(* Configurations at the edges of the geometry: the first MTU that is       *)
(* accepted and the last that is not, the last that a 2 KiB frame holds and *)
(* the first it does not, and a jumbo link, which needs large pages.        *)
EXTENDS UdpSocket

MCConfs ==
  {[mtu |-> 28, hugepage |-> "Off", xdp_mode |-> "copy"],
   [mtu |-> 29, hugepage |-> "Gb1", xdp_mode |-> "auto"],
   [mtu |-> 1500, hugepage |-> "Mb2", xdp_mode |-> "auto"],
   [mtu |-> 2034, hugepage |-> "Off", xdp_mode |-> "copy"],
   [mtu |-> 2035, hugepage |-> "Mb2", xdp_mode |-> "zerocopy"],
   [mtu |-> 9000, hugepage |-> "Mb2", xdp_mode |-> "auto"]}

MCNics ==
  {[native |-> TRUE, zc |-> TRUE], [native |-> TRUE, zc |-> FALSE],
   [native |-> FALSE, zc |-> FALSE]}

=============================================================================
